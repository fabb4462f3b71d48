------------------------------- MODULE DemoProofs -------------------------------
(***************************************************************************)
(* Proofs about Demo, for any looks, positions, sizes of the container and  *)
(* number of viewers and events: what is shown follows the controls.        *)
(***************************************************************************)
EXTENDS Demo, TLAPS

-----------------------------------------------------------------------------
(* What the comparison of views is worth: views that it calls equal ask    *)
(* the server for the same image, and a copy of a view is equal to it.     *)

\* set is idempotent: what it has made, it makes again (MandelbrotView.js 57-98).
LEMMA SetTwice ==
  ASSUME NEW s \in Settings
  PROVE  IsSet(SetSettings(s))
<1>. DEFINE three_d == s.three_d /\ s.full_image
            offset == IF s.stereo THEN Half(s.image_separation - s.eye_separation) ELSE 0
            modes == Modes(s.renderer, s.full_image, s.smooth)
            u == [s EXCEPT !.three_d = three_d, !.center_offset = offset, !.modes = modes]
<1>. HIDE DEF offset, modes
<1>1. SetSettings(s) = u
  BY DEF SetSettings, offset, modes
<1>2. three_d /\ s.full_image <=> three_d
  OBVIOUS
<1>3. /\ u.three_d = three_d /\ u.full_image = s.full_image /\ u.stereo = s.stereo
      /\ u.image_separation = s.image_separation /\ u.eye_separation = s.eye_separation
      /\ u.renderer = s.renderer /\ u.smooth = s.smooth
  BY DEF Settings
<1>4. SetSettings(u) = [u EXCEPT !.three_d = three_d, !.center_offset = offset, !.modes = modes]
  <2>1. (u.three_d /\ u.full_image) = three_d
    BY <1>2, <1>3
  <2>2. offset = IF u.stereo THEN Half(u.image_separation - u.eye_separation) ELSE 0
    BY <1>3 DEF offset
  <2>3. modes = Modes(u.renderer, u.full_image, u.smooth)
    BY <1>3 DEF modes
  <2>. HIDE DEF u, three_d
  <2>. QED
    BY <2>1, <2>2, <2>3 DEF SetSettings
<1>5. [u EXCEPT !.three_d = three_d, !.center_offset = offset, !.modes = modes] = u
  BY DEF Settings
<1>. QED
  BY <1>1, <1>4, <1>5 DEF IsSet

\* The renderer, which equals does not compare, can be read off the modes, which
\* it does (MandelbrotView.js 77-82, 118).
LEMMA ModesTellRenderer ==
  ASSUME NEW r1 \in Renderer, NEW r2 \in Renderer,
         NEW f1, NEW f2, NEW s1, NEW s2,
         Modes(r1, f1, s1) = Modes(r2, f2, s2)
  PROVE  r1 = r2
<1>1. /\ (r1 = "python") = (r2 = "python")
      /\ (r1 = "cpp") = (r2 = "cpp")
      /\ (r1 = "fpga") = (r2 = "fpga")
  BY DEF Modes
<1>. QED
  BY <1>1 DEF Renderer

\* Of settings that set has made, the fields that equals does not compare
\* (center_offset, and the separations unless stereo) are determined by the others
\* as far as a URL shows them.
LEMMA EqualSettingsSameArgs ==
  ASSUME NEW s \in Settings, NEW t \in Settings,
         IsSet(s), IsSet(t), EqualSettings(s, t)
  PROVE  QueryArgs(s) = QueryArgs(t)
<1>1. s.modes = Modes(s.renderer, s.full_image, s.smooth)
  BY DEF IsSet, SetSettings, Settings
<1>2. t.modes = Modes(t.renderer, t.full_image, t.smooth)
  BY DEF IsSet, SetSettings, Settings
<1>3. s.renderer = t.renderer
  <2>1. s.renderer \in Renderer /\ t.renderer \in Renderer
    BY DEF Settings
  <2>2. Modes(s.renderer, s.full_image, s.smooth) = Modes(t.renderer, t.full_image, t.smooth)
    BY <1>1, <1>2 DEF EqualSettings
  <2>. QED
    BY <2>1, <2>2, ModesTellRenderer
<1>4. s.center_offset = t.center_offset
  <2>1. s.center_offset = IF s.stereo THEN Half(s.image_separation - s.eye_separation) ELSE 0
    BY DEF IsSet, SetSettings, Settings
  <2>2. t.center_offset = IF t.stereo THEN Half(t.image_separation - t.eye_separation) ELSE 0
    BY DEF IsSet, SetSettings, Settings
  <2>. QED
    BY <2>1, <2>2 DEF EqualSettings
<1>5. MapQueryArgs(s) = MapQueryArgs(t)
  BY <1>3 DEF MapQueryArgs, EqualSettings
<1>. QED
  BY <1>4, <1>5 DEF QueryArgs, EqualSettings

\* A viewer that finds the view it desires equal to the one it requested misses no
\* image: the URLs are the same, although equals leaves out three of the fields
\* (MandelbrotView.js 111-140, 252-262, 302-315).
THEOREM EqualViewsSameImage ==
  ASSUME NEW v \in View, NEW w \in View,
         IsSet(v.settings), IsSet(w.settings), EqualView(v, w)
  PROVE  ImageURL(v) = ImageURL(w)
<1>1. QueryArgs(v.settings) = QueryArgs(w.settings)
  BY EqualSettingsSameArgs DEF View, EqualView
<1>. QED
  BY <1>1 DEF EqualView, ImageURL

\* The copy that a viewer keeps of the view it requests is the view itself, so it
\* stops requesting once nothing changes (MandelbrotView.js 104-109, 247-249).
THEOREM CopyIsExact ==
  ASSUME NEW v \in View, IsSet(v.settings)
  PROVE  CopyView(v) = v /\ EqualView(v, CopyView(v))
<1>1. CopyView(v) = v
  BY DEF CopyView, CopySettings, View, IsSet
<1>. QED
  BY <1>1 DEF EqualView, EqualSettings

-----------------------------------------------------------------------------
(* The inductive invariant.                                                *)

Host == {PageHost, F1Host}

Gui ==
  [tiled : BOOLEAN, mode : {"2d", "3d", "stereo"}, renderer : Renderer, smooth : BOOLEAN,
   look : Look, theme : {"none", "xmas"}, host : Host,
   cast : {"off", "on"}, vr : {"off", "on"}]

URL == {ImageURL(w) : w \in View}

ViewerRecord ==
  [destroyed : BOOLEAN, vr : BOOLEAN, host : Host, pos : Position, width : Nat,
   requested : View, url : URL, phase : {"load", "wait", "failed", "ended"}]

\* A viewer keeps settings that set has made, and requests what it keeps.
ViewerOK(r) ==
  /\ r \in ViewerRecord
  /\ IsSet(r.requested.settings)
  /\ r.url = ImageURL(r.requested)

\* The settings are those of the controls, but for the separations, the spot and
\* the time.
Match(s, g, tag) ==
  /\ s.look = g.look /\ s.theme = g.theme
  /\ s.three_d = (g.mode # "2d" /\ ~ g.tiled)
  /\ s.stereo = Stereo(g)
  /\ s.modes = Modes(g.renderer, ~ g.tiled, g.smooth)
  /\ s.cast_tag = tag

SettingsInv ==
  /\ gui \in Gui /\ cast_tag \in CastTag \cup {NoTag}
  /\ clock \in [1 .. MaxViewers -> Nat]
  /\ settings \in Settings /\ IsSet(settings)
  /\ Match(settings, gui, cast_tag)
  /\ cast_tag # NoTag <=> gui.cast = "on"

\* The host to restore is known exactly while the instance runs.
HostInv ==
  /\ server \in [f1_state : {"stopped", "pending", "running"},
                restore_host : {"none", PageHost}]
  /\ server.f1_state = "running" <=> server.restore_host # "none"
  /\ gui.host = IF server.f1_state = "running" THEN F1Host ELSE PageHost

SizesInv == container \in Nat /\ eye_width \in Nat

\* All viewers but the open one have been destroyed.
ViewersInv ==
  /\ viewers \in Seq(ViewerRecord)
  /\ \A v \in 1 .. Len(viewers) : ViewerOK(viewers[v])
  /\ Len(viewers) <= MaxViewers
  /\ viewer \in 0 .. Len(viewers)
  /\ \A v \in 1 .. Len(viewers) : v # viewer => viewers[v].destroyed

MapInv == IF viewer = 0 THEN map = MapURL(gui, settings)
                        ELSE map = NoMap /\ Open.host = gui.host

SpotInv == spots \in Seq(-1 .. SpotLimit - 1) /\ SpotIsLed

IInv ==
  /\ SettingsInv /\ HostInv /\ SizesInv /\ ViewersInv /\ MapInv /\ SpotInv
  /\ WaitingShowsRequested

-----------------------------------------------------------------------------
(* Settings.                                                               *)

\* set keeps the type.
LEMMA SetType ==
  ASSUME NEW s \in Settings
  PROVE  SetSettings(s) \in Settings
<1>. DEFINE three_d == s.three_d /\ s.full_image
            offset == IF s.stereo THEN Half(s.image_separation - s.eye_separation) ELSE 0
            modes == Modes(s.renderer, s.full_image, s.smooth)
<1>1. SetSettings(s) = [s EXCEPT !.three_d = three_d, !.center_offset = offset, !.modes = modes]
  BY DEF SetSettings
<1>2. three_d \in BOOLEAN
  OBVIOUS
<1>3. offset \in Int
  BY DEF Settings, Half
<1>4. modes \in BOOLEAN \X BOOLEAN \X BOOLEAN \X BOOLEAN \X BOOLEAN
  BY DEF Settings, Modes
<1>. HIDE DEF three_d, offset, modes
<1>5. [s EXCEPT !.three_d = three_d, !.center_offset = offset, !.modes = modes] \in Settings
  BY <1>2, <1>3, <1>4 DEF Settings
<1>. QED
  BY <1>1, <1>5

\* The fields that are changed one at a time are not among those that set computes
\* others from.
LEMMA CycleKeepsSet ==
  ASSUME NEW s \in Settings, IsSet(s), NEW c \in Nat
  PROVE  [s EXCEPT !.cycle = c] \in Settings /\ IsSet([s EXCEPT !.cycle = c])
<1>. DEFINE u == [s EXCEPT !.cycle = c]
<1>1. u \in Settings
  BY DEF Settings
<1>2. /\ u.three_d = s.three_d /\ u.full_image = s.full_image /\ u.stereo = s.stereo
      /\ u.image_separation = s.image_separation /\ u.eye_separation = s.eye_separation
      /\ u.renderer = s.renderer /\ u.smooth = s.smooth
      /\ u.center_offset = s.center_offset /\ u.modes = s.modes
  BY DEF Settings
<1>3. /\ s.three_d = (s.three_d /\ s.full_image)
      /\ s.center_offset = IF s.stereo THEN Half(s.image_separation - s.eye_separation) ELSE 0
      /\ s.modes = Modes(s.renderer, s.full_image, s.smooth)
  BY DEF IsSet, SetSettings, Settings
<1>. HIDE DEF u
<1>4. SetSettings(u) = [u EXCEPT !.three_d = u.three_d, !.center_offset = u.center_offset,
                                 !.modes = u.modes]
  BY <1>2, <1>3 DEF SetSettings
<1>5. [u EXCEPT !.three_d = u.three_d, !.center_offset = u.center_offset,
                !.modes = u.modes] = u
  BY <1>1 DEF Settings
<1>. QED
  BY <1>1, <1>4, <1>5 DEF IsSet, u

\* The same for the depth of the spot.
LEMMA SpotKeepsSet ==
  ASSUME NEW s \in Settings, IsSet(s), NEW d \in Int
  PROVE  [s EXCEPT !.spot_depth = d] \in Settings /\ IsSet([s EXCEPT !.spot_depth = d])
<1>. DEFINE u == [s EXCEPT !.spot_depth = d]
<1>1. u \in Settings
  BY DEF Settings
<1>2. /\ u.three_d = s.three_d /\ u.full_image = s.full_image /\ u.stereo = s.stereo
      /\ u.image_separation = s.image_separation /\ u.eye_separation = s.eye_separation
      /\ u.renderer = s.renderer /\ u.smooth = s.smooth
      /\ u.center_offset = s.center_offset /\ u.modes = s.modes
  BY DEF Settings
<1>3. /\ s.three_d = (s.three_d /\ s.full_image)
      /\ s.center_offset = IF s.stereo THEN Half(s.image_separation - s.eye_separation) ELSE 0
      /\ s.modes = Modes(s.renderer, s.full_image, s.smooth)
  BY DEF IsSet, SetSettings, Settings
<1>. HIDE DEF u
<1>4. SetSettings(u) = [u EXCEPT !.three_d = u.three_d, !.center_offset = u.center_offset,
                                 !.modes = u.modes]
  BY <1>2, <1>3 DEF SetSettings
<1>5. [u EXCEPT !.three_d = u.three_d, !.center_offset = u.center_offset,
                !.modes = u.modes] = u
  BY <1>1 DEF Settings
<1>. QED
  BY <1>1, <1>4, <1>5 DEF IsSet, u

\* The settings that the controls give.
LEMMA GuiSettingsMatch ==
  ASSUME NEW g \in Gui, NEW tag \in CastTag \cup {NoTag}, NEW vw, NEW w \in Nat
  PROVE  /\ GuiSettings(g, tag, vw, w) \in Settings
         /\ IsSet(GuiSettings(g, tag, vw, w))
         /\ Match(GuiSettings(g, tag, vw, w), g, tag)
         /\ GuiSettings(g, tag, vw, w).spot_depth = -1
         /\ GuiSettings(g, tag, vw, w).cycle = 0
<1>. DEFINE eyes == IF vw = NoView THEN 0 ELSE EyeSeparation(vw.vr)
            images == w + IF vw = NoView THEN 0 ELSE ImageGap(vw.vr)
            three_d == g.mode # "2d"
            stereo == Stereo(g)
            full_image == ~ g.tiled
            modes == Modes(g.renderer, full_image, g.smooth)
            s == [look |-> g.look, theme |-> g.theme, renderer |-> g.renderer,
                  three_d |-> three_d, stereo |-> stereo, smooth |-> g.smooth,
                  full_image |-> full_image,
                  eye_separation |-> eyes, image_separation |-> images,
                  spot_depth |-> -1, cycle |-> 0, cast_tag |-> tag,
                  center_offset |-> 0, modes |-> modes]
<1>1. GuiSettings(g, tag, vw, w) = SetSettings(s)
  BY DEF GuiSettings
<1>2. eyes \in Nat /\ images \in Nat
  BY DEF EyeSeparation, ImageGap
<1>3. /\ three_d \in BOOLEAN /\ stereo \in BOOLEAN /\ full_image \in BOOLEAN
  BY DEF Stereo
<1>4. /\ g.look \in Look /\ g.theme \in {"none", "xmas"} /\ g.renderer \in Renderer
      /\ g.smooth \in BOOLEAN
  BY DEF Gui
<1>5. modes \in BOOLEAN \X BOOLEAN \X BOOLEAN \X BOOLEAN \X BOOLEAN
  BY <1>3, <1>4 DEF Modes
<1>. HIDE DEF eyes, images, three_d, stereo, full_image, modes
<1>6. s \in Settings
  BY <1>2, <1>3, <1>4, <1>5 DEF Settings
<1>7. SetSettings(s) \in Settings /\ IsSet(SetSettings(s))
  BY <1>6, SetType, SetTwice
<1>8. /\ SetSettings(s).look = g.look /\ SetSettings(s).theme = g.theme
      /\ SetSettings(s).three_d = (three_d /\ full_image)
      /\ SetSettings(s).stereo = stereo
      /\ SetSettings(s).modes = Modes(g.renderer, full_image, g.smooth)
      /\ SetSettings(s).cast_tag = tag
      /\ SetSettings(s).spot_depth = -1 /\ SetSettings(s).cycle = 0
  BY DEF SetSettings
<1>9. Match(SetSettings(s), g, tag)
  BY <1>8 DEF Match, three_d, stereo, full_image, modes
<1>. QED
  BY <1>1, <1>7, <1>8, <1>9

\* The time changes nothing but the cycle.
LEMMA TimedKeeps ==
  ASSUME SettingsInv, NEW v \in 1 .. MaxViewers, NEW s \in Settings, IsSet(s), NEW g, NEW tag,
         Match(s, g, tag)
  PROVE  /\ Timed(s, v) \in Settings /\ IsSet(Timed(s, v)) /\ Match(Timed(s, v), g, tag)
         /\ Timed(s, v).spot_depth = s.spot_depth
         /\ MapQueryArgs(Timed(s, v)) = MapQueryArgs(s)
<1>1. CASE Timed(s, v) = s
  BY <1>1
<1>2. CASE Timed(s, v) = [s EXCEPT !.cycle = clock[v]]
  <2>. DEFINE u == [s EXCEPT !.cycle = clock[v]]
  <2>1. clock[v] \in Nat
    BY DEF SettingsInv
  <2>5. u \in Settings /\ IsSet(u)
    BY <2>1, CycleKeepsSet
  <2>2. /\ u.look = s.look /\ u.theme = s.theme /\ u.three_d = s.three_d
        /\ u.stereo = s.stereo /\ u.modes = s.modes /\ u.cast_tag = s.cast_tag
        /\ u.spot_depth = s.spot_depth /\ u.renderer = s.renderer
    BY DEF Settings
  <2>. HIDE DEF u
  <2>3. Match(u, g, tag) /\ MapQueryArgs(u) = MapQueryArgs(s)
    BY <2>2 DEF Match, MapQueryArgs
  <2>. QED
    BY <1>2, <2>5, <2>2, <2>3 DEF u
<1>. QED
  BY <1>1, <1>2 DEF Timed

-----------------------------------------------------------------------------
(* Viewers.                                                                *)

\* An eye's width is not negative, because the container is widened for it.
LEMMA EyeWidthNat ==
  ASSUME NEW c \in Nat, NEW stereo \in BOOLEAN, NEW vr \in BOOLEAN
  PROVE  /\ Widened(c, stereo, vr) \in Nat
         /\ EyeWidth(Widened(c, stereo, vr), stereo, vr) \in Nat
         /\ EyeWidth(c, FALSE, vr) \in Nat
BY DEF Widened, EyeWidth, EyeSeparation, ImageGap, Padding

\* A changed record of a viewer, of the types that matter.
LEMMA ViewerUpdates ==
  ASSUME NEW r \in ViewerRecord, NEW w \in Nat, NEW q \in View, NEW u \in URL,
         NEW p \in Position
  PROVE  /\ [r EXCEPT !.width = w] \in ViewerRecord
         /\ [r EXCEPT !.pos = p] \in ViewerRecord
         /\ [r EXCEPT !.phase = "load", !.url = u, !.requested = q] \in ViewerRecord
BY DEF ViewerRecord

\* The phases of a viewer.
LEMMA PhaseUpdates ==
  ASSUME NEW r \in ViewerRecord
  PROVE  /\ [r EXCEPT !.phase = "wait"] \in ViewerRecord
         /\ [r EXCEPT !.phase = "ended"] \in ViewerRecord
         /\ [r EXCEPT !.phase = "failed"] \in ViewerRecord
         /\ [r EXCEPT !.destroyed = TRUE] \in ViewerRecord
BY DEF ViewerRecord

\* A viewer that requests the view it desires keeps that view and its URL.
LEMMA RequestOK ==
  ASSUME NEW r, NEW s \in Settings, IsSet(s),
         r.pos \in Position, r.width \in Nat,
         NEW V, V = ViewOf(r, s)
  PROVE  /\ V \in View /\ CopyView(V) = V /\ ImageURL(V) \in URL
         /\ IsSet(V.settings) /\ V.settings = s
<1>1. V \in View /\ V.settings = s
  BY DEF ViewOf, View
<1>2. CopyView(V) = V
  BY <1>1, CopyIsExact
<1>3. ImageURL(V) \in URL
  BY <1>1 DEF URL
<1>. QED
  BY <1>1, <1>2, <1>3

\* updateImage: the viewer waits with what it has, or requests and loads.
LEMMA UpdatedOK ==
  ASSUME NEW r, ViewerOK(r), NEW s \in Settings, IsSet(s)
  PROVE  /\ ViewerOK(Updated(r, s))
         /\ Updated(r, s).phase \in {"wait", "load"}
         /\ Updated(r, s).phase = "wait" =>
              /\ Updated(r, s).requested = r.requested
              /\ r.requested.settings.stereo = s.stereo
         /\ Updated(r, s).host = r.host /\ Updated(r, s).destroyed = r.destroyed
<1>. DEFINE V == ViewOf(r, s)
            a == [r EXCEPT !.phase = "wait"]
            b == [r EXCEPT !.phase = "load", !.url = ImageURL(V), !.requested = CopyView(V)]
<1>1. r \in ViewerRecord /\ r.pos \in Position /\ r.width \in Nat
  BY DEF ViewerOK, ViewerRecord
<1>2. /\ V \in View /\ CopyView(V) = V /\ ImageURL(V) \in URL
      /\ IsSet(V.settings) /\ V.settings = s
  BY <1>1, RequestOK
<1>3. CASE r.requested # NoView /\ EqualView(V, r.requested)
  <2>1. Updated(r, s) = a
    BY <1>3 DEF Updated
  <2>2. r.requested.settings.stereo = s.stereo
    BY <1>2, <1>3 DEF EqualView, EqualSettings
  <2>3. /\ a \in ViewerRecord /\ a.requested = r.requested /\ a.url = r.url
        /\ a.host = r.host /\ a.destroyed = r.destroyed /\ a.phase = "wait"
    BY <1>1, PhaseUpdates DEF ViewerRecord
  <2>. HIDE DEF a
  <2>4. ViewerOK(a)
    BY <2>3 DEF ViewerOK
  <2>. QED
    BY <2>1, <2>2, <2>3, <2>4
<1>4. CASE ~ (r.requested # NoView /\ EqualView(V, r.requested))
  <2>1. Updated(r, s) = b
    BY <1>4 DEF Updated
  <2>. HIDE DEF V
  <2>2. b \in ViewerRecord
    <3>1. \E w \in Nat, p \in Position : TRUE
      BY <1>1
    <3>. QED
      BY <1>1, <1>2, <3>1, ViewerUpdates
  <2>3. /\ b.requested = V /\ b.url = ImageURL(V) /\ b.phase = "load"
        /\ b.host = r.host /\ b.destroyed = r.destroyed
    BY <1>1, <1>2 DEF ViewerRecord
  <2>. HIDE DEF b
  <2>4. ViewerOK(b)
    BY <1>2, <2>2, <2>3 DEF ViewerOK
  <2>. QED
    BY <2>1, <2>3, <2>4
<1>. QED
  BY <1>3, <1>4

\* A viewer that is opened requests its first view.
LEMMA OpenedOK ==
  ASSUME NEW g \in Gui, NEW s \in Settings, IsSet(s), NEW c \in Nat,
         EyeWidth(c, Stereo(g), FALSE) \in Nat
  PROVE  /\ ViewerOK(OpenedViewer(g, s, c))
         /\ OpenedViewer(g, s, c).phase = "load"
         /\ OpenedViewer(g, s, c).host = g.host
<1>. DEFINE w == EyeWidth(c, Stereo(g), FALSE)
            r == NewViewer(g, w)
            V == ViewOf(r, s)
            b == [r EXCEPT !.phase = "load", !.url = ImageURL(V), !.requested = CopyView(V)]
<1>2. Home \in Position
  BY DemoAssumption DEF Home
<1>. HIDE DEF w
<1>3. /\ r.pos \in Position /\ r.width \in Nat /\ r.requested = NoView
  BY <1>2 DEF NewViewer, w
<1>4. /\ V \in View /\ CopyView(V) = V /\ ImageURL(V) \in URL
      /\ IsSet(V.settings)
  BY <1>3, RequestOK
<1>5. OpenedViewer(g, s, c) = b
  BY <1>3 DEF OpenedViewer, Updated, w
<1>. HIDE DEF V
<1>6. g.host \in Host /\ w \in Nat
  BY DEF Gui, w
<1>. DEFINE u == ImageURL(V)
            q == CopyView(V)
            d == [r EXCEPT !.phase = "load", !.url = u, !.requested = q]
<1>. HIDE DEF u, q
<1>7. u \in URL /\ q \in View
  BY <1>4 DEF u, q
<1>8. /\ d \in ViewerRecord /\ d.requested = q /\ d.url = u
      /\ d.phase = "load" /\ d.host = g.host
  BY <1>2, <1>6, <1>7 DEF ViewerRecord, NewViewer
<1>9. d = b
  BY DEF u, q
<1>. HIDE DEF d, b
<1>10. b \in ViewerRecord /\ b.requested = V /\ b.url = ImageURL(V)
       /\ b.phase = "load" /\ b.host = g.host
  BY <1>4, <1>8, <1>9 DEF u, q
<1>. QED
  BY <1>4, <1>5, <1>10 DEF ViewerOK

\* One record changes.
LEMMA OneViewerChanges ==
  ASSUME ViewersInv, NEW v \in 1 .. Len(viewers), NEW s, ViewerOK(s),
         viewers' = [viewers EXCEPT ![v] = s], viewer' = viewer,
         v # viewer => s.destroyed
  PROVE  /\ ViewersInv'
         /\ Len(viewers') = Len(viewers) /\ viewers'[v] = s
         /\ \A w \in 1 .. Len(viewers) : w # v => viewers'[w] = viewers[w]
<1>1. viewers \in Seq(ViewerRecord) /\ s \in ViewerRecord
  BY DEF ViewersInv, ViewerOK
<1>2. /\ viewers' \in Seq(ViewerRecord) /\ Len(viewers') = Len(viewers) /\ viewers'[v] = s
      /\ \A w \in 1 .. Len(viewers) : w # v => viewers'[w] = viewers[w]
  BY <1>1
<1>3. ASSUME NEW w \in 1 .. Len(viewers')
      PROVE  ViewerOK(viewers'[w]) /\ (w # viewer' => viewers'[w].destroyed)
  <2>1. CASE w = v
    BY <1>2, <2>1
  <2>2. CASE w # v
    BY <1>2, <2>2 DEF ViewersInv
  <2>. QED
    BY <2>1, <2>2
<1>4. ViewersInv'
  BY <1>2, <1>3 DEF ViewersInv
<1>. QED
  BY <1>2, <1>4

-----------------------------------------------------------------------------
(* The controls.                                                           *)

\* A map's URL is never NoMap.
LEMMA MapURLIsNone ==
  ASSUME NEW g \in Gui, NEW s \in Settings
  PROVE  MapURL(g, s) # NoMap
<1>1. /\ g.host \in {PageHost, F1Host} /\ s.look \in Look
      /\ s.modes \in BOOLEAN \X BOOLEAN \X BOOLEAN \X BOOLEAN \X BOOLEAN
      /\ s.renderer \in Renderer /\ s.theme \in {"none", "xmas"}
  BY DEF Gui, Host, Settings
<1>2. MapQueryArgs(s) \in Look \X (BOOLEAN \X BOOLEAN \X BOOLEAN \X BOOLEAN \X BOOLEAN)
                               \X Renderer \X {"none", "xmas"}
  BY <1>1 DEF MapQueryArgs
<1>. QED
  BY <1>1, <1>2, NoMapAssumption DEF MapURL

\* settingsChanged, called with controls g, tag, the open viewer's changed record and
\* the eye's width.
LEMMA Changed ==
  ASSUME IInv, NEW g \in Gui, NEW tag \in CastTag \cup {NoTag}, NEW vw, NEW w \in Nat,
         SettingsChanged(g, tag, vw, w),
         tag # NoTag <=> g.cast = "on",
         viewer # 0 => /\ vw \in ViewerRecord /\ vw.host = g.host
                       /\ vw.requested = Open.requested /\ vw.url = Open.url
                       /\ vw.phase = Open.phase,
         UNCHANGED <<viewer, dom, spots, clock>>, SizesInv',
         server' \in [f1_state : {"stopped", "pending", "running"},
                      restore_host : {"none", PageHost}],
         server'.f1_state = "running" <=> server'.restore_host # "none",
         g.host = IF server'.f1_state = "running" THEN F1Host ELSE PageHost
  PROVE  IInv'
<1>. DEFINE s == GuiSettings(g, tag, vw, w)
            r == [vw EXCEPT !.width = w]
<1>1. /\ gui' = g /\ cast_tag' = tag /\ settings' = s
      /\ map' = IF map = NoMap THEN NoMap ELSE MapURL(g, settings')
      /\ viewers' = IF viewer = 0 THEN viewers ELSE [viewers EXCEPT ![viewer] = r]
  BY DEF SettingsChanged, NewView
<1>2. s \in Settings /\ IsSet(s) /\ Match(s, g, tag) /\ s.spot_depth = -1
  BY GuiSettingsMatch
<1>. HIDE DEF s
<1>3. SettingsInv'
  BY <1>1, <1>2 DEF IInv, SettingsInv
<1>4. HostInv'
  BY <1>1 DEF HostInv
<1>5. SpotInv'
  BY <1>1, <1>2 DEF IInv, SpotInv, SpotIsLed
<1>6. CASE viewer = 0
  <2>1. UNCHANGED <<viewers, viewer>>
    BY <1>1, <1>6
  <2>2. ViewersInv'
    BY <2>1 DEF IInv, ViewersInv
  <2>3. map # NoMap
    <3>1. map = MapURL(gui, settings)
      BY <1>6 DEF IInv, MapInv
    <3>. QED
      BY <3>1, MapURLIsNone DEF IInv, SettingsInv
  <2>4. MapInv'
    BY <1>1, <1>6, <2>1, <2>3 DEF MapInv
  <2>5. WaitingShowsRequested'
    BY <1>6, <2>1 DEF WaitingShowsRequested
  <2>. QED
    BY <1>3, <1>4, <1>5, <2>2, <2>4, <2>5 DEF IInv
<1>7. CASE viewer # 0
  <2>1. viewer \in 1 .. Len(viewers) /\ Open = viewers[viewer] /\ ViewerOK(Open)
    BY <1>7 DEF IInv, ViewersInv, Open
  <2>2. /\ r \in ViewerRecord /\ r.host = vw.host /\ r.requested = vw.requested
        /\ r.url = vw.url /\ r.phase = vw.phase
    BY <1>7, ViewerUpdates DEF ViewerRecord
  <2>. HIDE DEF r
  <2>3. /\ ViewerOK(r) /\ r.host = g.host /\ r.requested = Open.requested
        /\ r.phase = Open.phase
    BY <1>7, <2>1, <2>2 DEF ViewerOK
  <2>4. /\ ViewersInv' /\ viewers'[viewer] = r
    BY <1>1, <1>7, <2>1, <2>3, OneViewerChanges DEF IInv
  <2>5. Open' = r
    BY <1>7, <2>4 DEF Open
  <2>6. MapInv'
    BY <1>1, <1>7, <2>3, <2>5 DEF IInv, MapInv
  <2>7. WaitingShowsRequested'
    BY <1>7, <2>3, <2>5 DEF IInv, WaitingShowsRequested
  <2>. QED
    BY <1>3, <1>4, <1>5, <2>4, <2>6, <2>7 DEF IInv
<1>. QED
  BY <1>6, <1>7

\* What the controls' handlers find.
LEMMA OpenOK ==
  ASSUME IInv
  PROVE  /\ gui \in Gui /\ cast_tag \in CastTag \cup {NoTag} /\ eye_width \in Nat
         /\ container \in Nat
         /\ viewer # 0 => /\ Open \in ViewerRecord /\ Open.host = gui.host
                          /\ Open.vr \in BOOLEAN
         /\ cast_tag # NoTag <=> gui.cast = "on"
<1>1. viewer # 0 => Open \in ViewerRecord
  BY DEF IInv, ViewersInv, Open, ViewerOK
<1>. QED
  BY <1>1 DEF IInv, SettingsInv, SizesInv, MapInv, ViewerRecord

\* Inputs of the settings.
LEMMA InputStep == ASSUME IInv, ChangeInput PROVE IInv'
<1>1. PICK g \in {[gui EXCEPT !.look = l] : l \in Look}
                   \cup {[gui EXCEPT !.smooth = ~ gui.smooth]}
                   \cup {[gui EXCEPT !.renderer = r] : r \in Renderer} :
            SettingsChanged(g, cast_tag, Open, eye_width)
  BY DEF ChangeInput
<1>2. g \in Gui /\ g.host = gui.host /\ g.cast = gui.cast
  <2>1. gui \in Gui
    BY OpenOK
  <2>2. ASSUME NEW l \in Look, g = [gui EXCEPT !.look = l]
        PROVE  g \in Gui /\ g.host = gui.host /\ g.cast = gui.cast
    BY <2>1, <2>2 DEF Gui
  <2>3. ASSUME g = [gui EXCEPT !.smooth = ~ gui.smooth]
        PROVE  g \in Gui /\ g.host = gui.host /\ g.cast = gui.cast
    BY <2>1, <2>3 DEF Gui
  <2>4. ASSUME NEW r \in Renderer, g = [gui EXCEPT !.renderer = r]
        PROVE  g \in Gui /\ g.host = gui.host /\ g.cast = gui.cast
    BY <2>1, <2>4 DEF Gui
  <2>. QED
    BY <1>1, <2>2, <2>3, <2>4
<1>3. UNCHANGED <<viewer, dom, container, eye_width, spots, server, clock>>
  BY DEF ChangeInput, UserActs
<1>4. SizesInv'
  BY <1>3 DEF IInv, SizesInv
<1>. QED
  BY <1>1, <1>2, <1>3, <1>4, OpenOK, Changed DEF IInv, HostInv

\* The theme.
LEMMA ThemeStep == ASSUME IInv, ChangeTheme PROVE IInv'
<1>. DEFINE theme == IF gui.theme = "none" THEN "xmas" ELSE "none"
            g == [gui EXCEPT !.theme = theme]
            vw == IF viewer = 0 THEN NoView ELSE [Open EXCEPT !.pos = Home]
<1>1. /\ SettingsChanged(g, cast_tag, vw, eye_width)
      /\ UNCHANGED <<viewer, dom, container, eye_width, spots, server, clock>>
  BY DEF ChangeTheme, UserActs
<1>2. g \in Gui /\ g.host = gui.host /\ g.cast = gui.cast
  BY OpenOK DEF Gui
<1>3. viewer # 0 => /\ vw \in ViewerRecord /\ vw.host = gui.host
                    /\ vw.requested = Open.requested /\ vw.url = Open.url
                    /\ vw.phase = Open.phase
  <2>1. Home \in Position
    BY DemoAssumption DEF Home
  <2>. QED
    BY <2>1, OpenOK DEF ViewerRecord
<1>. HIDE DEF g, vw
<1>4. SizesInv'
  BY <1>1 DEF IInv, SizesInv
<1>. QED
  BY <1>1, <1>2, <1>3, <1>4, OpenOK, Changed DEF IInv, HostInv

\* Casting.
LEMMA CastStep == ASSUME IInv, ToggleCast PROVE IInv'
<1>1. /\ UNCHANGED <<viewer, dom, container, eye_width, spots, server, clock>>
  BY DEF ToggleCast, UserActs
<1>2. SizesInv' /\ HostInv
  BY <1>1 DEF IInv, SizesInv
<1>3. gui \in Gui
  BY OpenOK
<1>4. ASSUME NEW tag \in CastTag, SettingsChanged([gui EXCEPT !.cast = "on"], tag, Open, eye_width)
      PROVE  IInv'
  <2>. DEFINE g == [gui EXCEPT !.cast = "on"]
  <2>1. g \in Gui /\ g.host = gui.host /\ g.cast = "on"
    BY <1>3 DEF Gui
  <2>2. tag # NoTag
    BY NoTagAssumption
  <2>. HIDE DEF g
  <2>3. SettingsChanged(g, tag, Open, eye_width)
    BY <1>4 DEF g
  <2>. QED
    BY <1>1, <1>2, <2>1, <2>2, <2>3, OpenOK, Changed DEF HostInv
<1>5. ASSUME SettingsChanged([gui EXCEPT !.cast = "off"], NoTag, Open, eye_width)
      PROVE  IInv'
  <2>. DEFINE g == [gui EXCEPT !.cast = "off"]
  <2>1. g \in Gui /\ g.host = gui.host /\ g.cast = "off"
    BY <1>3 DEF Gui
  <2>. HIDE DEF g
  <2>2. SettingsChanged(g, NoTag, Open, eye_width)
    BY <1>5 DEF g
  <2>. QED
    BY <1>1, <1>2, <2>1, <2>2, OpenOK, Changed DEF HostInv
<1>6. ASSUME SettingsChanged(gui, cast_tag, Open, eye_width)
      PROVE  IInv'
  BY <1>1, <1>2, <1>6, OpenOK, Changed DEF HostInv
<1>. QED
  BY <1>4, <1>5, <1>6 DEF ToggleCast

-----------------------------------------------------------------------------
(* The sizes.                                                              *)

\* resized leaves sizes that are natural numbers.
LEMMA ResizedOK ==
  ASSUME IInv, NEW g \in Gui, NEW vw, NEW c \in Nat, Resized(g, vw, c),
         vw # NoView => vw.vr \in BOOLEAN
  PROVE  /\ SizesInv' /\ eye_width' \in Nat
         /\ SettingsChanged(g, cast_tag, vw, eye_width')
<1>. DEFINE vr == IF vw = NoView THEN FALSE ELSE vw.vr
            wide == Widened(c, Stereo(g), vr)
            w == IF vw = NoView THEN eye_width ELSE EyeWidth(wide, Stereo(g), vr)
<1>1. /\ container' = IF vw = NoView THEN c ELSE wide
      /\ eye_width' = w /\ SettingsChanged(g, cast_tag, vw, w)
  BY DEF Resized
<1>2. vr \in BOOLEAN /\ Stereo(g) \in BOOLEAN
  BY DEF Stereo
<1>. HIDE DEF vr
<1>3. wide \in Nat /\ EyeWidth(wide, Stereo(g), vr) \in Nat
  BY <1>2, EyeWidthNat
<1>. HIDE DEF wide
<1>4. w \in Nat
  BY <1>3, OpenOK
<1>. HIDE DEF w
<1>5. container' \in Nat /\ eye_width' \in Nat
  BY <1>1, <1>3, <1>4
<1>. QED
  BY <1>1, <1>5 DEF SizesInv

\* The mode.
LEMMA ModeStep == ASSUME IInv, ChangeMode PROVE IInv'
<1>1. PICK m \in {"2d", "3d", "stereo"} : Resized([gui EXCEPT !.mode = m], Open, container)
  BY DEF ChangeMode
<1>. DEFINE g == [gui EXCEPT !.mode = m]
<1>2. g \in Gui /\ g.host = gui.host /\ g.cast = gui.cast
  BY OpenOK DEF Gui
<1>3. viewer # 0 /\ UNCHANGED <<viewer, dom, spots, server, clock>>
  BY DEF ChangeMode, UserActs
<1>4. Resized(g, Open, container)
  BY <1>1
<1>. HIDE DEF g
<1>5. /\ SizesInv' /\ eye_width' \in Nat
      /\ SettingsChanged(g, cast_tag, Open, eye_width')
  BY <1>2, <1>3, <1>4, OpenOK, ResizedOK
<1>. QED
  BY <1>2, <1>3, <1>5, OpenOK, Changed DEF IInv, HostInv

\* The button of the VR viewer.
LEMMA VRStep == ASSUME IInv, ToggleVR PROVE IInv'
<1>. DEFINE on == gui.vr = "off"
            vr == IF on THEN "on" ELSE "off"
            g == [gui EXCEPT !.mode = "stereo", !.vr = vr]
            c == IF on THEN 640
                 ELSE IF Stereo(gui) THEN container
                 ELSE Widened(container, TRUE, Open.vr)
<1>1. PICK p \in Position : Resized(g, [Open EXCEPT !.vr = on, !.pos = p], c)
  BY DEF ToggleVR
<1>. DEFINE vw == [Open EXCEPT !.vr = on, !.pos = p]
<1>2. viewer # 0 /\ UNCHANGED <<viewer, dom, spots, server, clock>>
  BY DEF ToggleVR, UserActs
<1>3. c \in Nat
  <2>. DEFINE wide == Widened(container, TRUE, Open.vr)
  <2>1. container \in Nat /\ Open.vr \in BOOLEAN
    BY <1>2, OpenOK
  <2>2. wide \in Nat
    BY <2>1, EyeWidthNat
  <2>3. c = 640 \/ c = container \/ c = wide
    BY Zenon
  <2>. HIDE DEF c, wide
  <2>. QED
    BY <2>1, <2>2, <2>3
<1>4. g \in Gui /\ g.host = gui.host /\ g.cast = gui.cast
  <2>1. vr \in {"on", "off"} /\ gui \in Gui
    BY OpenOK
  <2>. HIDE DEF vr
  <2>. QED
    BY <2>1 DEF Gui
<1>5. /\ vw \in ViewerRecord /\ vw.host = gui.host /\ vw.vr \in BOOLEAN
      /\ vw.requested = Open.requested /\ vw.url = Open.url
      /\ vw.phase = Open.phase
  <2>1. on \in BOOLEAN /\ Open \in ViewerRecord /\ Open.host = gui.host
    BY <1>2, OpenOK
  <2>. HIDE DEF on
  <2>. QED
    BY <2>1 DEF ViewerRecord
<1>6. Resized(g, vw, c)
  BY <1>1
<1>. HIDE DEF g, vw, c
<1>7. /\ SizesInv' /\ eye_width' \in Nat
      /\ SettingsChanged(g, cast_tag, vw, eye_width')
  BY <1>3, <1>4, <1>5, <1>6, ResizedOK
<1>. QED
  BY <1>2, <1>4, <1>5, <1>7, OpenOK, Changed DEF IInv, HostInv

\* The observer of the container's size.
LEMMA ResizeStep == ASSUME IInv, ResizeObserved PROVE IInv'
<1>1. /\ Resized(gui, Open, container)
      /\ UNCHANGED <<viewer, dom, spots, server, clock>>
  BY DEF ResizeObserved
<1>2. Open # NoView => Open.vr \in BOOLEAN
  <2>1. CASE viewer = 0
    BY <2>1 DEF Open
  <2>2. CASE viewer # 0
    BY <2>2, OpenOK
  <2>. QED
    BY <2>1, <2>2
<1>3. /\ SizesInv' /\ eye_width' \in Nat
      /\ SettingsChanged(gui, cast_tag, Open, eye_width')
  BY <1>1, <1>2, OpenOK, ResizedOK
<1>. QED
  BY <1>1, <1>3, OpenOK, Changed DEF IInv, HostInv

\* The F1 instance's state, and with it the host.
LEMMA F1Step == ASSUME IInv, F1State PROVE IInv'
<1>1. PICK val \in CASE server.f1_state = "stopped" -> {"pending"}
                     [] server.f1_state = "pending" -> {"running", "stopped"}
                     [] server.f1_state = "running" -> {"stopped"} :
        F1StateCB(val)
  BY DEF F1State
<1>2. /\ val \in {"stopped", "pending", "running"}
      /\ val = "running" => server.f1_state = "pending"
  BY <1>1 DEF IInv, HostInv
<1>. DEFINE running == val = "running"
            host == IF running THEN F1Host
                    ELSE IF server.restore_host # "none" THEN server.restore_host
                    ELSE gui.host
            vw == IF viewer = 0 THEN NoView ELSE [Open EXCEPT !.host = host]
            g == [gui EXCEPT !.host = host]
<1>3. /\ server' = [f1_state |-> val,
                    restore_host |-> IF running THEN gui.host ELSE "none"]
      /\ SettingsChanged(g, cast_tag, vw, eye_width)
      /\ UNCHANGED <<viewer, dom, container, eye_width, spots, clock>>
  BY <1>1 DEF F1State, F1StateCB, UserActs
<1>4. host = IF val = "running" THEN F1Host ELSE PageHost
  BY <1>2 DEF IInv, HostInv
<1>5. running => gui.host = PageHost
  BY <1>2 DEF IInv, HostInv
<1>6. /\ server' \in [f1_state : {"stopped", "pending", "running"},
                      restore_host : {"none", PageHost}]
      /\ server'.f1_state = val
      /\ server'.f1_state = "running" <=> server'.restore_host # "none"
  BY <1>2, <1>3, <1>5 DEF PageHost
<1>7. host \in Host
  BY <1>4 DEF Host
<1>. HIDE DEF host
<1>8. g \in Gui /\ g.host = host /\ g.cast = gui.cast
  BY <1>7, OpenOK DEF Gui
<1>9. viewer # 0 => /\ vw \in ViewerRecord /\ vw.host = host
                    /\ vw.requested = Open.requested /\ vw.url = Open.url
                    /\ vw.phase = Open.phase
  BY <1>7, OpenOK DEF ViewerRecord
<1>. HIDE DEF g, vw
<1>10. SizesInv'
  BY <1>3 DEF IInv, SizesInv
<1>. QED
  BY <1>3, <1>4, <1>6, <1>8, <1>9, <1>10, OpenOK, Changed

-----------------------------------------------------------------------------
(* Tiles.                                                                  *)

\* Destroying a viewer leaves the others, and all are then destroyed.
LEMMA DestroyedOK ==
  ASSUME IInv
  PROVE  /\ Destroyed \in Seq(ViewerRecord) /\ Len(Destroyed) = Len(viewers)
         /\ \A v \in 1 .. Len(viewers) :
              /\ ViewerOK(Destroyed[v]) /\ Destroyed[v].destroyed
              /\ Destroyed[v].phase = viewers[v].phase
<1>1. /\ viewers \in Seq(ViewerRecord) /\ viewer \in 0 .. Len(viewers)
      /\ \A v \in 1 .. Len(viewers) :
           ViewerOK(viewers[v]) /\ (v # viewer => viewers[v].destroyed)
  BY DEF IInv, ViewersInv
<1>2. CASE viewer = 0
  BY <1>1, <1>2 DEF Destroyed
<1>3. CASE viewer # 0
  <2>. DEFINE r == [viewers[viewer] EXCEPT !.destroyed = TRUE]
  <2>1. viewer \in 1 .. Len(viewers) /\ viewers[viewer] \in ViewerRecord
    BY <1>1, <1>3
  <2>2. /\ r \in ViewerRecord /\ r.destroyed = TRUE
        /\ r.requested = viewers[viewer].requested /\ r.url = viewers[viewer].url
        /\ r.phase = viewers[viewer].phase
    BY <2>1, PhaseUpdates DEF ViewerRecord
  <2>3. Destroyed = [viewers EXCEPT ![viewer] = r]
    BY <1>3 DEF Destroyed
  <2>. HIDE DEF r
  <2>4. ViewerOK(r)
    BY <1>1, <2>1, <2>2 DEF ViewerOK
  <2>5. Destroyed \in Seq(ViewerRecord) /\ Len(Destroyed) = Len(viewers)
    BY <1>1, <2>1, <2>2, <2>3
  <2>6. ASSUME NEW v \in 1 .. Len(viewers)
        PROVE  /\ ViewerOK(Destroyed[v]) /\ Destroyed[v].destroyed
               /\ Destroyed[v].phase = viewers[v].phase
    <3>1. CASE v = viewer
      <4>1. Destroyed[v] = r
        BY <1>1, <2>1, <2>3, <3>1
      <4>. QED
        BY <2>2, <2>4, <3>1, <4>1
    <3>2. CASE v # viewer
      <4>1. Destroyed[v] = viewers[v]
        BY <1>1, <2>1, <2>3, <3>2
      <4>. QED
        BY <1>1, <3>2, <4>1
    <3>. QED
      BY <3>1, <3>2
  <2>. QED
    BY <2>5, <2>6
<1>. QED
  BY <1>2, <1>3

\* A sequence of viewers that gets one more.
LEMMA AppendedOK ==
  ASSUME NEW ws \in Seq(ViewerRecord), NEW r,
         ViewerOK(r), \A v \in 1 .. Len(ws) : ViewerOK(ws[v])
  PROVE  /\ Append(ws, r) \in Seq(ViewerRecord) /\ Len(Append(ws, r)) = Len(ws) + 1
         /\ Append(ws, r)[Len(ws) + 1] = r
         /\ \A v \in 1 .. Len(ws) : Append(ws, r)[v] = ws[v]
         /\ \A v \in 1 .. Len(Append(ws, r)) : ViewerOK(Append(ws, r)[v])
<1>1. r \in ViewerRecord
  BY DEF ViewerOK
<1>2. /\ Append(ws, r) \in Seq(ViewerRecord) /\ Len(Append(ws, r)) = Len(ws) + 1
      /\ Append(ws, r)[Len(ws) + 1] = r
      /\ \A v \in 1 .. Len(ws) : Append(ws, r)[v] = ws[v]
  BY <1>1
<1>3. ASSUME NEW v \in 1 .. Len(Append(ws, r)) PROVE ViewerOK(Append(ws, r)[v])
  <2>1. v \in 1 .. Len(ws) \/ v = Len(ws) + 1
    BY <1>2
  <2>. QED
    BY <1>2, <2>1
<1>. QED
  BY <1>2, <1>3

\* The switch between tiles and a full image.
LEMMA TiledStep == ASSUME IInv, ToggleTiled PROVE IInv'
<1>. DEFINE g == [gui EXCEPT !.tiled = ~ gui.tiled]
            s == GuiSettings(g, cast_tag, NoView, eye_width)
            n == Len(viewers) + 1
            u == Timed(s, n)
<1>1. /\ gui' = g
      /\ dom' = [left |-> NoImage, right |-> NoImage]
      /\ IF g.tiled
           THEN /\ settings' = s
                /\ map' = MapURL(g, s)
                /\ viewers' = Destroyed
                /\ viewer' = 0
                /\ UNCHANGED <<container, eye_width>>
           ELSE /\ map' = NoMap
                /\ container' = Widened(container, Stereo(g), FALSE)
                /\ eye_width' = EyeWidth(container', Stereo(g), FALSE)
                /\ settings' = u
                /\ viewers' = Append(Destroyed, OpenedViewer(g, u, container'))
                /\ viewer' = Len(viewers')
      /\ UNCHANGED <<cast_tag, spots, server, clock>>
      /\ Len(viewers) < MaxViewers
  BY DEF ToggleTiled, OpenedMap, UserActs
<1>2. /\ g \in Gui /\ g.host = gui.host /\ g.cast = gui.cast
      /\ cast_tag \in CastTag \cup {NoTag} /\ eye_width \in Nat /\ container \in Nat
      /\ g.tiled \in BOOLEAN
  BY OpenOK DEF Gui
<1>. HIDE DEF g
<1>3. /\ s \in Settings /\ IsSet(s) /\ Match(s, g, cast_tag) /\ s.spot_depth = -1
  BY <1>2, GuiSettingsMatch
<1>. HIDE DEF s
<1>4. HostInv'
  BY <1>1, <1>2 DEF IInv, HostInv
<1>7. Len(viewers) \in Nat /\ Len(viewers) <= MaxViewers
  BY DEF IInv, ViewersInv
<1>8. n \in 1 .. MaxViewers
  BY <1>1, <1>7, DemoAssumption
<1>. HIDE DEF n
<1>9. /\ u \in Settings /\ IsSet(u) /\ Match(u, g, cast_tag) /\ u.spot_depth = -1
  BY <1>3, <1>8, TimedKeeps DEF IInv
<1>. HIDE DEF u
<1>5. CASE g.tiled
  <2>1. SettingsInv'
    BY <1>1, <1>2, <1>3, <1>5 DEF IInv, SettingsInv
  <2>2. SizesInv' /\ SpotInv'
    BY <1>1, <1>3, <1>5 DEF IInv, SizesInv, SpotInv, SpotIsLed
  <2>3. viewers' \in Seq(ViewerRecord) /\ Len(viewers') = Len(viewers) /\ viewer' = 0
    BY <1>1, <1>5, DestroyedOK
  <2>4. \A v \in 1 .. Len(viewers') : ViewerOK(viewers'[v]) /\ viewers'[v].destroyed
    BY <1>1, <1>5, <2>3, DestroyedOK
  <2>5. ViewersInv'
    BY <1>7, <2>3, <2>4 DEF ViewersInv
  <2>6. MapInv' /\ WaitingShowsRequested'
    BY <1>1, <1>5, <2>3 DEF MapInv, WaitingShowsRequested
  <2>. QED
    BY <1>4, <2>1, <2>2, <2>5, <2>6 DEF IInv
<1>6. CASE ~ g.tiled
  <2>1. /\ settings' \in Settings /\ IsSet(settings') /\ Match(settings', g, cast_tag)
        /\ settings'.spot_depth = -1
    BY <1>1, <1>6, <1>9
  <2>2. SettingsInv'
    BY <1>1, <1>2, <2>1 DEF IInv, SettingsInv
  <2>3. Stereo(g) \in BOOLEAN
    BY DEF Stereo
  <2>4. SizesInv' /\ EyeWidth(container', Stereo(g), FALSE) \in Nat /\ container' \in Nat
    BY <1>1, <1>2, <1>6, <2>3, EyeWidthNat DEF SizesInv
  <2>5. SpotInv'
    BY <1>1, <2>1 DEF IInv, SpotInv, SpotIsLed
  <2>. DEFINE r == OpenedViewer(g, u, container')
  <2>6. ViewerOK(r) /\ r.phase = "load" /\ r.host = g.host
    BY <1>2, <1>9, <2>4, OpenedOK
  <2>. HIDE DEF r
  <2>7. viewers' = Append(Destroyed, r) /\ viewer' = Len(viewers')
    BY <1>1, <1>6 DEF r
  <2>8. /\ Destroyed \in Seq(ViewerRecord)
        /\ \A v \in 1 .. Len(Destroyed) : ViewerOK(Destroyed[v]) /\ Destroyed[v].destroyed
    BY DestroyedOK
  <2>9. /\ viewers' \in Seq(ViewerRecord) /\ viewer' = Len(Destroyed) + 1
        /\ Len(viewers') = Len(Destroyed) + 1
        /\ viewers'[Len(Destroyed) + 1] = r
        /\ \A v \in 1 .. Len(Destroyed) : viewers'[v] = Destroyed[v]
        /\ \A v \in 1 .. Len(viewers') : ViewerOK(viewers'[v])
    BY <2>6, <2>7, <2>8, AppendedOK
  <2>10. Len(Destroyed) \in Nat /\ Len(Destroyed) + 1 <= MaxViewers
    <3>1. Len(Destroyed) = Len(viewers) /\ MaxViewers \in Nat
      BY DestroyedOK, DemoAssumption
    <3>. QED
      BY <1>1, <1>7, <3>1
  <2>11. \A v \in 1 .. Len(viewers') : v # viewer' => viewers'[v].destroyed
    BY <2>8, <2>9, <2>10
  <2>12. ViewersInv'
    BY <2>9, <2>10, <2>11 DEF ViewersInv
  <2>13. Open' = r /\ viewer' # 0
    BY <2>9, <2>10 DEF Open
  <2>14. MapInv' /\ WaitingShowsRequested'
    BY <1>1, <1>6, <2>6, <2>13 DEF MapInv, WaitingShowsRequested
  <2>. QED
    BY <1>4, <2>2, <2>4, <2>5, <2>12, <2>14 DEF IInv
<1>. QED
  BY <1>2, <1>5, <1>6

-----------------------------------------------------------------------------
(* The viewers' own steps.                                                 *)

\* Each viewer has its time.
LEMMA ViewerBound ==
  ASSUME IInv, NEW v \in 1 .. Len(viewers)
  PROVE  v \in 1 .. MaxViewers
BY DemoAssumption DEF IInv, ViewersInv

\* One viewer changes, and at most the time in the settings.
LEMMA ViewerStep ==
  ASSUME IInv, NEW v \in 1 .. Len(viewers), NEW r, ViewerOK(r),
         r.host = viewers[v].host, r.destroyed = viewers[v].destroyed,
         viewers' = [viewers EXCEPT ![v] = r],
         settings' \in {settings, Timed(settings, v)},
         UNCHANGED <<gui, cast_tag, viewer, map, container, eye_width, spots, server, clock>>,
         v = viewer /\ r.phase = "wait" =>
           /\ dom'.left = ImageURL(r.requested)
           /\ r.requested.settings.stereo => dom'.right = dom'.left,
         v # viewer => dom' = dom
  PROVE  IInv'
<1>1. /\ settings \in Settings /\ IsSet(settings) /\ Match(settings, gui, cast_tag)
  BY DEF IInv, SettingsInv
<1>2. /\ settings' \in Settings /\ IsSet(settings') /\ Match(settings', gui, cast_tag)
      /\ settings'.spot_depth = settings.spot_depth
      /\ MapQueryArgs(settings') = MapQueryArgs(settings)
  <2>1. v \in 1 .. MaxViewers
    BY ViewerBound
  <2>. QED
    BY <1>1, <2>1, TimedKeeps DEF IInv
<1>3. SettingsInv' /\ HostInv' /\ SizesInv'
  BY <1>2 DEF IInv, SettingsInv, HostInv, SizesInv
<1>4. SpotInv'
  BY <1>2 DEF IInv, SpotInv, SpotIsLed
<1>5. v # viewer => r.destroyed
  BY DEF IInv, ViewersInv
<1>6. /\ ViewersInv' /\ viewers'[v] = r
      /\ \A w \in 1 .. Len(viewers) : w # v => viewers'[w] = viewers[w]
  BY <1>5, OneViewerChanges DEF IInv
<1>7. viewer # 0 => viewer \in 1 .. Len(viewers) /\ Open = viewers[viewer]
  BY DEF IInv, ViewersInv, Open
<1>8. viewer # 0 => Open' = IF v = viewer THEN r ELSE Open
  BY <1>6, <1>7 DEF Open
<1>9. MapInv'
  <2>1. CASE viewer = 0
    BY <1>2, <2>1 DEF IInv, MapInv, MapURL
  <2>2. CASE viewer # 0
    <3>1. Open'.host = Open.host
      BY <1>7, <1>8, <2>2
    <3>. QED
      BY <2>2, <3>1 DEF IInv, MapInv
  <2>. QED
    BY <2>1, <2>2
<1>10. WaitingShowsRequested'
  <2>1. CASE v = viewer
    BY <1>8, <2>1 DEF WaitingShowsRequested
  <2>2. CASE v # viewer
    BY <1>8, <2>2 DEF IInv, WaitingShowsRequested
  <2>. QED
    BY <2>1, <2>2
<1>. QED
  BY <1>3, <1>4, <1>6, <1>9, <1>10 DEF IInv

\* An image loads.
LEMMA LoadStep == ASSUME IInv, NEW v \in 1 .. Len(viewers), Load(v) PROVE IInv'
<1>. DEFINE vw == viewers[v]
            s == Timed(settings, v)
<1>1. /\ vw.phase = "load"
      /\ IF vw.destroyed
           THEN /\ viewers' = [viewers EXCEPT ![v].phase = "ended"]
                /\ UNCHANGED <<settings, dom>>
           ELSE /\ dom' = [left |-> vw.url,
                           right |-> IF settings.stereo THEN vw.url ELSE dom.right]
                /\ settings' = s
                /\ viewers' = [viewers EXCEPT ![v] = Updated(vw, s)]
      /\ UNCHANGED <<gui, cast_tag, viewer, map, container, eye_width, spots, server, clock>>
  BY DEF Load
<1>2. ViewerOK(vw) /\ vw \in ViewerRecord /\ (v # viewer => vw.destroyed)
  BY DEF IInv, ViewersInv, ViewerOK
<1>3. CASE vw.destroyed
  <2>. DEFINE r == [vw EXCEPT !.phase = "ended"]
  <2>1. /\ r \in ViewerRecord /\ r.host = vw.host /\ r.destroyed = vw.destroyed
        /\ r.requested = vw.requested /\ r.url = vw.url /\ r.phase = "ended"
    BY <1>2, PhaseUpdates DEF ViewerRecord
  <2>2. viewers' = [viewers EXCEPT ![v] = r]
    BY <1>1, <1>3
  <2>. HIDE DEF r
  <2>3. ViewerOK(r)
    BY <1>2, <2>1 DEF ViewerOK
  <2>. QED
    BY <1>1, <1>3, <2>1, <2>2, <2>3, ViewerStep
<1>4. CASE ~ vw.destroyed
  <2>1. v = viewer
    BY <1>2, <1>4
  <2>2. /\ settings \in Settings /\ IsSet(settings) /\ Match(settings, gui, cast_tag)
    BY DEF IInv, SettingsInv
  <2>3. /\ s \in Settings /\ IsSet(s) /\ s.stereo = settings.stereo
    BY <2>2, ViewerBound, TimedKeeps DEF IInv, Match
  <2>4. /\ dom' = [left |-> vw.url,
                   right |-> IF settings.stereo THEN vw.url ELSE dom.right]
        /\ settings' = s
        /\ viewers' = [viewers EXCEPT ![v] = Updated(vw, s)]
    BY <1>1, <1>4
  <2>. HIDE DEF s
  <2>5. /\ ViewerOK(Updated(vw, s))
        /\ Updated(vw, s).phase = "wait" =>
             /\ Updated(vw, s).requested = vw.requested
             /\ vw.requested.settings.stereo = s.stereo
        /\ Updated(vw, s).host = vw.host /\ Updated(vw, s).destroyed = vw.destroyed
    BY <1>2, <2>3, UpdatedOK
  <2>6. vw.url = ImageURL(vw.requested)
    BY <1>2 DEF ViewerOK
  <2>7. Updated(vw, s).phase = "wait" =>
          /\ dom'.left = ImageURL(Updated(vw, s).requested)
          /\ Updated(vw, s).requested.settings.stereo => dom'.right = dom'.left
    BY <2>3, <2>4, <2>5, <2>6
  <2>8. settings' \in {settings, Timed(settings, v)}
    BY <2>4 DEF s
  <2>. QED
    BY <1>1, <2>1, <2>4, <2>5, <2>7, <2>8, ViewerStep
<1>. QED
  BY <1>3, <1>4

\* A request fails.
LEMMA FailStep == ASSUME IInv, NEW v \in 1 .. Len(viewers), Fail(v) PROVE IInv'
<1>. DEFINE vw == viewers[v]
            r == [vw EXCEPT !.phase = "failed"]
<1>1. /\ viewers' = [viewers EXCEPT ![v] = r]
      /\ UNCHANGED <<gui, cast_tag, settings, viewer, map, dom, container,
                     eye_width, spots, server, clock>>
  BY DEF Fail
<1>2. ViewerOK(vw) /\ vw \in ViewerRecord
  BY DEF IInv, ViewersInv, ViewerOK
<1>3. /\ r \in ViewerRecord /\ r.host = vw.host /\ r.destroyed = vw.destroyed
      /\ r.requested = vw.requested /\ r.url = vw.url /\ r.phase = "failed"
  BY <1>2, PhaseUpdates DEF ViewerRecord
<1>. HIDE DEF r
<1>4. ViewerOK(r)
  BY <1>2, <1>3 DEF ViewerOK
<1>. QED
  BY <1>1, <1>3, <1>4, ViewerStep

\* The timeout of a viewer that waits.
LEMMA PollStep == ASSUME IInv, NEW v \in 1 .. Len(viewers), Poll(v) PROVE IInv'
<1>. DEFINE vw == viewers[v]
            s == Timed(settings, v)
<1>1. /\ vw.phase = "wait" /\ settings' = s
      /\ viewers' = [viewers EXCEPT ![v] = Updated(vw, s)]
      /\ UNCHANGED <<gui, cast_tag, viewer, map, dom, container, eye_width, spots, server, clock>>
  BY DEF Poll
<1>2. ViewerOK(vw)
  BY DEF IInv, ViewersInv
<1>3. /\ settings \in Settings /\ IsSet(settings) /\ Match(settings, gui, cast_tag)
  BY DEF IInv, SettingsInv
<1>4. /\ s \in Settings /\ IsSet(s)
  BY <1>3, ViewerBound, TimedKeeps DEF IInv
<1>5. settings' \in {settings, Timed(settings, v)}
  BY <1>1
<1>. HIDE DEF s
<1>6. /\ ViewerOK(Updated(vw, s))
      /\ Updated(vw, s).phase = "wait" => Updated(vw, s).requested = vw.requested
      /\ Updated(vw, s).host = vw.host /\ Updated(vw, s).destroyed = vw.destroyed
  BY <1>2, <1>4, UpdatedOK
<1>7. v = viewer => Open = vw /\ viewer # 0
  BY DEF Open
<1>8. v = viewer /\ Updated(vw, s).phase = "wait" =>
        /\ dom'.left = ImageURL(Updated(vw, s).requested)
        /\ Updated(vw, s).requested.settings.stereo => dom'.right = dom'.left
  BY <1>1, <1>6, <1>7 DEF IInv, WaitingShowsRequested
<1>. QED
  BY <1>1, <1>5, <1>6, <1>8, ViewerStep

\* The view is moved.
LEMMA MoveStep == ASSUME IInv, NEW p \in Position, MoveTo(p) PROVE IInv'
<1>. DEFINE r == [Open EXCEPT !.pos = p]
<1>1. /\ viewer \in 1 .. Len(viewers) /\ Open = viewers[viewer]
      /\ ViewerOK(Open) /\ Open \in ViewerRecord
  BY DEF IInv, ViewersInv, MoveTo, Open, ViewerOK
<1>2. viewers' = [viewers EXCEPT ![viewer] = r]
  BY <1>1 DEF MoveTo
<1>3. UNCHANGED <<gui, cast_tag, settings, viewer, map, dom, container, eye_width,
                  spots, server, clock>>
  BY DEF MoveTo, UserActs
<1>4. /\ r \in ViewerRecord /\ r.host = Open.host /\ r.destroyed = Open.destroyed
      /\ r.requested = Open.requested /\ r.url = Open.url /\ r.phase = Open.phase
  BY <1>1, ViewerUpdates DEF ViewerRecord
<1>. HIDE DEF r
<1>5. ViewerOK(r)
  BY <1>1, <1>4 DEF ViewerOK
<1>6. r.phase = "wait" => /\ dom'.left = ImageURL(r.requested)
                          /\ r.requested.settings.stereo => dom'.right = dom'.left
  BY <1>1, <1>3, <1>4 DEF IInv, WaitingShowsRequested
<1>. QED
  BY <1>1, <1>2, <1>3, <1>4, <1>5, <1>6, ViewerStep

-----------------------------------------------------------------------------
(* The remaining steps.                                                    *)

\* Steps that leave alone all but the sizes or the time.
LEMMA QuietStep ==
  ASSUME IInv, SizesInv', clock' \in [1 .. MaxViewers -> Nat],
         UNCHANGED <<gui, cast_tag, settings, viewers, viewer, map, dom, spots, server>>
  PROVE  IInv'
<1>1. SettingsInv' /\ HostInv'
  BY DEF IInv, SettingsInv, HostInv
<1>2. ViewersInv' /\ SpotInv'
  BY DEF IInv, ViewersInv, SpotInv, SpotIsLed
<1>3. Open' = Open
  BY DEF Open
<1>4. MapInv' /\ WaitingShowsRequested'
  BY <1>3 DEF IInv, MapInv, WaitingShowsRequested
<1>. QED
  BY <1>1, <1>2, <1>4 DEF IInv

\* The buttons of the resolution.
LEMMA DimensionsStep == ASSUME IInv, SetDimensions PROVE IInv'
<1>1. PICK c \in Container :
        /\ container' = Widened(c, Stereo(gui), Open.vr)
        /\ eye_width' = EyeWidth(container', Stereo(gui), Open.vr)
  BY DEF SetDimensions
<1>2. c \in Nat /\ Stereo(gui) \in BOOLEAN /\ Open.vr \in BOOLEAN
  BY OpenOK, DemoAssumption DEF SetDimensions, Stereo
<1>3. SizesInv'
  BY <1>1, <1>2, EyeWidthNat DEF SizesInv
<1>4. UNCHANGED <<gui, cast_tag, settings, viewers, viewer, map, dom, spots, server, clock>>
  BY DEF SetDimensions, UserActs
<1>. QED
  BY <1>3, <1>4, QuietStep DEF IInv, SettingsInv

\* The second of the time based settings.
LEMMA TickStep == ASSUME IInv, NEW v \in 1 .. Len(viewers), Tick(v) PROVE IInv'
<1>1. clock' \in [1 .. MaxViewers -> Nat]
  BY ViewerBound, DemoAssumption DEF Tick, IInv, SettingsInv
<1>2. UNCHANGED <<gui, cast_tag, settings, viewers, viewer, map, dom, container, eye_width,
                  spots, server>>
  BY DEF Tick
<1>3. SizesInv'
  BY <1>2 DEF IInv, SizesInv
<1>. QED
  BY <1>1, <1>2, <1>3, QuietStep

\* The depth of the spot is changed, and a chain of timeouts has it.
LEMMA DepthStep ==
  ASSUME IInv, NEW d \in Int,
         settings' = [settings EXCEPT !.spot_depth = d],
         spots' \in Seq(-1 .. SpotLimit - 1),
         d # -1 => \E k \in 1 .. Len(spots') : spots'[k] = d,
         UNCHANGED <<gui, cast_tag, viewers, viewer, map, dom, container, eye_width,
                     server, clock>>
  PROVE  IInv'
<1>1. settings \in Settings /\ IsSet(settings) /\ Match(settings, gui, cast_tag)
  BY DEF IInv, SettingsInv
<1>2. settings' \in Settings /\ IsSet(settings')
  BY <1>1, SpotKeepsSet
<1>3. /\ settings'.look = settings.look /\ settings'.theme = settings.theme
      /\ settings'.three_d = settings.three_d /\ settings'.stereo = settings.stereo
      /\ settings'.modes = settings.modes /\ settings'.cast_tag = settings.cast_tag
      /\ settings'.renderer = settings.renderer /\ settings'.spot_depth = d
  BY <1>1 DEF Settings
<1>4. SettingsInv'
  <2>1. Match(settings', gui, cast_tag)
    BY <1>1, <1>3 DEF Match
  <2>. QED
    BY <1>2, <2>1 DEF IInv, SettingsInv
<1>5. HostInv' /\ SizesInv' /\ ViewersInv'
  BY DEF IInv, HostInv, SizesInv, ViewersInv
<1>6. SpotInv'
  BY <1>3 DEF SpotInv, SpotIsLed
<1>7. Open' = Open /\ MapURL(gui, settings') = MapURL(gui, settings)
  BY <1>3 DEF Open, MapURL, MapQueryArgs
<1>8. MapInv' /\ WaitingShowsRequested'
  BY <1>7 DEF IInv, MapInv, WaitingShowsRequested
<1>. QED
  BY <1>4, <1>5, <1>6, <1>8 DEF IInv

\* The spot is sent.
LEMMA SendSpotStep == ASSUME IInv, SendSpot PROVE IInv'
<1>. DEFINE d == 0
<1>1. spots \in Seq(-1 .. SpotLimit - 1) /\ 0 \in -1 .. SpotLimit - 1
  BY DemoAssumption DEF IInv, SpotInv
<1>2. /\ spots' \in Seq(-1 .. SpotLimit - 1)
      /\ Len(spots') = Len(spots) + 1 /\ spots'[Len(spots) + 1] = 0 /\ Len(spots) \in Nat
  BY <1>1 DEF SendSpot
<1>3. \E k \in 1 .. Len(spots') : spots'[k] = d
  BY <1>2
<1>4. /\ settings' = [settings EXCEPT !.spot_depth = d] /\ d \in Int
      /\ UNCHANGED <<gui, cast_tag, viewers, viewer, map, dom, container, eye_width,
                     server, clock>>
  BY DEF SendSpot, UserActs
<1>. HIDE DEF d
<1>. QED
  BY <1>2, <1>3, <1>4, DepthStep

\* A timeout of a spot.
LEMMA SpotTimeout == ASSUME IInv, NEW k \in 1 .. Len(spots), SpotStep(k) PROVE IInv'
<1>. DEFINE d == IF spots[k] + 1 < SpotLimit THEN spots[k] + 1 ELSE -1
<1>1. /\ spots[k] # -1
      /\ settings' = IF settings.spot_depth = spots[k]
                     THEN [settings EXCEPT !.spot_depth = d] ELSE settings
      /\ spots' = [spots EXCEPT ![k] = IF settings.spot_depth = spots[k] THEN d ELSE -1]
      /\ UNCHANGED <<gui, cast_tag, viewers, viewer, map, dom, container, eye_width,
                     server, clock>>
  BY DEF SpotStep
<1>2. spots \in Seq(-1 .. SpotLimit - 1) /\ SpotLimit \in Nat \ {0}
  BY DemoAssumption DEF IInv, SpotInv
<1>3. d \in -1 .. SpotLimit - 1 /\ -1 \in -1 .. SpotLimit - 1
  <2>1. spots[k] \in -1 .. SpotLimit - 1
    BY <1>2
  <2>. QED
    BY <1>1, <1>2, <2>1
<1>. HIDE DEF d
<1>4. CASE settings.spot_depth = spots[k]
  <2>1. spots' = [spots EXCEPT ![k] = d] /\ settings' = [settings EXCEPT !.spot_depth = d]
    BY <1>1, <1>4
  <2>2. /\ spots' \in Seq(-1 .. SpotLimit - 1) /\ Len(spots') = Len(spots) /\ spots'[k] = d
    BY <1>2, <1>3, <2>1
  <2>3. \E j \in 1 .. Len(spots') : spots'[j] = d
    BY <2>2
  <2>. QED
    BY <1>1, <1>3, <2>1, <2>2, <2>3, DepthStep
<1>5. CASE settings.spot_depth # spots[k]
  <2>1. spots' = [spots EXCEPT ![k] = -1] /\ settings' = settings
    BY <1>1, <1>5
  <2>2. /\ spots' \in Seq(-1 .. SpotLimit - 1) /\ Len(spots') = Len(spots)
        /\ \A j \in 1 .. Len(spots) : j # k => spots'[j] = spots[j]
    BY <1>2, <1>3, <2>1
  <2>3. SpotInv'
    <3>1. ASSUME settings.spot_depth # -1
          PROVE  \E j \in 1 .. Len(spots') : spots'[j] = settings.spot_depth
      <4>1. PICK j \in 1 .. Len(spots) : spots[j] = settings.spot_depth
        BY <3>1 DEF IInv, SpotInv, SpotIsLed
      <4>2. j # k
        BY <1>5, <4>1
      <4>. QED
        BY <2>2, <4>1, <4>2
    <3>. QED
      BY <2>1, <2>2, <3>1 DEF SpotInv, SpotIsLed
  <2>4. SettingsInv' /\ HostInv' /\ SizesInv' /\ ViewersInv'
    BY <1>1, <2>1 DEF IInv, SettingsInv, HostInv, SizesInv, ViewersInv
  <2>5. Open' = Open
    BY <1>1 DEF Open
  <2>6. MapInv' /\ WaitingShowsRequested'
    BY <1>1, <2>1, <2>5 DEF IInv, MapInv, WaitingShowsRequested
  <2>. QED
    BY <2>3, <2>4, <2>6 DEF IInv
<1>. QED
  BY <1>4, <1>5

-----------------------------------------------------------------------------
(* The invariant.                                                          *)

\* It holds when the page has been loaded.
LEMMA Starts == ASSUME Init PROVE IInv
<1>. DEFINE l == CHOOSE l \in Look : TRUE
            g == [tiled |-> FALSE, mode |-> "2d", renderer |-> "cpp", smooth |-> FALSE,
                  look |-> l, theme |-> "none", host |-> PageHost,
                  cast |-> "off", vr |-> "off"]
<1>1. PICK theme \in {"none", "xmas"}, c \in Container :
        /\ gui = [g EXCEPT !.theme = theme]
        /\ cast_tag = NoTag /\ clock = [v \in 1 .. MaxViewers |-> 0]
        /\ settings = Timed(GuiSettings(gui, NoTag, NoView, 0), 1)
        /\ viewers = <<OpenedViewer(gui, settings, c)>> /\ viewer = 1
        /\ map = NoMap /\ container = c /\ eye_width = EyeWidth(c, FALSE, FALSE)
        /\ spots = <<>>
        /\ server = [f1_state |-> "stopped", restore_host |-> "none"]
  BY DEF Init, HolidayTheme
<1>2. l \in Look
  BY DemoAssumption
<1>. HIDE DEF l
<1>3. gui \in Gui /\ gui.host = PageHost /\ gui.cast = "off" /\ ~ Stereo(gui)
  BY <1>1, <1>2 DEF Gui, Renderer, Host, Stereo
<1>. DEFINE s == GuiSettings(gui, NoTag, NoView, 0)
<1>4. s \in Settings /\ IsSet(s) /\ Match(s, gui, NoTag) /\ s.spot_depth = -1
  BY <1>3, GuiSettingsMatch
<1>. HIDE DEF s
<1>5. Timed(s, 1) = s \/ Timed(s, 1) = [s EXCEPT !.cycle = 0]
  <2>1. 1 \in 1 .. MaxViewers
    BY DemoAssumption
  <2>2. clock[1] = 0
    BY <1>1, <2>1
  <2>. QED
    BY <2>2 DEF Timed
<1>6. settings \in Settings /\ IsSet(settings)
  BY <1>1, <1>4, <1>5, CycleKeepsSet DEF s
<1>7. Match(settings, gui, NoTag) /\ settings.spot_depth = -1
  <2>1. settings = s \/ settings = [s EXCEPT !.cycle = 0]
    BY <1>1, <1>5 DEF s
  <2>2. /\ settings.look = s.look /\ settings.theme = s.theme
        /\ settings.three_d = s.three_d /\ settings.stereo = s.stereo
        /\ settings.modes = s.modes /\ settings.cast_tag = s.cast_tag
        /\ settings.spot_depth = s.spot_depth
    BY <1>4, <2>1 DEF Settings
  <2>. QED
    BY <1>4, <2>2 DEF Match
<1>8. SettingsInv
  BY <1>1, <1>3, <1>6, <1>7 DEF SettingsInv
<1>9. HostInv
  BY <1>1, <1>3 DEF HostInv
<1>10. c \in Nat /\ EyeWidth(c, Stereo(gui), FALSE) \in Nat
  <2>1. c \in Nat
    BY DemoAssumption
  <2>2. Stereo(gui) = FALSE
    BY <1>3 DEF Stereo
  <2>. QED
    BY <2>1, <2>2, EyeWidthNat
<1>11. SizesInv
  BY <1>1, <1>10, EyeWidthNat DEF SizesInv
<1>12. SpotInv
  BY <1>1, <1>7 DEF SpotInv, SpotIsLed
<1>. DEFINE r == OpenedViewer(gui, settings, c)
<1>13. ViewerOK(r) /\ r.phase = "load" /\ r.host = gui.host
  BY <1>3, <1>6, <1>10, OpenedOK
<1>. HIDE DEF r
<1>14. viewers = <<r>>
  BY <1>1 DEF r
<1>15. viewers \in Seq(ViewerRecord) /\ Len(viewers) = 1 /\ viewers[1] = r
  BY <1>13, <1>14 DEF ViewerOK
<1>16. ViewersInv
  <2>1. ASSUME NEW v \in 1 .. Len(viewers)
        PROVE  ViewerOK(viewers[v]) /\ (v # viewer => viewers[v].destroyed)
    BY <1>1, <1>13, <1>15
  <2>. QED
    <3>1. Len(viewers) <= MaxViewers /\ viewer \in 0 .. Len(viewers)
      BY <1>1, <1>15, DemoAssumption
    <3>. QED
      BY <1>15, <2>1, <3>1 DEF ViewersInv
<1>17. Open = r
  BY <1>1, <1>15 DEF Open
<1>18. MapInv /\ WaitingShowsRequested
  BY <1>1, <1>13, <1>17 DEF MapInv, WaitingShowsRequested
<1>. QED
  BY <1>8, <1>9, <1>11, <1>12, <1>16, <1>18 DEF IInv

\* Every step keeps it.
LEMMA Inductive == ASSUME IInv, [Next]_vars PROVE IInv'
<1>1. CASE User
  <2>1. CASE ChangeInput \/ ChangeTheme \/ ToggleCast
    BY <2>1, InputStep, ThemeStep, CastStep
  <2>2. CASE ChangeMode \/ ToggleVR \/ SetDimensions
    BY <2>2, ModeStep, VRStep, DimensionsStep
  <2>3. CASE F1State \/ ToggleTiled \/ SendSpot
    BY <2>3, F1Step, TiledStep, SendSpotStep
  <2>4. CASE Zoom \/ Pan \/ GoTo
    <3>1. PICK p \in Position : MoveTo(p)
      <4>1. Home \in Position /\ GoodPlace \in Position
        BY DemoAssumption DEF Home, GoodPlace
      <4>. QED
        BY <2>4, <4>1 DEF Zoom, Pan, GoTo
    <3>. QED
      BY <3>1, MoveStep
  <2>. QED
    BY <1>1, <2>1, <2>2, <2>3, <2>4 DEF User
<1>2. CASE \E v \in 1 .. Len(viewers) : Load(v) \/ Fail(v) \/ Poll(v) \/ Tick(v)
  BY <1>2, LoadStep, FailStep, PollStep, TickStep
<1>3. CASE \E k \in 1 .. Len(spots) : SpotStep(k)
  BY <1>3, SpotTimeout
<1>4. CASE ResizeObserved
  BY <1>4, ResizeStep
<1>5. CASE UNCHANGED vars
  <2>1. SizesInv' /\ clock' \in [1 .. MaxViewers -> Nat]
    BY <1>5 DEF vars, IInv, SizesInv, SettingsInv
  <2>. QED
    BY <1>5, <2>1, QuietStep DEF vars
<1>. QED
  BY <1>1, <1>2, <1>3, <1>4, <1>5 DEF Next

\* So it always holds.
LEMMA Invariant == Spec => []IInv
BY Starts, Inductive, PTL DEF Spec

-----------------------------------------------------------------------------
(* The theorems.                                                           *)

\* The settings, the viewers and the spots have their types, for any number of
\* viewers.
THEOREM DemoTypes == Spec => []DemoTypeOK
<1>1. ASSUME IInv PROVE DemoTypeOK
  <2>1. \A v \in 1 .. Len(viewers) : viewers[v] \in ViewerRecord
    BY <1>1 DEF IInv, ViewersInv, ViewerOK
  <2>2. \A v \in 1 .. Len(viewers) :
           /\ viewers[v].phase \in {"load", "wait", "failed", "ended"}
           /\ viewers[v].requested \in View
    BY <2>1 DEF ViewerRecord
  <2>. QED
    BY <1>1, <2>2 DEF DemoTypeOK, IInv, SettingsInv, ViewersInv, SpotInv
<1>. QED
  BY <1>1, Invariant, PTL

\* What is shown and requested follows the controls, however viewers, maps, casting
\* and F1 instances come and go (settingsChanged, openFullViewer, openMap, f1StateCB).
THEOREM PageInStep == Spec => []InStep
<1>1. ASSUME IInv PROVE InStep
  <2>. DEFINE a == [settings EXCEPT !.stereo = FALSE, !.spot_depth = -1, !.cycle = 0]
              t == GuiSettings(gui, cast_tag, NoView, 0)
              b == [t EXCEPT !.stereo = FALSE]
  <2>1. /\ settings \in Settings /\ Match(settings, gui, cast_tag)
        /\ gui \in Gui /\ cast_tag \in CastTag \cup {NoTag}
        /\ cast_tag # NoTag <=> gui.cast = "on"
    BY <1>1 DEF IInv, SettingsInv
  <2>2. t \in Settings /\ Match(t, gui, cast_tag) /\ t.spot_depth = -1 /\ t.cycle = 0
    BY <2>1, GuiSettingsMatch
  <2>. HIDE DEF t
  <2>3. /\ a.look = settings.look /\ a.theme = settings.theme /\ a.three_d = settings.three_d
        /\ a.stereo = FALSE /\ a.modes = settings.modes /\ a.spot_depth = -1
        /\ a.cycle = 0 /\ a.cast_tag = settings.cast_tag
    BY <2>1 DEF Settings
  <2>4. /\ b.look = t.look /\ b.theme = t.theme /\ b.three_d = t.three_d
        /\ b.stereo = FALSE /\ b.modes = t.modes /\ b.spot_depth = -1
        /\ b.cycle = 0 /\ b.cast_tag = t.cast_tag
    BY <2>2 DEF Settings
  <2>. HIDE DEF a, b
  <2>5. EqualSettings(a, b)
    BY <2>1, <2>2, <2>3, <2>4 DEF EqualSettings, Match
  <2>6. EqualSettings(
          [settings EXCEPT !.stereo = FALSE, !.spot_depth = -1, !.cycle = 0],
          [GuiSettings(gui, cast_tag, NoView, 0) EXCEPT !.stereo = FALSE])
    BY <2>5 DEF a, b, t
  <2>7. settings.stereo = Stereo(gui)
    BY <2>1 DEF Match
  <2>. QED
    BY <1>1, <2>1, <2>6, <2>7 DEF InStep, IInv, HostInv, MapInv
<1>. QED
  BY <1>1, Invariant, PTL

\* An open viewer that waits shows, to both eyes, the image of the view that it
\* compares with: an image that comes late is not left there (updateImage).
THEOREM WaitsWithItsImage == Spec => []WaitingShowsRequested
BY Invariant, PTL DEF IInv

\* A spot's depth is always that of a chain of timeouts that goes on (sendSpot).
THEOREM SpotsAreLed == Spec => []SpotIsLed
BY Invariant, PTL DEF IInv, SpotInv

\* No image of a destroyed viewer is drawn, for any number of viewers that are
\* still loading (the check of destroyed in the image's callback).
THEOREM DestroyedDrawNothing == Spec => OnlyOpenDraws
<1>. DEFINE Draws == \A v \in 1 .. Len(viewers) :
                       viewers[v].phase = "load" /\ viewers'[v].phase # "load" /\ v # viewer
                         => dom' = dom
<1>1. ASSUME IInv, [Next]_vars PROVE Draws
  <2>. SUFFICES ASSUME NEW v \in 1 .. Len(viewers),
                       viewers[v].phase = "load", viewers'[v].phase # "load", v # viewer,
                       dom' # dom
                PROVE  FALSE
    OBVIOUS
  <2>1. viewers \in Seq(ViewerRecord) /\ viewers[v].destroyed
    BY <1>1 DEF IInv, ViewersInv
  <2>2. CASE ToggleTiled
    <3>1. Destroyed \in Seq(ViewerRecord) /\ Len(Destroyed) = Len(viewers)
          /\ Destroyed[v].phase = viewers[v].phase
      BY <1>1, DestroyedOK
    <3>2. viewers' = Destroyed \/ \E r : viewers' = Append(Destroyed, r)
      BY <2>2 DEF ToggleTiled
    <3>3. viewers'[v] = Destroyed[v]
      BY <3>1, <3>2
    <3>. QED
      BY <3>1, <3>3
  <2>3. ASSUME NEW w \in 1 .. Len(viewers), Load(w) PROVE FALSE
    <3>1. ~ viewers[w].destroyed /\ viewers' = [viewers EXCEPT ![w] = Updated(viewers[w], Timed(settings, w))]
      BY <2>3 DEF Load
    <3>2. w # v
      BY <2>1, <3>1
    <3>3. viewers'[v] = viewers[v]
      BY <2>1, <3>1, <3>2
    <3>. QED
      BY <3>3
  <2>4. CASE ChangeInput \/ ChangeTheme \/ ToggleCast \/ ChangeMode \/ ToggleVR
             \/ SetDimensions \/ F1State \/ SendSpot
    BY <2>4 DEF ChangeInput, ChangeTheme, ToggleCast, ChangeMode, ToggleVR, SetDimensions,
                F1State, SendSpot
  <2>5. CASE Zoom \/ Pan \/ GoTo
    BY <2>5 DEF Zoom, Pan, GoTo, MoveTo
  <2>6. CASE \E w \in 1 .. Len(viewers) : Fail(w) \/ Poll(w) \/ Tick(w)
    BY <2>6 DEF Fail, Poll, Tick
  <2>7. CASE (\E k \in 1 .. Len(spots) : SpotStep(k)) \/ ResizeObserved \/ UNCHANGED vars
    BY <2>7 DEF SpotStep, ResizeObserved, vars
  <2>. QED
    BY <1>1, <2>2, <2>3, <2>4, <2>5, <2>6, <2>7 DEF Next, User
<1>2. IInv /\ [Next]_vars => [Draws]_vars
  BY <1>1
<1>3. Spec => [][Draws]_vars
  BY <1>2, Invariant, PTL DEF Spec
<1>. QED
  BY <1>3 DEF OnlyOpenDraws

=============================================================================
