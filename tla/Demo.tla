--------------------------------- MODULE Demo ---------------------------------
(***************************************************************************)
(* The page of the Mandelbrot explorer: its controls (demo.js) and the     *)
(* full image viewers that they open, change and destroy                   *)
(* (FullImageMandelbrotViewer.js). One settings object is shared by all of *)
(* them, and each viewer compares it with what it requested last, when an  *)
(* image has loaded or a timeout fires. The server answers an image request *)
(* or fails it. Limits of style sheets and the height are left out: the    *)
(* height follows the width's rules.                                       *)
(***************************************************************************)
EXTENDS MandelbrotView, Sequences

CONSTANTS
  Container,   \* widths that the user gives the container of the images
  SpotLimit,   \* the depth at which the spot ends (40)
  MaxEvents,   \* bound on what the user does
  MaxViewers,  \* bound on the viewers opened
  Cycles,      \* seconds after which the time based settings repeat (3)
  NoView, NoMap, NoImage

ASSUME DemoAssumption ==
  /\ Look # {} /\ Position # {}
  /\ Container \subseteq Nat /\ SpotLimit \in Nat \ {0}
  /\ MaxEvents \in Nat /\ MaxViewers \in Nat \ {0}
  /\ Cycles \in Nat \ {0}

VARIABLES
  gui,        \* the controls: what the DOM's inputs hold
  cast_tag,   \* captured when casting was enabled
  settings,   \* the settings that the page and all viewers share
  viewers,    \* the viewers opened so far
  viewer,     \* the open one, or 0
  map,        \* the URL of the map's tiles, or NoMap
  dom,        \* the images of the left and of the right eye
  container,  \* width of the images' container
  eye_width,  \* width of the image of an eye
  resizing,   \* the ResizeObserver has a change to report
  spots,      \* spot_depth of each chain of timeouts of sendSpot; -1 when ended
  server,     \* f1_state and restore_host of the page's mandelbrotServer
  clock,      \* for each viewer the second, of Cycles, since its ref_time
  events      \* what the user has done so far

vars == <<gui, cast_tag, settings, viewers, viewer, map, dom, container,
          eye_width, resizing, spots, server, clock, events>>

PageHost == "page"
F1Host == "f1"

\* No map's URL is NoMap.
ASSUME NoMapAssumption ==
  NoMap \notin {PageHost, F1Host}
    \X (Look \X (BOOLEAN \X BOOLEAN \X BOOLEAN \X BOOLEAN \X BOOLEAN)
             \X Renderer \X {"none", "xmas"})

Home == CHOOSE p \in Position : TRUE   \* resetPosition, and a new view's
GoodPlace == CHOOSE p \in Position : Position = {Home} \/ p # Home

-----------------------------------------------------------------------------
(* Views and their sizes.                                                  *)

EyeSeparation(vr) == IF vr THEN 475 ELSE 386
ImageGap(vr) == IF vr THEN 4 + 2 * 130 ELSE 4
Padding(vr) == IF vr THEN 70 ELSE 0

\* sizeViewer: the container is widened to hold both eyes; an eye's width is even.
Widened(c, stereo, vr) ==
  IF stereo /\ c < EyeSeparation(vr) + 2 THEN EyeSeparation(vr) + 2 ELSE c

EyeWidth(c, stereo, vr) ==
  IF stereo THEN 2 * ((c - ImageGap(vr) - 2 * Padding(vr)) \div 4)
            ELSE 2 * (c \div 2)

Stereo(g) == g.mode = "stereo"

\* settings.set from the controls; vw is the viewer's record, or NoView.
GuiSettings(g, tag, vw, width) ==
  SetSettings(
    [look |-> g.look, theme |-> g.theme, renderer |-> g.renderer,
     three_d |-> g.mode # "2d", stereo |-> Stereo(g), smooth |-> g.smooth,
     full_image |-> ~ g.tiled,
     eye_separation |-> IF vw = NoView THEN 0 ELSE EyeSeparation(vw.vr),
     image_separation |-> width + IF vw = NoView THEN 0 ELSE ImageGap(vw.vr),
     spot_depth |-> -1, cycle |-> 0, cast_tag |-> tag,
     center_offset |-> 0, modes |-> Modes(g.renderer, ~ g.tiled, g.smooth)])

MapURL(g, s) == <<g.host, MapQueryArgs(s)>>

\* openMap: the map's source is given this URL.
OpenedMap(g, s) == MapURL(g, s)

\* getUpdateTimeBasedSettingsFn, by the time of viewer v.
Timed(s, v) == IF s.theme = "xmas" THEN [s EXCEPT !.cycle = clock[v]] ELSE s

\* newView: the position is kept, the size is that of the eye's image.
NewView(vw, w) == [vw EXCEPT !.width = w]

\* The view that a viewer desires; its settings are the shared ones.
ViewOf(vw, s) == [pos |-> vw.pos, width |-> vw.width, settings |-> s]

\* Mutant: the request keeps the settings that the page goes on changing, so
\* later changes of them do not show in the comparison.
UpdatedShared(vw, s) ==
  IF /\ vw.requested # NoView
     /\ vw.pos = vw.requested.pos /\ vw.width = vw.requested.width
    THEN [vw EXCEPT !.phase = "wait"]
    ELSE [vw EXCEPT !.phase = "load", !.url = ImageURL(ViewOf(vw, s)),
                    !.requested = CopyView(ViewOf(vw, s))]

\* updateImage: request the desired view, or wait if it is the one requested.
Updated(vw, s) ==
  IF vw.requested # NoView /\ EqualView(ViewOf(vw, s), vw.requested)
    THEN [vw EXCEPT !.phase = "wait"]
    ELSE [vw EXCEPT !.phase = "load", !.url = ImageURL(ViewOf(vw, s)),
                    !.requested = CopyView(ViewOf(vw, s))]

-----------------------------------------------------------------------------
NewViewer(g, width) ==
  [destroyed |-> FALSE, vr |-> FALSE, host |-> g.host, pos |-> Home,
   width |-> width, requested |-> NoView, url |-> NoImage, phase |-> "load"]

\* openFullViewer, with s as the settings: the viewer is sized, given a view
\* and begins to update its image.
OpenedViewer(g, s, c) == Updated(NewViewer(g, EyeWidth(c, Stereo(g), FALSE)), s)

\* setHolidayTheme: which it is depends on the date.
HolidayTheme == {"none", "xmas"}

Init ==
  LET g == [tiled |-> FALSE, mode |-> "2d", renderer |-> "cpp", smooth |-> FALSE,
            look |-> CHOOSE l \in Look : TRUE, theme |-> "none", host |-> PageHost,
            cast |-> "off", vr |-> "off"]
  IN \E theme \in HolidayTheme, c \in Container :
       /\ gui = [g EXCEPT !.theme = theme]
       /\ cast_tag = NoTag
       /\ clock = [v \in 1 .. MaxViewers |-> 0]
       /\ settings = Timed(GuiSettings(gui, NoTag, NoView, 0), 1)
       /\ viewers = <<OpenedViewer(gui, settings, c)>>
       /\ viewer = 1
       /\ map = NoMap
       /\ dom = [left |-> NoImage, right |-> NoImage]
       /\ container = c
       /\ eye_width = EyeWidth(c, FALSE, FALSE)
       /\ resizing = TRUE
       /\ spots = <<>>
       /\ server = [f1_state |-> "stopped", restore_host |-> "none"]
       /\ events = 0

-----------------------------------------------------------------------------
(* The viewers' callbacks.                                                 *)

\* Mutant of Load: whose image it is is not asked.
LoadAlways(v) ==
  LET vw == viewers[v]
      s == Timed(settings, v) IN
  /\ vw.phase = "load"
  /\ dom' = [left |-> vw.url,
             right |-> IF settings.stereo THEN vw.url ELSE dom.right]
  /\ settings' = s
  /\ viewers' = [viewers EXCEPT ![v] = Updated(vw, s)]
  /\ UNCHANGED <<gui, cast_tag, viewer, map, container, eye_width, resizing,
                 spots, server, clock, events>>

\* Mutant of Load: the right eye's image is set for the first stereo image only.
LoadRightOnce(v) ==
  LET vw == viewers[v]
      s == Timed(settings, v) IN
  /\ vw.phase = "load"
  /\ IF vw.destroyed
       THEN /\ viewers' = [viewers EXCEPT ![v].phase = "ended"]
            /\ UNCHANGED <<settings, dom>>
       ELSE /\ dom' = [left |-> vw.url,
                       right |-> IF settings.stereo /\ dom.right = NoImage
                                 THEN vw.url ELSE dom.right]
            /\ settings' = s
            /\ viewers' = [viewers EXCEPT ![v] = Updated(vw, s)]
  /\ UNCHANGED <<gui, cast_tag, viewer, map, container, eye_width, resizing,
                 spots, server, clock, events>>

\* An image has loaded: show it, then look at the desired view again. A
\* destroyed viewer does neither.
Load(v) ==
  LET vw == viewers[v]
      s == Timed(settings, v) IN
  /\ vw.phase = "load"
  /\ IF vw.destroyed
       THEN /\ viewers' = [viewers EXCEPT ![v].phase = "ended"]
            /\ UNCHANGED <<settings, dom>>
       ELSE /\ dom' = [left |-> vw.url,
                       right |-> IF settings.stereo THEN vw.url ELSE dom.right]
            /\ settings' = s
            /\ viewers' = [viewers EXCEPT ![v] = Updated(vw, s)]
  /\ UNCHANGED <<gui, cast_tag, viewer, map, container, eye_width, resizing,
                 spots, server, clock, events>>

\* A request fails: there is no onerror, and the viewer does nothing more.
Fail(v) ==
  /\ viewers[v].phase = "load"
  /\ viewers' = [viewers EXCEPT ![v].phase = "failed"]
  /\ UNCHANGED <<gui, cast_tag, settings, viewer, map, dom, container,
                 eye_width, resizing, spots, server, clock, events>>

\* The timeout of updateImage fires, also in a viewer destroyed meanwhile.
Poll(v) ==
  /\ viewers[v].phase = "wait"
  /\ settings' = Timed(settings, v)
  /\ viewers' = [viewers EXCEPT ![v] = Updated(viewers[v], settings')]
  /\ UNCHANGED <<gui, cast_tag, viewer, map, dom, container, eye_width,
                 resizing, spots, server, clock, events>>

\* Mutant of SpotStep: the depth is left where it has come to.
SpotStepNoReset(k) ==
  LET mine == settings.spot_depth = spots[k]
      d == spots[k] + 1 IN
  /\ spots[k] # -1
  /\ settings' = IF mine THEN [settings EXCEPT !.spot_depth = d] ELSE settings
  /\ spots' = [spots EXCEPT ![k] = IF mine /\ d < SpotLimit THEN d ELSE -1]
  /\ UNCHANGED <<gui, cast_tag, viewers, viewer, map, dom, container, eye_width,
                 resizing, server, clock, events>>

\* Mutant of SpotStep: whose depth it is decides, the limit does not.
SpotStepForever(k) ==
  /\ spots[k] # -1
  /\ settings' = [settings EXCEPT !.spot_depth = spots[k] + 1]
  /\ spots' = [spots EXCEPT ![k] = spots[k] + 1]
  /\ UNCHANGED <<gui, cast_tag, viewers, viewer, map, dom, container, eye_width,
                 resizing, server, clock, events>>

\* A timeout of sendSpot fires: go one deeper unless the depth is not its own.
SpotStep(k) ==
  LET mine == settings.spot_depth = spots[k]
      d == IF spots[k] + 1 < SpotLimit THEN spots[k] + 1 ELSE -1 IN
  /\ spots[k] # -1
  /\ settings' = IF mine THEN [settings EXCEPT !.spot_depth = d] ELSE settings
  /\ spots' = [spots EXCEPT ![k] = IF mine THEN d ELSE -1]
  /\ UNCHANGED <<gui, cast_tag, viewers, viewer, map, dom, container, eye_width,
                 resizing, server, clock, events>>

\* Only the theme of Christmas tells the time apart. (A second of one viewer ends
\* at another time than that of one opened later.)
Tick(v) ==
  /\ settings.theme = "xmas"
  /\ clock' = [clock EXCEPT ![v] = (@ + 1) % Cycles]
  /\ UNCHANGED <<gui, cast_tag, settings, viewers, viewer, map, dom, container,
                 eye_width, resizing, spots, server, events>>

-----------------------------------------------------------------------------
(* The controls. Every handler that changes a control ends in a call of    *)
(* settingsChanged with the controls g, the open viewer's record vw and the *)
(* eye's width w.                                                           *)

Open == IF viewer = 0 THEN NoView ELSE viewers[viewer]

SettingsChanged(g, tag, vw, w) ==
  /\ gui' = g
  /\ cast_tag' = tag
  /\ settings' = GuiSettings(g, tag, vw, w)
  /\ map' = IF map = NoMap THEN NoMap ELSE MapURL(g, settings')
  /\ viewers' = IF viewer = 0 THEN viewers
                ELSE [viewers EXCEPT ![viewer] = NewView(vw, w)]

\* resized, to the container's width c; without a viewer nothing is sized.
Resized(g, vw, c) ==
  LET vr == IF vw = NoView THEN FALSE ELSE vw.vr
      w == IF vw = NoView THEN eye_width ELSE EyeWidth(Widened(c, Stereo(g), vr), Stereo(g), vr)
  IN /\ container' = IF vw = NoView THEN c ELSE Widened(c, Stereo(g), vr)
     /\ eye_width' = w
     /\ SettingsChanged(g, cast_tag, vw, w)

UserActs ==
  /\ events < MaxEvents
  /\ events' = events + 1
  /\ UNCHANGED clock

\* An input of class var, selection or flag, or one that selects the renderer
\* (whose direct assignment settingsChanged makes again). The renderer sets limits
\* of the container, by which it may come to be resized.
ChangeInput ==
  /\ UserActs
  /\ \E g \in {[gui EXCEPT !.look = l] : l \in Look}
             \cup {[gui EXCEPT !.smooth = ~ gui.smooth]}
             \cup {[gui EXCEPT !.renderer = r] : r \in Renderer} :
       /\ g # gui /\ SettingsChanged(g, cast_tag, Open, eye_width)
       /\ resizing' \in {resizing, resizing \/ g.renderer # gui.renderer}
  /\ UNCHANGED <<viewer, dom, container, eye_width, spots, server>>

\* The theme is changed, which resets the position.
ChangeTheme ==
  /\ UserActs
  /\ LET g == [gui EXCEPT !.theme = IF gui.theme = "none" THEN "xmas" ELSE "none"]
     IN SettingsChanged(g, cast_tag,
          IF viewer = 0 THEN NoView ELSE [Open EXCEPT !.pos = Home], eye_width)
  /\ UNCHANGED <<viewer, dom, container, eye_width, resizing, spots, server>>

\* destroyViewer: the open viewer is destroyed, and its images removed. (A map
\* is destroyed by opening the viewer.)
Destroyed == IF viewer = 0 THEN viewers ELSE [viewers EXCEPT ![viewer].destroyed = TRUE]

\* Tiled is switched: what is open is destroyed, the settings are changed while
\* nothing is open, then a map or a viewer is opened.
ToggleTiled ==
  LET g == [gui EXCEPT !.tiled = ~ gui.tiled]
      s == GuiSettings(g, cast_tag, NoView, eye_width)
  IN
  /\ UserActs
  /\ Len(viewers) < MaxViewers
  /\ gui' = g
  /\ dom' = [left |-> NoImage, right |-> NoImage]
  /\ IF g.tiled
       THEN /\ settings' = s
            /\ map' = OpenedMap(g, s)
            /\ viewers' = Destroyed
            /\ viewer' = 0
            /\ UNCHANGED <<container, eye_width>>
       ELSE /\ map' = NoMap
            /\ container' = Widened(container, Stereo(g), FALSE)
            /\ eye_width' = EyeWidth(container', Stereo(g), FALSE)
            /\ settings' = Timed(s, Len(viewers) + 1)
            /\ viewers' = Append(Destroyed,
                                 OpenedViewer(g, Timed(s, Len(viewers) + 1), container'))
            /\ viewer' = Len(viewers')
  /\ resizing' = (resizing \/ container' # container)
  /\ UNCHANGED <<cast_tag, spots, server>>

\* 2-D, 3-D or stereo; the inputs are hidden while there is no viewer.
ChangeMode ==
  /\ UserActs
  /\ viewer # 0
  /\ \E m \in {"2d", "3d", "stereo"} \ {gui.mode} :
       Resized([gui EXCEPT !.mode = m], Open, container)
  /\ resizing' = (resizing \/ container' # container)
  /\ UNCHANGED <<viewer, dom, spots, server>>

\* The open viewer's desired view is moved. (Motion timeouts do the same.)
MoveTo(p) ==
  /\ UserActs
  /\ viewer # 0
  /\ viewers' = [viewers EXCEPT ![viewer].pos = p]
  /\ UNCHANGED <<gui, cast_tag, settings, viewer, map, dom, container, eye_width,
                 resizing, spots, server>>

\* The wheel or a pinch.
Zoom == \E p \in Position : MoveTo(p)

\* A drag.
Pan == \E p \in Position : MoveTo(p)

\* Reset Image, or the good place.
GoTo == MoveTo(Home) \/ MoveTo(GoodPlace)

\* The space bar: sendSpot, whose first step is made at once.
SendSpot ==
  /\ UserActs
  /\ viewer # 0 /\ Stereo(gui)
  /\ settings' = [settings EXCEPT !.spot_depth = 0]
  /\ spots' = Append(spots, 0)
  /\ UNCHANGED <<gui, cast_tag, viewers, viewer, map, dom, container, eye_width,
                 resizing, server>>

ToggleCast ==
  /\ UserActs
  /\ \/ /\ viewer # 0 /\ gui.cast = "off"
        /\ \E tag \in CastTag :
             SettingsChanged([gui EXCEPT !.cast = "on"], tag, Open, eye_width)
     \/ /\ viewer # 0 /\ gui.cast = "on"
        /\ SettingsChanged([gui EXCEPT !.cast = "off"], NoTag, Open, eye_width)
     \/ /\ viewer = 0
        /\ SettingsChanged(gui, cast_tag, Open, eye_width)
  /\ UNCHANGED <<viewer, dom, container, eye_width, resizing, spots, server>>

\* A button of class resolution; the view follows when the observer reports.
SetDimensions ==
  /\ UserActs
  /\ viewer # 0
  /\ \E c \in Container :
       /\ container' = Widened(c, Stereo(gui), Open.vr)
       /\ eye_width' = EyeWidth(container', Stereo(gui), Open.vr)
  /\ resizing' = (resizing \/ container' # container)
  /\ UNCHANGED <<gui, cast_tag, settings, viewers, viewer, map, dom, spots, server>>

\* The button for a VR viewer, which also selects stereo. The scale changes,
\* and it is the button and not the viewer that remembers whether it is on.
ToggleVR ==
  /\ UserActs
  /\ viewer # 0
  /\ \E p \in Position \ {Open.pos} :
       LET on == gui.vr = "off"
           g == [gui EXCEPT !.mode = "stereo", !.vr = IF on THEN "on" ELSE "off"]
       IN Resized(g, [Open EXCEPT !.vr = on, !.pos = p], 
                  IF on THEN 640
                  ELSE IF Stereo(gui) THEN container
                  ELSE Widened(container, TRUE, Open.vr))
  /\ resizing' = (resizing \/ container' # container)
  /\ UNCHANGED <<viewer, dom, spots, server>>

-----------------------------------------------------------------------------
\* The user resizes the container, or another cause has: resized is called.
ResizeObserved ==
  /\ resizing
  /\ Resized(gui, Open, container)
  /\ resizing' = (container' # container)
  /\ UNCHANGED <<viewer, dom, spots, server, clock, events>>

\* Mutant of F1StateCB: the host is not restored.
F1StateCBKeepsHost(val) ==
  LET running == val = "running"
      host == IF running THEN F1Host ELSE gui.host
      vw == IF viewer = 0 THEN NoView ELSE [Open EXCEPT !.host = host]
  IN /\ server' = [f1_state |-> val,
                   restore_host |-> IF running THEN gui.host ELSE "none"]
     /\ SettingsChanged([gui EXCEPT !.host = host], cast_tag, vw, eye_width)

\* f1_state is set: while running, the host is that of the F1 instance.
F1StateCB(val) ==
  LET running == val = "running"
      host == IF running THEN F1Host
              ELSE IF server.restore_host # "none" THEN server.restore_host
              ELSE gui.host
      vw == IF viewer = 0 THEN NoView ELSE [Open EXCEPT !.host = host]
  IN /\ server' = [f1_state |-> val,
                   restore_host |-> IF running THEN gui.host ELSE "none"]
     /\ SettingsChanged([gui EXCEPT !.host = host], cast_tag, vw, eye_width)

\* The states that the start form, the stop button and the answers go through.
F1State ==
  /\ UserActs
  /\ \E val \in CASE server.f1_state = "stopped" -> {"pending"}
                  [] server.f1_state = "pending" -> {"running", "stopped"}
                  [] server.f1_state = "running" -> {"stopped"} :
       F1StateCB(val)
  /\ UNCHANGED <<viewer, dom, container, eye_width, resizing, spots>>

-----------------------------------------------------------------------------
User ==
  \/ ChangeInput \/ ChangeTheme \/ ToggleTiled \/ ChangeMode \/ Zoom \/ Pan \/ GoTo \/ SendSpot
  \/ ToggleCast \/ SetDimensions \/ ToggleVR \/ F1State

Next ==
  \/ User
  \/ \E v \in 1 .. Len(viewers) : Load(v) \/ Fail(v) \/ Poll(v) \/ Tick(v)
  \/ \E k \in 1 .. Len(spots) : SpotStep(k)
  \/ ResizeObserved

Spec == Init /\ [][Next]_vars

\* The browser runs due callbacks and the network answers or fails: every
\* timeout, answer and report comes. What the user does is not assured.
Fairness ==
  /\ \A v \in 1 .. MaxViewers :
       /\ WF_vars(v <= Len(viewers) /\ (Load(v) \/ Fail(v)))
       /\ WF_vars(v <= Len(viewers) /\ Poll(v))
  /\ WF_vars(\E k \in 1 .. Len(spots) : SpotStep(k))
  /\ WF_vars(ResizeObserved)

FairSpec == Spec /\ Fairness

-----------------------------------------------------------------------------
(* Properties.                                                             *)

DemoTypeOK ==
  /\ settings \in Settings
  /\ viewer \in 0 .. Len(viewers)
  /\ \A v \in 1 .. Len(viewers) :
       /\ viewers[v].phase \in {"load", "wait", "failed", "ended"}
       /\ viewers[v].requested \in View
  /\ spots \in Seq(-1 .. SpotLimit - 1)

\* What is shown and requested follows the controls: whatever was opened,
\* destroyed or restored meanwhile, the settings are those of the controls
\* (the separations apart, which a viewer opened in stereo does not set), a map
\* has the URL of these settings and of the host of the controls, which is the
\* F1 instance's exactly while that runs, and so has the open viewer.
InStep ==
  /\ EqualSettings(
       [settings EXCEPT !.stereo = FALSE, !.spot_depth = -1, !.cycle = 0],
       [GuiSettings(gui, cast_tag, NoView, 0) EXCEPT !.stereo = FALSE])
  /\ settings.stereo = Stereo(gui)
  /\ IF viewer = 0 THEN map = MapURL(gui, settings)
                   ELSE map = NoMap /\ Open.host = gui.host
  /\ gui.host = IF server.f1_state = "running" THEN F1Host ELSE PageHost
  /\ cast_tag # NoTag <=> gui.cast = "on"

\* A viewer that waits for a change shows, to both eyes if it is a stereo
\* image, the image of the view it compares with: an image that loads late,
\* after the view or the mode was changed and changed back, is not left there.
WaitingShowsRequested ==
  viewer # 0 /\ Open.phase = "wait" =>
    /\ dom.left = ImageURL(Open.requested)
    /\ Open.requested.settings.stereo => dom.right = dom.left

\* The spot is moved on by a timeout of its own depth, so it does not stay.
SpotIsLed ==
  settings.spot_depth # -1 => \E k \in 1 .. Len(spots) : spots[k] = settings.spot_depth

\* No image of a destroyed viewer appears, whatever was on its way.
OnlyOpenDraws ==
  [][\A v \in 1 .. Len(viewers) :
       viewers[v].phase = "load" /\ viewers'[v].phase # "load" /\ v # viewer
         => dom' = dom]_vars

\* When the user leaves the controls alone, the image of the desired view
\* comes to be shown and stays (unless a request fails, which ends the viewer,
\* or the theme goes on changing the view).
Settles ==
  <>[](\/ viewer = 0 \/ Open.phase = "failed" \/ settings.theme = "xmas"
       \/ dom.left = ImageURL(ViewOf(Open, settings)))

\* The spot ends.
SpotEnds == []<>(settings.spot_depth = -1)

\* "Load the next image if needed, non-stop until destroyed."
NonStop ==
  \A v \in 1 .. Len(viewers) : ~ viewers[v].destroyed => viewers[v].phase \in {"load", "wait"}

=============================================================================
