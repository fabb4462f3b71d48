---------------------------- MODULE MandelbrotView ----------------------------
(***************************************************************************)
(* Settings and views of the Mandelbrot explorer                           *)
(* (apps/mandelbrot/client/js/MandelbrotView.js): which views are equal,    *)
(* what a copy keeps, and which URL asks the server for the image of a     *)
(* view. The fields that are only assigned, compared and transmitted one by *)
(* one (max_depth, brighten, var1, colors, texture, ...) are one field,     *)
(* look; x, y and scale are one field, pos.                                *)
(***************************************************************************)
EXTENDS Integers

CONSTANTS Look, Position, CastTag, NoTag

ASSUME NoTagAssumption == NoTag \notin CastTag

Renderer == {"python", "cpp", "fpga"}

Settings ==
  [look : Look, theme : {"none", "xmas"}, renderer : Renderer,
   three_d : BOOLEAN, stereo : BOOLEAN, smooth : BOOLEAN,
   full_image : BOOLEAN, eye_separation : Nat, image_separation : Nat,
   spot_depth : Int, cycle : Nat, cast_tag : CastTag \cup {NoTag},
   center_offset : Int, modes : BOOLEAN \X BOOLEAN \X BOOLEAN \X BOOLEAN \X BOOLEAN]

View == [pos : Position, width : Nat, settings : Settings]

-----------------------------------------------------------------------------
\* parseInt(n / 2.0): towards zero.
Half(n) == IF n >= 0 THEN n \div 2 ELSE - ((- n) \div 2)

\* The bits of modes: python, cpp, fpga, full image, smooth.
Modes(renderer, full_image, smooth) ==
  <<renderer = "python", renderer = "cpp", renderer = "fpga", full_image, smooth>>

\* set: the fields are assigned, and three of them computed from the others.
SetSettings(s) ==
  [s EXCEPT !.three_d = s.three_d /\ s.full_image,
            !.center_offset = IF s.stereo
                              THEN Half(s.image_separation - s.eye_separation)
                              ELSE 0,
            !.modes = Modes(s.renderer, s.full_image, s.smooth)]

\* What set has made: every settings object outside of a change of one field.
IsSet(s) == s = SetSettings(s)

CopySettings(s) == SetSettings(s)

\* The fields that a map's URL holds.
MapQueryArgs(s) == <<s.look, s.modes, s.renderer, s.theme>>

\* The fields that a full image's URL adds; those left out read as absent.
QueryArgs(s) ==
  <<MapQueryArgs(s), s.three_d, s.center_offset,
    IF s.stereo THEN s.eye_separation ELSE 0,
    IF s.spot_depth < 0 THEN -1 ELSE s.spot_depth,
    s.cycle, s.cast_tag>>

EqualSettings(s, t) ==
  /\ s.look = t.look /\ s.theme = t.theme
  /\ s.three_d = t.three_d /\ s.stereo = t.stereo
  /\ s.stereo => /\ s.eye_separation = t.eye_separation
                 /\ s.image_separation = t.image_separation
  /\ s.modes = t.modes
  /\ s.spot_depth = t.spot_depth
  /\ s.cycle = t.cycle
  /\ s.cast_tag = t.cast_tag

-----------------------------------------------------------------------------
CopyView(v) == [v EXCEPT !.settings = CopySettings(v.settings)]

EqualView(v, w) ==
  /\ v.pos = w.pos /\ v.width = w.width
  /\ EqualSettings(v.settings, w.settings)

\* The query of an image: the position, the size of the image and of its
\* pixels (which the scale and the size determine), and the settings.
ImageURL(v) == <<v.pos, v.width, QueryArgs(v.settings)>>

=============================================================================
