------------------------------ MODULE PixelMath ------------------------------
(* The integer arithmetic between the Mac's view and the remote desktop: the
   monitor layout a view asks for (drift-core layout.rs), where the compositor
   draws the desktop (drift-render layout.rs), which desktop pixel a click means
   (drift-input coords.rs). Lengths the code keeps in f64 are integers in a fraction named at each
   operator, and a quotient is compared by cross-multiplication. *)
EXTENDS Integers
CONSTANTS MIN_MONITOR_DIMENSION, MAX_MONITOR_DIMENSION
ASSUME PixelAssumption ==
    /\ MIN_MONITOR_DIMENSION \in Nat \ {0} /\ MIN_MONITOR_DIMENSION % 2 = 0
    /\ MAX_MONITOR_DIMENSION \in Nat /\ MIN_MONITOR_DIMENSION <= MAX_MONITOR_DIMENSION

Least(a, b) == IF a <= b THEN a ELSE b
Greatest(a, b) == IF a >= b THEN a ELSE b
clamp(v, low, high) == Least(Greatest(v, low), high)
even(v) == v - (v % 2)

--------------------------------------------------------------------------------
(* drift-core layout.rs *)
Dimension == MIN_MONITOR_DIMENSION .. MAX_MONITOR_DIMENSION
clampDimension(v) == clamp(v, MIN_MONITOR_DIMENSION, MAX_MONITOR_DIMENSION)
EvenDimension == {w \in Dimension : w % 2 = 0}
(* The loop that corrects the rounding of the ratio, from an even width. *)
shrink(max_area) ==
    LET step[p \in EvenDimension \X Dimension] ==
          LET w == p[1]  h == p[2]
          IN  IF w * h <= max_area \/ (w <= MIN_MONITOR_DIMENSION /\ h <= MIN_MONITOR_DIMENSION) THEN p
              ELSE IF (w >= h /\ w > MIN_MONITOR_DIMENSION) \/ h <= MIN_MONITOR_DIMENSION
                   THEN step[<<w - 2, h>>] ELSE step[<<w, h - 1>>]
    IN  step
(* floor(v * sqrt(max_area / area)), off by at most err where the f64 rounds. *)
scaled(v, max_area, area, err) ==
    Greatest(0, err + CHOOSE k \in 0 .. v : /\ k * k * area <= v * v * max_area
                                            /\ k = v \/ (k + 1) * (k + 1) * area > v * v * max_area)
\* Mutant: the rounding of the ratio is not corrected.
BugFitToCaps(width, height, max_area, err) ==
    LET w == even(clampDimension(width))  h == clampDimension(height)
    IN  IF w * h <= max_area THEN <<w, h>>
        ELSE <<even(clampDimension(scaled(w, max_area, w * h, err[1]))),
               clampDimension(scaled(h, max_area, w * h, err[2]))>>
fit_to_caps(width, height, max_area, err) ==
    LET w == even(clampDimension(width))  h == clampDimension(height)
    IN  IF w * h <= max_area THEN <<w, h>>
        ELSE shrink(max_area)[<<even(clampDimension(scaled(w, max_area, w * h, err[1]))),
                                clampDimension(scaled(h, max_area, w * h, err[2]))>>]
(* to_pixels of a length in half points; the f64 rounds halves away from zero. *)
to_pixels(halves) == IF halves <= 0 THEN 0 ELSE (halves + 1) \div 2
DEVICE_SCALE_FACTORS == {100, 140, 180}
Distance(a, b) == IF a >= b THEN a - b ELSE b - a
device_scale_for(desktop_scale) ==
    CHOOSE f \in DEVICE_SCALE_FACTORS :
        \A g \in DEVICE_SCALE_FACTORS :
            \/ Distance(f, desktop_scale) < Distance(g, desktop_scale)
            \/ Distance(f, desktop_scale) = Distance(g, desktop_scale) /\ f <= g
(* view: points in halves and whether the backing scale is at least 1.5. *)
desired_layout(view, retina, max_area) ==
    LET factor == IF retina /\ view.hidpi THEN 2 ELSE 1
        size == fit_to_caps(to_pixels(view.width * factor), to_pixels(view.height * factor), max_area, <<0, 0>>)
    IN  [width |-> size[1], height |-> size[2], desktop_scale_factor |-> 100 * factor,
         device_scale_factor |-> device_scale_for(100 * factor)]

--------------------------------------------------------------------------------
(* drift-render layout.rs: where the desktop is drawn, in drawable pixels. *)
scale(num, den, limit) == clamp((2 * num + den) \div (2 * den), 1, limit)
present_layout(desktop, drawable) ==
    LET w == IF drawable.width * desktop.height <= drawable.height * desktop.width THEN drawable.width
             ELSE scale(drawable.height * desktop.width, desktop.height, drawable.width)
        h == IF drawable.width * desktop.height <= drawable.height * desktop.width
             THEN scale(drawable.width * desktop.height, desktop.width, drawable.height)
             ELSE drawable.height
    IN  IF desktop = drawable
        THEN [filter |-> "Nearest", x |-> 0, y |-> 0, width |-> drawable.width, height |-> drawable.height]
        ELSE [filter |-> "Linear", width |-> w, height |-> h,
              x |-> (drawable.width - w) \div 2, y |-> (drawable.height - h) \div 2]

(* drift-input coords.rs, ScaleMode::Fit with one drawable pixel per point: the
   scale is the fraction num / den, the origin on an axis is
   max((view - extent * scale) / 2, 0). *)
Viewport(view, desktop) ==
    IF view.width * desktop.height <= view.height * desktop.width
    THEN [num |-> view.width, den |-> desktop.width] ELSE [num |-> view.height, den |-> desktop.height]
(* The desktop pixel of the middle of view pixel at, on one axis:
   ((at + 1/2) - origin) / scale, floored and clamped. *)
to_pixel(at, view, extent, s) ==
    clamp(((2 * at + 1) * s.den - Greatest(view * s.den - extent * s.num, 0)) \div (2 * s.num), 0, extent - 1)
view_to_desktop(point, view, desktop) ==
    [x |-> to_pixel(point.x, view.width, desktop.width, Viewport(view, desktop)),
     y |-> to_pixel(point.y, view.height, desktop.height, Viewport(view, desktop))]
================================================================================
