-------------------------------- MODULE Pixels --------------------------------
(* PixelMath and WindowLayout tried on every probe, and the wheel units of a
   scroll gesture (drift-input scroll.rs). *)
EXTENDS WindowLayout, FiniteSets
CONSTANTS UNITS_PER_NOTCH, MAX_UNITS_PER_EVENT, MAX_UNITS_PER_PUSH,
          LayoutProbes,    \* inputs of fit_to_caps to try: width, height, max_area, err
          PlacementProbes, \* desktops and drawables to try
          WindowProbes,    \* windows to lay out: window, surface, full_screen
          FrameProbes,     \* windows to open: saved, screens, cascade
          PreviewProbes,   \* sizes of frames to preview
          ScrollDeltas,    \* what one scroll event may add, in fractions of a unit
          MaxScroll        \* bound on the units of a gesture
ASSUME ScrollAssumption ==
    /\ {MAX_UNITS_PER_EVENT, MAX_UNITS_PER_PUSH, MaxScroll} \subseteq Nat
    /\ UNITS_PER_NOTCH \in 1 .. MAX_UNITS_PER_EVENT
    /\ ScrollDeltas \subseteq Int
Extent == [width : Nat \ {0}, height : Nat \ {0}]
WindowFrame == [x : Int, y : Int, width : Nat, height : Nat]
(* Nothing is drawn before there is a picture and a drawable, no window is
   narrower than a point, and so few windows cascade over the first screen that
   the last one still shows. *)
ASSUME ProbeAssumption ==
    /\ LayoutProbes \subseteq [width : Int, height : Int, max_area : Nat, err : Int \X Int]
    /\ PlacementProbes \subseteq [desktop : Extent, drawable : Extent]
    /\ \A p \in WindowProbes :
         p.window \in [width : Nat, height : Nat] /\ p.window.width >= Point /\ p.full_screen \in BOOLEAN
    /\ \A p \in FrameProbes :
         /\ p.saved \in Seq(WindowFrame) /\ p.screens \in Seq(WindowFrame) /\ p.cascade \in Nat
         /\ p.screens # <<>> =>
              /\ MIN_VISIBLE + CASCADE * p.cascade <= Least(p.screens[1].width, Template.width)
              /\ MIN_VISIBLE + CASCADE * p.cascade <= Least(p.screens[1].height, Template.height)
    /\ PreviewProbes \cup {THUMBNAIL_MAX} \subseteq Extent
VARIABLES probe,    \* the input the pure functions are tried on
          residual, \* ScrollAccumulator: fraction of a unit not yet sent
          pushed,   \* fractions of a unit the gesture has added
          wheel,    \* units of each wheel event of the last push
          sent      \* units sent in the gesture
pixelVars == <<probe, residual, pushed, wheel, sent>>

--------------------------------------------------------------------------------
(* drift-input scroll.rs on one axis; a unit is Fraction parts. *)
Fraction == 4
trunc(parts) == IF parts >= 0 THEN parts \div Fraction ELSE -((-parts) \div Fraction)
sign(n) == IF n < 0 THEN -1 ELSE 1
(* The whole part in events of at most chunk units. *)
Chunks(whole, chunk) ==
    LET n == sign(whole) * whole
    IN  [i \in 1 .. (n + chunk - 1) \div chunk |-> sign(whole) * Least(chunk, n - (i - 1) * chunk)]
Total(events) ==
    LET sum[i \in 0 .. Len(events)] == IF i = 0 THEN 0 ELSE sum[i - 1] + events[i] IN sum[Len(events)]
push(parts, chunk) ==
    LET units == clamp(parts, -MAX_UNITS_PER_PUSH * Fraction, MAX_UNITS_PER_PUSH * Fraction)
        whole == trunc(residual + units)
    IN  /\ residual' = residual + units - whole * Fraction
        /\ wheel' = Chunks(whole, chunk)
        /\ pushed' = pushed + units
        /\ sent' = sent + Total(wheel')
        /\ UNCHANGED probe
ScrollPrecise(parts) == Distance(pushed, 0) < MaxScroll * Fraction /\ push(parts, MAX_UNITS_PER_EVENT)
ScrollLines(parts) == /\ Distance(pushed, 0) < MaxScroll * Fraction
                      /\ push(parts * UNITS_PER_NOTCH, UNITS_PER_NOTCH)
(* reset: a gesture begins, or the view loses the focus. *)
GestureBegan ==
    /\ residual' = 0 /\ pushed' = 0 /\ sent' = 0 /\ wheel' = <<>>
    /\ UNCHANGED probe

PixelInit ==
    /\ probe \in LayoutProbes \cup PlacementProbes \cup WindowProbes \cup FrameProbes \cup PreviewProbes
    /\ residual = 0 /\ pushed = 0 /\ sent = 0 /\ wheel = <<>>
(* The pure functions are tried in the initial states; one probe also scrolls. *)
Scrolling == probe = CHOOSE p \in PlacementProbes : TRUE
PixelNext ==
    /\ Scrolling
    /\ \/ \E parts \in ScrollDeltas : ScrollPrecise(parts) \/ ScrollLines(parts)
       \/ GestureBegan
PixelSpec == PixelInit /\ [][PixelNext]_pixelVars

--------------------------------------------------------------------------------
(* Every layout Drift asks for is one MS-RDPEDISP allows, whatever the ratio's
   rounding: both sides in range, the width even, and the area within the
   server's cap unless not even the smallest monitor fits it. *)
LayoutIsLegal ==
    probe \in LayoutProbes =>
        LET size == fit_to_caps(probe.width, probe.height, probe.max_area, probe.err)
        IN  /\ {size[1], size[2]} \subseteq Dimension
            /\ size[1] % 2 = 0
            /\ \/ size[1] * size[2] <= probe.max_area
               \/ size = <<MIN_MONITOR_DIMENSION, MIN_MONITOR_DIMENSION>>
(* The desktop column the compositor shows at drawable column at of its
   viewport: the texel under the middle of the column. *)
Shown(at, x, width, extent) == ((2 * (at - x) + 1) * extent) \div (2 * width)
(* A click lands where the pixels are: the pointer mapping and the compositor's
   placement, computed apart and rounded differently, never name desktop pixels
   further apart than one drawable pixel covers. *)
Slack(extent, drawn) == (extent + drawn - 1) \div drawn
ClicksLandOnPixels ==
    probe \in PlacementProbes =>
        LET v == present_layout(probe.desktop, probe.drawable)
        IN  /\ v.x + v.width <= probe.drawable.width /\ v.y + v.height <= probe.drawable.height
            /\ v.width = probe.drawable.width \/ v.height = probe.drawable.height
            /\ \A x \in v.x .. v.x + v.width - 1, y \in v.y .. v.y + v.height - 1 :
                 LET p == view_to_desktop([x |-> x, y |-> y], probe.drawable, probe.desktop)
                 IN  /\ Distance(p.x, Shown(x, v.x, v.width, probe.desktop.width)) <= Slack(probe.desktop.width, v.width)
                     /\ Distance(p.y, Shown(y, v.y, v.height, probe.desktop.height)) <= Slack(probe.desktop.height, v.height)
(* Over a gesture no wheel unit is lost or invented: what was sent and the
   remainder add up to what was scrolled, the remainder is less than a unit, and
   no event exceeds the nine bits of the fast-path rotation field. *)
NothingLostOrInvented ==
    /\ sent * Fraction + residual = pushed
    /\ Distance(residual, 0) < Fraction
    /\ \A i \in DOMAIN wheel : wheel[i] # 0 /\ Distance(wheel[i], 0) <= MAX_UNITS_PER_EVENT
(* What the pointer does over the view reaches the remote undistorted: clicks
   where they were made, the wheel as far as it was turned. *)
PointerIsFaithful == ClicksLandOnPixels /\ NothingLostOrInvented

(* A panel floats over a corner of the picture and leaves the rest to the remote
   desktop: however small the window, the title bar and the picture share it
   without overlap, the page stays inside the picture, and a flipped superview
   shows the same window. *)
Inside(part, whole) == /\ whole.x <= part.x /\ part.x + part.width <= whole.x + whole.width
                       /\ whole.y <= part.y /\ part.y + part.height <= whole.y + whole.height
PanelsFloatOverThePicture ==
    probe \in WindowProbes =>
        LET window == [x |-> 0, y |-> 0, width |-> probe.window.width, height |-> probe.window.height]
            l == layout(window, probe.surface, probe.full_screen, TRUE)
            u == layout(window, probe.surface, probe.full_screen, FALSE)
            fits == window.height >= chrome(probe.full_screen) + Point
        IN  /\ Inside(l.web, l.view) /\ Inside(u.web, u.view)
            /\ fits => /\ Inside(l.view, window) /\ Inside(l.titlebar, window)
                       /\ l.titlebar.height + l.view.height = window.height
                       /\ l.view.y = l.titlebar.y + l.titlebar.height
            /\ {"view", "titlebar"} \subseteq {part \in DOMAIN l : Mirrored(u[part], window.height) = l[part]}
            /\ probe.surface # "Remote" => Mirrored(u.web, window.height) = l.web
(* A window opens where the user finds it, and where the user left it: after a
   monitor has gone it is put back on a screen, and what the next quit saves is
   what the next launch restores. *)
WindowsOpenOnScreen ==
    probe \in FrameProbes =>
        LET primary == IF probe.screens = <<>> THEN 0 ELSE probe.screens[1].height
            shown == top_left(place(probe.saved, probe.screens, primary, probe.cascade), primary)
        IN  probe.screens # <<>> =>
                /\ Visible(shown, probe.screens)
                /\ \A cascade \in 0 .. 2 : restore(<<shown>>, probe.screens, cascade) = shown
(* A preview fits its box, is never larger than its frame nor empty, and every
   pixel of the frame weighs in exactly one pixel of it. *)
PreviewsAreFaithful ==
    probe \in PreviewProbes =>
        LET out == fit(probe, THUMBNAIL_MAX)
            partition(n, m) == \A i \in 0 .. n - 1 : Cardinality({o \in 0 .. m - 1 : i \in downscale(o, n, m)}) = 1
        IN  /\ out.width \in 1 .. Least(probe.width, THUMBNAIL_MAX.width)
            /\ out.height \in 1 .. Least(probe.height, THUMBNAIL_MAX.height)
            /\ \/ out = probe \/ out.width = THUMBNAIL_MAX.width \/ out.height = THUMBNAIL_MAX.height
            /\ partition(probe.width, out.width) /\ partition(probe.height, out.height)
            /\ UNION {downscale(o, probe.width, out.width) : o \in 0 .. out.width - 1} = 0 .. probe.width - 1
(* Everything the views compute about pixels and points agrees: the layouts asked
   for, the clicks and the wheel, the windows and their panels, the previews. *)
PixelsAreExact ==
    LayoutIsLegal /\ PointerIsFaithful /\ PanelsFloatOverThePicture /\ WindowsOpenOnScreen /\ PreviewsAreFaithful
================================================================================
