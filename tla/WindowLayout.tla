----------------------------- MODULE WindowLayout -----------------------------
(* Where things are in and around a session window (src-tauri present.rs,
   windows.rs, frames.rs) and in a gallery preview (connections.rs). Lengths are
   half points, so that centring stays exact; y grows downwards from the top
   edge, or upwards from the bottom edge in AppKit's unflipped views. *)
EXTENDS PixelMath, Sequences
CONSTANTS HUD_INSET, BANNER_WIDTH, BANNER_HEIGHT, STATS_WIDTH, STATS_HEIGHT, TITLEBAR_HEIGHT,
          MIN_VISIBLE, CASCADE,
          Template,      \* the session window's template: width, height, min_width, min_height
          THUMBNAIL_MAX  \* the box of a preview, in pixels
ASSUME WindowAssumption ==
    /\ {HUD_INSET, BANNER_WIDTH, BANNER_HEIGHT, STATS_WIDTH, STATS_HEIGHT, TITLEBAR_HEIGHT,
        MIN_VISIBLE, CASCADE} \subseteq Nat \ {0}
    /\ BANNER_WIDTH % 2 = 0 /\ HUD_INSET % 2 = 0
    /\ Template \in [width : Nat, height : Nat, min_width : Nat, min_height : Nat]
    /\ Template.width % 2 = 0 /\ Template.height % 2 = 0
    /\ Template.min_width <= Template.width /\ Template.min_height <= Template.height
Point == 2   \* one point, in half points

--------------------------------------------------------------------------------
(* present.rs: the bands of a window, and the panels over the picture. *)
chrome(full_screen) == IF full_screen THEN 0 ELSE TITLEBAR_HEIGHT
band_y(parent_height, top, height, flipped) == IF flipped THEN top ELSE parent_height - top - height

hud_frame(parent, hud, flipped) ==
    LET width == Greatest(IF hud = "Banner" THEN Least(BANNER_WIDTH, parent.width - 2 * HUD_INSET)
                                            ELSE Least(STATS_WIDTH, parent.width), Point)
        height == Greatest(Least(IF hud = "Banner" THEN BANNER_HEIGHT ELSE STATS_HEIGHT, parent.height), Point)
        x == IF hud = "Banner" THEN (parent.width - width) \div 2 ELSE parent.width - width - HUD_INSET
        top == IF hud = "Banner" THEN 0 ELSE parent.height - height - HUD_INSET
        inside(at, extent) == clamp(at, 0, Greatest(extent, 0))
    IN  [x |-> inside(x, parent.width - width), width |-> width, height |-> height,
         y |-> band_y(parent.height, inside(top, parent.height - height), height, flipped)]

(* windows.rs layout: the title bar, the picture and the page of a window. *)
layout(window, surface, full_screen, flipped) ==
    LET bar == chrome(full_screen)
        height == Greatest(window.height - bar, Point)
        content == [x |-> 0, y |-> band_y(window.height, bar, height, flipped),
                    width |-> window.width, height |-> height]
        panel == hud_frame([width |-> window.width, height |-> height], surface, flipped)
    IN  [view |-> content,
         titlebar |-> [x |-> 0, y |-> band_y(window.height, 0, bar, flipped), width |-> window.width, height |-> bar],
         web |-> CASE surface \in {"Webview", "Overlay"} -> content
                   [] surface = "Remote" -> [content EXCEPT !.height = 0]   \* hidden
                   [] OTHER -> [panel EXCEPT !.y = content.y + panel.y]]

--------------------------------------------------------------------------------
(* frames.rs and windows.rs: a window's frame on the screens. *)
Side(at, extent, from, length) == Greatest(Least(at + extent, from + length) - Greatest(at, from), 0)
overlap(frame, screen) == <<Side(frame.x, frame.width, screen.x, screen.width),
                            Side(frame.y, frame.height, screen.y, screen.height)>>
Visible(frame, screens) ==
    \E i \in DOMAIN screens : LET o == overlap(frame, screens[i]) IN o[1] >= MIN_VISIBLE /\ o[2] >= MIN_VISIBLE
\* No saved frame is the empty sequence.
restore(saved, screens, cascade) ==
    LET origin(at, extent, size) == at + (extent - size) \div 2
        first == screens[1]
        centred == IF screens = <<>> THEN <<0, 0>>
                   ELSE <<origin(first.x, first.width, Template.width), origin(first.y, first.height, Template.height)>>
    IN  IF saved # <<>> /\ saved[1].width >= Template.min_width /\ saved[1].height >= Template.min_height
           /\ Visible(saved[1], screens)
        THEN saved[1]
        ELSE [x |-> centred[1] + CASCADE * cascade, y |-> centred[2] + CASCADE * cascade,
              width |-> Template.width, height |-> Template.height]
\* AppKit's screen coordinates grow upwards from the bottom of the primary screen.
Mirrored(frame, primary) == [frame EXCEPT !.y = primary - frame.y - frame.height]
appkit_rect(frame, primary) == Mirrored(frame, primary)
top_left(rect, primary) == Mirrored(rect, primary)
place(saved, screens, primary, cascade) == appkit_rect(restore(saved, screens, cascade), primary)

--------------------------------------------------------------------------------
(* connections.rs: the preview of a frame. *)
\* The smaller of the two ratios and one, as a fraction.
fit(size, max) ==
    LET byWidth == max.width * size.height <= max.height * size.width
        num == IF byWidth THEN max.width ELSE max.height
        den == IF byWidth THEN size.width ELSE size.height
        side(v, limit) == IF num >= den THEN clamp(v, 1, Greatest(limit, 1))
                            ELSE clamp((2 * v * num + den) \div (2 * den), 1, Greatest(limit, 1))
    IN  IF size.width = 0 \/ size.height = 0 THEN [width |-> 0, height |-> 0]
        ELSE [width |-> side(size.width, max.width), height |-> side(size.height, max.height)]
\* The source pixels averaged into output pixel o, on one axis of n source and m output pixels.
downscale(o, n, m) ==
    LET from == (o * n) \div m IN from .. Greatest(((o + 1) * n) \div m, from + 1) - 1
================================================================================
