------------------------------- MODULE LegProofs -------------------------------
(***************************************************************************)
(* Theorems about what serves a live leg.  LegTimers, for every debounce,    *)
(* delay, set of views, profiles and areas: the resize driver settles on     *)
(* the view's last geometry, and neither it nor the greeter typist fires     *)
(* early.  FrameAcks, for any window and any number of frames, legs and      *)
(* visibility changes: the actor is never left asleep on a queued            *)
(* acknowledgement, a hidden session acknowledges exactly one frame, and     *)
(* what the acknowledgements tell the server is true.  Pixels, for sizes,    *)
(* gestures, screens and windows of any size: layouts, clicks, the wheel,    *)
(* panels, window frames and previews are exact.                             *)
(***************************************************************************)
EXTENDS LegTimers, Pixels, FrameAcks, FiniteSetTheorems, FunctionTheorems, WellFoundedInduction, TLAPS

\* A ResizeDriver has these four fields; what a layout is does not matter here.
IsDriver(r) == DOMAIN r = {"geometry", "caps", "current", "due"}
LegTypes ==
    /\ clock \in 0 .. MaxClock
    /\ profile \in [mode : Mode, adaptive : BOOLEAN, retina : BOOLEAN, password : BOOLEAN]
    /\ stage \in {"down", "connecting", "greeter", "desktop"}
    /\ IsDriver(resize) /\ resize.due \in 0 .. NoTime
    /\ resize.geometry \in Views \cup {Unset} /\ resize.caps \in [max_area : Areas] \cup {Unset}
    /\ typist \in [armed : BOOLEAN, due : 0 .. NoTime]
    /\ lastChange \in (0 .. MaxClock) \cup {NoTime}
    /\ clicked \in (0 .. MaxClock) \cup {NoTime}
    /\ typed \in Nat

(* On a live leg the driver knows what the server displays, unless its last layout
   could not be encoded, and an idle driver
   with a channel has nothing left to send.  The second part holds between legs
   as well: only a new leg's capabilities can ask for another layout. *)
DriverInv ==
    /\ Live /\ ~unsent => resize.current = display
    /\ resize.caps # Unset /\ resize.due = NoTime /\ Wants => resize.current = desired
(* A debounce under way lasts to the end of the burst. *)
DebounceInv ==
    adaptive =>
        /\ Wants => lastChange # NoTime
        /\ lastChange # NoTime =>
             \/ clock >= lastChange + RESIZE_DEBOUNCE
             \/ resize.due # NoTime /\ resize.due >= lastChange + RESIZE_DEBOUNCE
(* An armed typist is at the greeter, has not typed there, and waits for the
   first click on this leg or for its delay. *)
TypistInv ==
    Live /\ typist.armed =>
        /\ stage = "greeter" /\ profile.password /\ typed = 0
        /\ typist.due # NoTime => clicked # NoTime /\ typist.due >= clicked + TYPE_DELAY
        /\ typist.due = NoTime => clicked = NoTime
LegInv == LegTypes /\ DriverInv /\ DebounceInv /\ TypistInv
--------------------------------------------------------------------------------
(* The loop of fit_to_caps.  Its sizes are Grid; Shrunk(f, a, p) is one round of
   it, with f for the rounds to come.                                          *)
Grid == EvenDimension \X Dimension
Fits(a, p) == p[1] * p[2] <= a
AtMinimum(p) == p[1] <= MIN_MONITOR_DIMENSION /\ p[2] <= MIN_MONITOR_DIMENSION
Narrower(p) == \/ p[1] >= p[2] /\ p[1] > MIN_MONITOR_DIMENSION
               \/ p[2] <= MIN_MONITOR_DIMENSION
Smaller(p) == IF Narrower(p) THEN <<p[1] - 2, p[2]>> ELSE <<p[1], p[2] - 1>>
Ends(a, p) == Fits(a, p) \/ AtMinimum(p)
Shrunk(f, a, p) == IF Ends(a, p) THEN p ELSE f[Smaller(p)]

(* The least-number principle for a set, from which the inductions follow. *)
LEMMA Smallest ==
    ASSUME NEW S \in SUBSET Nat, S # {}
    PROVE  \E n \in S : \A m \in S : n <= m
<1> DEFINE Less == OpToRel(<, Nat)
<1>1. IsWellFoundedOn(Less, Nat) BY NatLessThanWellFounded
<1>2. \A m, n \in Nat : m < n => <<m, n>> \in Less BY DEF OpToRel
<1> HIDE DEF Less
<1>3. PICK n \in S : \A m \in S : <<m, n>> \notin Less
    <2>1. \E x \in S : \A y \in S : ~ (<<y, x>> \in Less) BY <1>1, WFMin
    <2> QED BY <2>1
<1>4. ASSUME NEW m \in S PROVE n <= m
    <2>1. m \in Nat /\ n \in Nat OBVIOUS
    <2>2. ~(m < n) BY <1>2, <1>3, <2>1
    <2> QED BY <2>1, <2>2
<1> QED BY <1>4

LEMMA SmallerSizes ==
    ASSUME NEW p \in Grid, ~AtMinimum(p)
    PROVE  Smaller(p) \in Grid /\ Smaller(p)[1] + Smaller(p)[2] < p[1] + p[2]
<1>1. /\ p = <<p[1], p[2]>> /\ p[1] \in Dimension /\ p[1] % 2 = 0 /\ p[2] \in Dimension
    BY DEF Grid, EvenDimension
<1>2. /\ MIN_MONITOR_DIMENSION \in Nat /\ MIN_MONITOR_DIMENSION % 2 = 0
      /\ MAX_MONITOR_DIMENSION \in Nat
    BY PixelAssumption
<1>3. CASE Narrower(p)
    <2>1. p[1] > MIN_MONITOR_DIMENSION
        BY <1>1, <1>2, <1>3 DEF Narrower, AtMinimum, Dimension
    <2>2. p[1] - 2 \in Dimension /\ (p[1] - 2) % 2 = 0
        BY <1>1, <1>2, <2>1 DEF Dimension
    <2>3. Smaller(p) = <<p[1] - 2, p[2]>> BY <1>3 DEF Smaller
    <2> QED BY <1>1, <1>2, <2>2, <2>3 DEF Grid, EvenDimension, Dimension
<1>4. CASE ~Narrower(p)
    <2>1. p[2] - 1 \in Dimension
        BY <1>1, <1>2, <1>4 DEF Narrower, Dimension
    <2>2. Smaller(p) = <<p[1], p[2] - 1>> BY <1>4 DEF Smaller
    <2> QED BY <1>1, <1>2, <2>1, <2>2 DEF Grid, EvenDimension, Dimension
<1> QED BY <1>3, <1>4

LEMMA GridSums ==
    ASSUME NEW p \in Grid
    PROVE  p[1] + p[2] \in Nat /\ p[1] + p[2] <= 2 * MAX_MONITOR_DIMENSION
BY PixelAssumption DEF Grid, EvenDimension, Dimension

(* The recursion of shrink has a solution: sums only get smaller. *)
LEMMA LoopExists ==
    ASSUME NEW a \in Nat
    PROVE  \E f : f = [p \in Grid |-> Shrunk(f, a, p)]
<1> DEFINE Solves(f, n) ==
             \A p \in Grid : p[1] + p[2] <= n => f[p] = Shrunk(f, a, p)
           Unsolved == {n \in Nat : ~\E f : Solves(f, n)}
<1>1. Unsolved = {}
    <2> SUFFICES ASSUME Unsolved # {} PROVE FALSE OBVIOUS
    <2>1. PICK n \in Unsolved : \A m \in Unsolved : n <= m
        <3> HIDE DEF Solves
        <3>1. Unsolved \in SUBSET Nat OBVIOUS
        <3> HIDE DEF Unsolved
        <3> QED BY <3>1, Smallest
    <2>2. n # 0
        <3>1. \A p \in Grid : ~(p[1] + p[2] <= 0)
            BY PixelAssumption DEF Grid, EvenDimension, Dimension
        <3>2. \A f : Solves(f, 0) BY <3>1
        <3> HIDE DEF Solves
        <3> QED BY <3>2
    <2>3. PICK f : Solves(f, n - 1)
        <3> HIDE DEF Solves
        <3> QED BY <2>1, <2>2
    <2> DEFINE g == [p \in Grid |-> IF p[1] + p[2] <= n - 1 THEN f[p] ELSE Shrunk(f, a, p)]
    <2>4. ASSUME NEW p \in Grid, p[1] + p[2] <= n PROVE g[p] = Shrunk(g, a, p)
        <3>1. n \in Nat /\ p[1] + p[2] \in Nat BY GridSums
        <3>2. g[p] = Shrunk(f, a, p) BY <2>3
        <3>3. CASE Ends(a, p) BY <3>2, <3>3 DEF Shrunk
        <3>4. CASE ~Ends(a, p)
            <4> DEFINE q == Smaller(p)
            <4>1. q \in Grid /\ q[1] + q[2] < p[1] + p[2]
                BY <3>4, SmallerSizes DEF Ends
            <4>2. q[1] + q[2] <= n - 1 BY <2>4, <3>1, <4>1, GridSums
            <4> HIDE DEF q
            <4>3. g[q] = f[q] BY <4>1, <4>2
            <4> HIDE DEF g
            <4> QED BY <3>2, <3>4, <4>3 DEF Shrunk, q
        <3> QED BY <3>3, <3>4
    <2>5. Solves(g, n)
        <3> HIDE DEF g
        <3> QED BY <2>4
    <2> HIDE DEF g, Solves
    <2> QED BY <2>5
<1>2. PICK f : Solves(f, 2 * MAX_MONITOR_DIMENSION)
    <2>1. 2 * MAX_MONITOR_DIMENSION \in Nat BY PixelAssumption
    <2> HIDE DEF Solves
    <2> QED BY <1>1, <2>1
<1>3. \A p \in Grid : f[p] = Shrunk(f, a, p) BY <1>2, GridSums
<1> DEFINE g == [p \in Grid |-> f[p]]
<1>4. ASSUME NEW p \in Grid PROVE g[p] = Shrunk(g, a, p)
    <2>1. Ends(a, p) \/ Smaller(p) \in Grid BY SmallerSizes DEF Ends
    <2> QED BY <1>3, <2>1 DEF Shrunk
<1>5. g = [p \in Grid |-> g[p]] OBVIOUS
<1> HIDE DEF g
<1>6. [p \in Grid |-> g[p]] = [p \in Grid |-> Shrunk(g, a, p)] BY <1>4
<1>7. g = [p \in Grid |-> Shrunk(g, a, p)] BY <1>5, <1>6
<1> QED BY <1>7

LEMMA Loop ==
    ASSUME NEW a \in Nat
    PROVE  \A p \in Grid : shrink(a)[p] = Shrunk(shrink(a), a, p)
<1> DEFINE f == CHOOSE f : f = [p \in Grid |-> Shrunk(f, a, p)]
<1>1. shrink(a) = f
    BY DEF shrink, Grid, Shrunk, Smaller, Narrower, Ends, Fits, AtMinimum
<1>2. f = [p \in Grid |-> Shrunk(f, a, p)] BY LoopExists
<1> HIDE DEF f
<1>3. shrink(a) = [p \in Grid |-> Shrunk(shrink(a), a, p)] BY <1>1, <1>2
<1> QED BY <1>3

LEMMA LoopResult ==
    ASSUME NEW a \in Nat, NEW p \in Grid
    PROVE  shrink(a)[p] \in Grid /\ Ends(a, shrink(a)[p])
<1> DEFINE Good(q) == shrink(a)[q] \in Grid /\ Ends(a, shrink(a)[q])
           Bad == {n \in Nat : \E q \in Grid : q[1] + q[2] = n /\ ~Good(q)}
<1> SUFFICES ASSUME ~Good(p) PROVE FALSE OBVIOUS
<1>1. PICK n \in Bad : \A m \in Bad : n <= m
    <2>1. p[1] + p[2] \in Bad BY GridSums
    <2>2. Bad \in SUBSET Nat /\ Bad # {}
        <3> HIDE DEF Good
        <3> QED BY <2>1
    <2> HIDE DEF Bad
    <2> QED BY <2>2, Smallest
<1> HIDE DEF Good
<1>2. PICK q \in Grid : q[1] + q[2] = n /\ ~Good(q) BY <1>1
<1>3. CASE Ends(a, q)
    <2>1. shrink(a)[q] = q BY <1>3, Loop DEF Shrunk
    <2> QED BY <1>2, <1>3, <2>1 DEF Good
<1>4. CASE ~Ends(a, q)
    <2> DEFINE r == Smaller(q)
    <2>1. r \in Grid /\ r[1] + r[2] < q[1] + q[2] BY <1>4, SmallerSizes DEF Ends
    <2>2. shrink(a)[q] = shrink(a)[r] BY <1>4, Loop DEF Shrunk
    <2> HIDE DEF r
    <2>3. ~Good(r) BY <1>2, <2>2 DEF Good
    <2>4. r[1] + r[2] \in Nat /\ r[1] + r[2] \in Bad BY <2>1, <2>3, GridSums
    <2> HIDE DEF Bad
    <2> QED BY <1>1, <1>2, <2>1, <2>4, GridSums
<1> QED BY <1>3, <1>4

LEMMA Ratio ==
    ASSUME NEW v \in Nat, NEW a \in Nat, NEW b \in Nat, NEW e \in Int
    PROVE  scaled(v, a, b, e) \in Int
<1> DEFINE Scale(k) == k * k * b
           Limit == v * v * a
           Floor(k) == Scale(k) <= Limit /\ (k = v \/ Scale(k + 1) > Limit)
           Over == {k \in 0 .. v : Scale(k) > Limit}
<1>1. Limit \in Nat /\ \A k \in Nat : Scale(k) \in Nat
    <2>1. \A x, y \in Nat : x * y \in Nat OBVIOUS
    <2> QED BY <2>1
<1>2. Scale(0) = 0 OBVIOUS
<1> HIDE DEF Scale, Limit
<1>3. \E k \in 0 .. v : Floor(k)
    <2>1. CASE Over = {} BY <1>1, <2>1
    <2>2. CASE Over # {}
        <3>1. PICK n \in Over : \A m \in Over : n <= m
            <4>1. Over \in SUBSET Nat OBVIOUS
            <4> HIDE DEF Over
            <4> QED BY <2>2, <4>1, Smallest
        <3>2. n # 0 BY <1>1, <1>2, <3>1
        <3>3. n - 1 \in 0 .. v /\ n - 1 \notin Over BY <3>1, <3>2
        <3>4. Scale(n - 1) <= Limit BY <1>1, <3>3
        <3>5. (n - 1) + 1 = n /\ Scale(n) > Limit BY <3>1
        <3>6. Scale((n - 1) + 1) > Limit BY <3>5
        <3>7. Floor(n - 1) BY <3>4, <3>6
        <3> HIDE DEF Floor
        <3> QED BY <3>3, <3>7
    <2> QED BY <2>1, <2>2
<1> DEFINE best == CHOOSE k \in 0 .. v : Floor(k)
<1>4. best \in 0 .. v
    <2> HIDE DEF Floor
    <2> QED BY <1>3
<1>5. scaled(v, a, b, e) = Greatest(0, e + best)
    BY DEF scaled, Scale, Limit
<1> HIDE DEF best
<1> QED BY <1>4, <1>5 DEF Greatest

LEMMA Clamped ==
    ASSUME NEW v \in Int
    PROVE  clampDimension(v) \in Dimension /\ even(clampDimension(v)) \in EvenDimension
<1>1. clampDimension(v) \in Dimension
    BY PixelAssumption DEF clampDimension, clamp, Least, Greatest, Dimension
<1>2. \A w \in Dimension : even(w) \in EvenDimension
    BY PixelAssumption DEF even, Dimension, EvenDimension
<1> QED BY <1>1, <1>2

(* Every size fit_to_caps returns is one that MS-RDPEDISP allows, both sides in
   range and the width even, and its area is within the server's cap unless not
   even the smallest monitor is, however the ratio in f64 was rounded. *)
THEOREM LayoutsAreLegal ==
    ASSUME NEW width \in Int, NEW height \in Int, NEW max_area \in Nat, NEW err \in Int \X Int
    PROVE  LET size == fit_to_caps(width, height, max_area, err)
           IN  /\ {size[1], size[2]} \subseteq Dimension /\ size[1] % 2 = 0
               /\ \/ size[1] * size[2] <= max_area
                  \/ size = <<MIN_MONITOR_DIMENSION, MIN_MONITOR_DIMENSION>>
<1> DEFINE w == even(clampDimension(width))  h == clampDimension(height)
           x == even(clampDimension(scaled(w, max_area, w * h, err[1])))
           y == clampDimension(scaled(h, max_area, w * h, err[2]))
           size == fit_to_caps(width, height, max_area, err)
<1>1. w \in EvenDimension /\ h \in Dimension BY Clamped
<1>2. size = IF w * h <= max_area THEN <<w, h>> ELSE shrink(max_area)[<<x, y>>]
    BY DEF fit_to_caps
<1> HIDE DEF w, h
<1>3. w \in Nat /\ h \in Nat /\ w * h \in Nat
    <2>1. w \in Nat /\ h \in Nat BY <1>1, PixelAssumption DEF EvenDimension, Dimension
    <2> QED BY <2>1
<1>4. err[1] \in Int /\ err[2] \in Int OBVIOUS
<1>5. x \in EvenDimension /\ y \in Dimension
    <2>1. /\ scaled(w, max_area, w * h, err[1]) \in Int
          /\ scaled(h, max_area, w * h, err[2]) \in Int
        BY <1>3, <1>4, Ratio
    <2> QED BY <2>1, Clamped
<1> HIDE DEF x, y, size
<1>6. size \in Grid /\ Ends(max_area, size)
    <2>1. CASE w * h <= max_area BY <1>1, <1>2, <2>1 DEF Grid, Ends, Fits
    <2>2. CASE ~(w * h <= max_area)
        <3>1. <<x, y>> \in Grid BY <1>5 DEF Grid
        <3> QED BY <1>2, <2>2, <3>1, LoopResult
    <2> QED BY <2>1, <2>2
<1>7. AtMinimum(size) => size = <<MIN_MONITOR_DIMENSION, MIN_MONITOR_DIMENSION>>
    BY <1>6, PixelAssumption DEF Grid, EvenDimension, Dimension, AtMinimum
<1>8. /\ {size[1], size[2]} \subseteq Dimension /\ size[1] % 2 = 0
      /\ \/ size[1] * size[2] <= max_area
         \/ size = <<MIN_MONITOR_DIMENSION, MIN_MONITOR_DIMENSION>>
    BY <1>6, <1>7 DEF Grid, EvenDimension, Ends, Fits
<1> QED BY <1>8 DEF size

--------------------------------------------------------------------------------
LEMMA Instants ==
    /\ RESIZE_DEBOUNCE \in Nat \ {0} /\ TYPE_DELAY \in Nat \ {0} /\ MaxClock \in Nat
    /\ NoTime \in Nat
    /\ \A t \in 0 .. MaxClock : /\ t + RESIZE_DEBOUNCE \in 0 .. NoTime /\ t \in 0 .. NoTime
                               /\ t + TYPE_DELAY \in 0 .. NoTime
                               /\ t + RESIZE_DEBOUNCE # NoTime /\ t + TYPE_DELAY # NoTime
                               /\ t # NoTime
BY LegAssumption DEF NoTime

(* The driver after each of its operations. *)
LEMMA Geometry ==
    ASSUME IsDriver(resize), NEW g
    PROVE  LET r == on_geometry(g)
           IN  /\ IsDriver(r)
               /\ r.geometry = g /\ r.caps = resize.caps /\ r.current = resize.current
               /\ r.due = IF resize.geometry # g /\ adaptive THEN clock + RESIZE_DEBOUNCE
                          ELSE resize.due
<1>1. CASE resize.geometry = g BY <1>1 DEF on_geometry
<1>2. CASE resize.geometry # g BY <1>2 DEF on_geometry, IsDriver
<1> QED BY <1>1, <1>2

LEMMA Ready ==
    ASSUME IsDriver(resize), NEW c
    PROVE  LET r == on_display_control_ready(c)
           IN  /\ IsDriver(r)
               /\ r.geometry = resize.geometry /\ r.caps = c /\ r.current = resize.current
               /\ r.due = IF Wants /\ resize.due = NoTime THEN clock ELSE resize.due
BY DEF on_display_control_ready, IsDriver

LEMMA FreshLeg ==
    ASSUME IsDriver(resize), NEW l
    PROVE  LET r == on_leg_activated(l)
           IN  /\ IsDriver(r)
               /\ r.geometry = resize.geometry /\ r.caps = Unset /\ r.current = l
               /\ r.due = resize.due
BY DEF on_leg_activated, IsDriver

(* What a poll leaves of the driver: its geometry and capabilities, and a
   current layout that is the desired one if one was wanted and is due. *)
LEMMA Poll ==
    ASSUME LegTypes
    PROVE  /\ IsDriver(poll.driver)
           /\ poll.driver.geometry = resize.geometry /\ poll.driver.caps = resize.caps
           /\ \/ poll.driver.due = resize.due
              \/ poll.driver.due = NoTime /\ clock >= resize.due
           /\ poll.layout => /\ poll.driver.current = desired /\ Wants
                             /\ resize.due = NoTime \/ clock >= resize.due
           /\ ~poll.layout => poll.driver.current = resize.current
           /\ resize.caps # Unset /\ poll.driver.due = NoTime /\ Wants =>
                poll.driver.current = desired
           /\ poll.layout \in BOOLEAN
<1> USE DEF LegTypes
<1> DEFINE waiting == (resize.due # NoTime /\ clock < resize.due) \/ resize.caps = Unset
<1>0. IsDriver(resize) /\ resize.due \in Int /\ clock \in Int BY Instants
<1>1. CASE waiting
    <2>1. poll = [driver |-> resize, layout |-> FALSE] BY <1>1 DEF poll
    <2> QED BY <1>0, <1>1, <2>1
<1>2. CASE ~waiting /\ (~Wants \/ resize.current = desired)
    <2>1. poll = [driver |-> [resize EXCEPT !.due = NoTime], layout |-> FALSE]
        BY <1>2 DEF poll
    <2>2. LET r == poll.driver
          IN  /\ IsDriver(r) /\ r.geometry = resize.geometry /\ r.caps = resize.caps
              /\ r.current = resize.current /\ r.due = NoTime
        BY <1>0, <2>1 DEF IsDriver
    <2>3. resize.due = NoTime \/ clock >= resize.due BY <1>0, <1>2, Instants
    <2> QED BY <1>2, <2>1, <2>2, <2>3
<1>3. CASE ~waiting /\ Wants /\ resize.current # desired
    <2>1. poll = [driver |-> [resize EXCEPT !.due = NoTime, !.current = desired], layout |-> TRUE]
        BY <1>3 DEF poll
    <2>2. LET r == poll.driver
          IN  /\ IsDriver(r) /\ r.geometry = resize.geometry /\ r.caps = resize.caps
              /\ r.current = desired /\ r.due = NoTime
        BY <1>0, <2>1 DEF IsDriver
    <2>3. resize.due = NoTime \/ clock >= resize.due BY <1>0, <1>3, Instants
    <2> QED BY <1>3, <2>1, <2>2, <2>3
<1> QED BY <1>1, <1>2, <1>3
--------------------------------------------------------------------------------
(* What the driver wants depends on its geometry, its capabilities and the
   profile only.                                                              *)
LEMMA SameWish ==
    ASSUME resize'.geometry = resize.geometry, profile' = profile
    PROVE  /\ adaptive' = adaptive /\ Wants' = Wants
           /\ resize'.caps = resize.caps => desired' = desired
<1>1. adaptive' = adaptive BY DEF adaptive
<1>2. Wants' = Wants BY <1>1 DEF Wants
<1>3. resize'.caps = resize.caps => desired' = desired BY DEF desired
<1> QED BY <1>1, <1>2, <1>3

LEMMA ProfileStays == LegNext => profile' = profile
BY DEF LegNext, ViewResized, ConnectLeg, FollowRedirect, Request, ConnectFailed, ActivateLeg,
       DisplayControlReady, ClickReleased, OnTick, OnTickWriteFails, LegDies, ClockTicks

LEMMA TypesAtFirst == LegInit => LegInv
<1> SUFFICES ASSUME LegInit PROVE LegInv OBVIOUS
<1> USE DEF LegInit
<1>1. LegTypes
    BY Instants, LegAssumption DEF LegTypes, IsDriver, disarm
<1>2. DriverInv BY DEF DriverInv, Live
<1>3. DebounceInv BY DEF DebounceInv, Wants
<1>4. TypistInv BY DEF TypistInv, Live
<1> QED BY <1>1, <1>2, <1>3, <1>4 DEF LegInv

LEMMA TypesStay == LegTypes /\ [LegNext]_timerVars => LegTypes'
<1> SUFFICES ASSUME LegTypes, [LegNext]_timerVars PROVE LegTypes' OBVIOUS
<1> USE DEF LegTypes
<1>1. ASSUME NEW geometry \in Views, ViewResized(geometry) PROVE LegTypes'
    <2>1. /\ IsDriver(resize') /\ resize'.due \in 0 .. NoTime
          /\ resize'.geometry \in Views \cup {Unset}
          /\ resize'.caps \in [max_area : Areas] \cup {Unset}
        BY <1>1, Geometry, Instants DEF ViewResized
    <2> QED BY <1>1, <2>1 DEF ViewResized
<1>2. CASE ConnectLeg \/ FollowRedirect \/ ConnectFailed \/ LegDies
    BY <1>2 DEF ConnectLeg, FollowRedirect, Request, ConnectFailed, LegDies
<1>3. ASSUME NEW granted \in {asked, DefaultDesktop}, ActivateLeg(granted) PROVE LegTypes'
    <2>1. /\ IsDriver(resize') /\ resize'.due \in 0 .. NoTime
          /\ resize'.geometry \in Views \cup {Unset}
          /\ resize'.caps \in [max_area : Areas] \cup {Unset}
        BY <1>3, FreshLeg DEF ActivateLeg
    <2>2. typist' \in [armed : BOOLEAN, due : 0 .. NoTime]
        BY <1>3, Instants DEF ActivateLeg, on_greeter, disarm
    <2> QED BY <1>3, <2>1, <2>2, Instants DEF ActivateLeg
<1>4. ASSUME NEW area \in Areas, DisplayControlReady(area) PROVE LegTypes'
    <2>1. /\ IsDriver(resize') /\ resize'.due \in 0 .. NoTime
          /\ resize'.geometry \in Views \cup {Unset}
          /\ resize'.caps \in [max_area : Areas] \cup {Unset}
        BY <1>4, Ready, Instants DEF DisplayControlReady
    <2> QED BY <1>4, <2>1 DEF DisplayControlReady
<1>5. CASE ClickReleased
    <2>1. typist' \in [armed : BOOLEAN, due : 0 .. NoTime]
        BY <1>5, Instants DEF ClickReleased, on_input
    <2> QED BY <1>5, <2>1 DEF ClickReleased
<1>6. CASE (\E encoded \in BOOLEAN : OnTick(encoded)) \/ OnTickWriteFails
    <2>1. /\ IsDriver(resize') /\ resize'.due \in 0 .. NoTime
          /\ resize'.geometry \in Views \cup {Unset}
          /\ resize'.caps \in [max_area : Areas] \cup {Unset}
        BY <1>6, Poll, Instants DEF OnTick, OnTickWriteFails
    <2>2. typist' \in [armed : BOOLEAN, due : 0 .. NoTime]
        <3>1. disarm \in [armed : BOOLEAN, due : 0 .. NoTime] BY Instants DEF disarm
        <3>2. typist' \in {typist, disarm} BY <1>6 DEF OnTick, OnTickWriteFails
        <3> QED BY <3>1, <3>2
    <2> QED BY <1>6, <2>1, <2>2 DEF OnTick, OnTickWriteFails
<1>7. CASE ClockTicks BY <1>7, Instants DEF ClockTicks
<1>8. CASE UNCHANGED timerVars BY <1>8 DEF timerVars
<1> QED BY <1>1, <1>2, <1>3, <1>4, <1>5, <1>6, <1>7, <1>8 DEF LegNext

LEMMA DriverStep == LegTypes /\ DriverInv /\ LegNext => DriverInv'
<1> SUFFICES ASSUME LegTypes, DriverInv, LegNext PROVE DriverInv' OBVIOUS
<1>0. IsDriver(resize) /\ clock \in 0 .. MaxClock /\ profile' = profile
    BY ProfileStays DEF LegTypes
<1> USE DEF DriverInv
<1>1. ASSUME NEW geometry \in Views, ViewResized(geometry) PROVE DriverInv'
    <2>1. /\ resize'.geometry = geometry /\ resize'.caps = resize.caps
          /\ resize'.current = resize.current
          /\ resize'.due = IF resize.geometry # geometry /\ adaptive
                           THEN clock + RESIZE_DEBOUNCE ELSE resize.due
        BY <1>0, <1>1, Geometry DEF ViewResized
    <2>2. Live' = Live /\ display' = display /\ unsent' = unsent BY <1>1 DEF ViewResized, Live
    <2>3. CASE resize.geometry = geometry
        BY <1>0, <2>1, <2>2, <2>3, SameWish
    <2>4. CASE resize.geometry # geometry
        <3>1. Wants' => adaptive BY <1>0 DEF Wants, adaptive
        <3>2. Wants' => resize'.due # NoTime BY <1>0, <2>1, <2>4, <3>1, Instants
        <3> QED BY <2>1, <2>2, <3>2
    <2> QED BY <2>3, <2>4
<1>2. CASE ConnectLeg \/ FollowRedirect \/ ConnectFailed \/ LegDies
    <2>1. resize' = resize /\ ~Live'
        BY <1>2 DEF ConnectLeg, FollowRedirect, Request, ConnectFailed, LegDies, Live
    <2> QED BY <1>0, <2>1, SameWish
<1>3. ASSUME NEW granted \in {asked, DefaultDesktop}, ActivateLeg(granted) PROVE DriverInv'
    BY <1>0, <1>3, FreshLeg DEF ActivateLeg
<1>4. ASSUME NEW area \in Areas, DisplayControlReady(area) PROVE DriverInv'
    <2>1. /\ resize'.geometry = resize.geometry /\ resize'.current = resize.current
          /\ resize'.due = IF Wants /\ resize.due = NoTime THEN clock ELSE resize.due
          /\ Live' = Live /\ display' = display /\ unsent' = unsent
        BY <1>0, <1>4, Ready DEF DisplayControlReady, Live
    <2>2. Wants' => resize'.due # NoTime BY <1>0, <2>1, SameWish, Instants
    <2> QED BY <2>1, <2>2
<1>5. CASE ClickReleased \/ ClockTicks
    <2>1. resize' = resize /\ display' = display /\ unsent' = unsent /\ Live' = Live
        BY <1>5 DEF ClickReleased, ClockTicks, Live
    <2> QED BY <1>0, <2>1, SameWish
<1>6. CASE (\E encoded \in BOOLEAN : OnTick(encoded)) \/ OnTickWriteFails
    <2>1. resize' = poll.driver BY <1>6 DEF OnTick, OnTickWriteFails
    <2>2. /\ resize'.geometry = resize.geometry /\ resize'.caps = resize.caps
          /\ resize.caps # Unset /\ resize'.due = NoTime /\ Wants => resize'.current = desired
          /\ ~poll.layout => resize'.current = resize.current
        BY <2>1, Poll
    <2>3. Wants' = Wants /\ desired' = desired BY <1>0, <2>2, SameWish
    <2>4. Live' /\ ~unsent' => resize'.current = display'
        BY <1>6, <2>2 DEF OnTick, OnTickWriteFails, Live
    <2> QED BY <2>2, <2>3, <2>4
<1> QED BY <1>1, <1>2, <1>3, <1>4, <1>5, <1>6 DEF LegNext

LEMMA DebounceStep == LegTypes /\ DebounceInv /\ LegNext => DebounceInv'
<1> SUFFICES ASSUME LegTypes, DebounceInv, LegNext PROVE DebounceInv' OBVIOUS
<1>0. /\ IsDriver(resize) /\ clock \in 0 .. MaxClock /\ resize.due \in 0 .. NoTime
      /\ lastChange \in (0 .. MaxClock) \cup {NoTime} /\ profile' = profile
      /\ adaptive' = adaptive
    BY ProfileStays DEF LegTypes, adaptive
<1> USE DEF DebounceInv
<1>1. ASSUME NEW geometry \in Views, ViewResized(geometry) PROVE DebounceInv'
    <2>1. /\ resize'.geometry = geometry
          /\ resize'.due = IF resize.geometry # geometry /\ adaptive
                           THEN clock + RESIZE_DEBOUNCE ELSE resize.due
          /\ clock' = clock
          /\ lastChange' = IF resize.geometry = geometry THEN lastChange ELSE clock
        BY <1>0, <1>1, Geometry DEF ViewResized
    <2>2. CASE resize.geometry = geometry
        BY <1>0, <2>1, <2>2, SameWish
    <2>3. CASE resize.geometry # geometry
        BY <1>0, <2>1, <2>3, Instants
    <2> QED BY <2>2, <2>3
<1>2. CASE ConnectLeg \/ FollowRedirect \/ ConnectFailed \/ LegDies \/ ClickReleased
    <2>1. UNCHANGED <<resize, clock, lastChange>>
        BY <1>2 DEF ConnectLeg, FollowRedirect, Request, ConnectFailed, LegDies, ClickReleased
    <2> QED BY <1>0, <2>1, SameWish
<1>3. ASSUME NEW granted \in {asked, DefaultDesktop}, ActivateLeg(granted) PROVE DebounceInv'
    <2>1. /\ resize'.geometry = resize.geometry /\ resize'.due = resize.due
          /\ UNCHANGED <<clock, lastChange>>
        BY <1>0, <1>3, FreshLeg DEF ActivateLeg
    <2> QED BY <1>0, <2>1, SameWish
<1>4. ASSUME NEW area \in Areas, DisplayControlReady(area) PROVE DebounceInv'
    <2>1. /\ resize'.geometry = resize.geometry
          /\ resize'.due = IF Wants /\ resize.due = NoTime THEN clock ELSE resize.due
          /\ UNCHANGED <<clock, lastChange>>
        BY <1>0, <1>4, Ready DEF DisplayControlReady
    <2> QED BY <1>0, <2>1, SameWish
<1>5. CASE (\E encoded \in BOOLEAN : OnTick(encoded)) \/ OnTickWriteFails
    <2>1. /\ resize' = poll.driver /\ UNCHANGED <<clock, lastChange>>
        BY <1>5 DEF OnTick, OnTickWriteFails
    <2>2. /\ resize'.geometry = resize.geometry
          /\ \/ resize'.due = resize.due
             \/ resize'.due = NoTime /\ clock >= resize.due
        BY <2>1, Poll
    <2>3. Wants' = Wants BY <1>0, <2>2, SameWish
    <2>4. lastChange # NoTime /\ clock >= resize.due /\ resize.due >= lastChange + RESIZE_DEBOUNCE
          => clock >= lastChange + RESIZE_DEBOUNCE
        BY <1>0, Instants
    <2> QED BY <1>0, <2>1, <2>2, <2>3, <2>4
<1>6. CASE ClockTicks
    <2>1. resize' = resize /\ clock' = clock + 1 /\ lastChange' = lastChange
        BY <1>6 DEF ClockTicks
    <2>2. lastChange # NoTime /\ clock >= lastChange + RESIZE_DEBOUNCE
          => clock' >= lastChange + RESIZE_DEBOUNCE
        BY <1>0, <2>1, Instants
    <2> QED BY <1>0, <2>1, <2>2, SameWish
<1> QED BY <1>1, <1>2, <1>3, <1>4, <1>5, <1>6 DEF LegNext

LEMMA TypistStep == LegTypes /\ TypistInv /\ LegNext => TypistInv'
<1> SUFFICES ASSUME LegTypes, TypistInv, LegNext PROVE TypistInv' OBVIOUS
<1>0. /\ clock \in 0 .. MaxClock /\ typist \in [armed : BOOLEAN, due : 0 .. NoTime]
      /\ clicked \in (0 .. MaxClock) \cup {NoTime} /\ profile' = profile
    BY ProfileStays DEF LegTypes
<1> USE DEF TypistInv
<1>1. CASE \/ \E geometry \in Views : ViewResized(geometry)
           \/ \E area \in Areas : DisplayControlReady(area)
           \/ ClockTicks
    <2>1. UNCHANGED <<stage, typist, clicked, typed, profile>>
        BY <1>1 DEF ViewResized, DisplayControlReady, ClockTicks
    <2> QED BY <2>1 DEF Live
<1>2. CASE ConnectLeg \/ FollowRedirect \/ ConnectFailed \/ LegDies \/ OnTickWriteFails
    <2>1. ~Live'
        BY <1>2 DEF ConnectLeg, FollowRedirect, Request, ConnectFailed, LegDies,
                    OnTickWriteFails, Live
    <2> QED BY <2>1
<1>3. ASSUME NEW granted \in {asked, DefaultDesktop}, ActivateLeg(granted) PROVE TypistInv'
    <2>1. clicked' = NoTime /\ typed' = 0 /\ typist'.due = NoTime
        BY <1>3 DEF ActivateLeg, on_greeter, disarm
    <2>2. typist'.armed => stage' = "greeter" /\ profile.password
        BY <1>3 DEF ActivateLeg, on_greeter, disarm
    <2> QED BY <1>0, <2>1, <2>2
<1>4. CASE ClickReleased
    <2>1. /\ UNCHANGED <<stage, typed, profile>> /\ typist' = on_input
          /\ clicked' = IF clicked = NoTime THEN clock ELSE clicked
        BY <1>4 DEF ClickReleased
    <2>2. CASE typist.armed /\ typist.due = NoTime
        <3>1. typist'.due = clock + TYPE_DELAY /\ typist'.armed
            BY <1>0, <2>1, <2>2 DEF on_input
        <3> QED BY <1>0, <2>1, <2>2, <3>1, Instants DEF Live
    <2>3. CASE ~(typist.armed /\ typist.due = NoTime)
        <3>1. typist' = typist BY <2>1, <2>3 DEF on_input
        <3> QED BY <1>0, <2>1, <2>3, <3>1 DEF Live
    <2> QED BY <2>2, <2>3
<1>5. ASSUME NEW encoded \in BOOLEAN, OnTick(encoded) PROVE TypistInv'
    <2>1. /\ UNCHANGED <<stage, profile, clicked>>
          /\ typist' = IF Types THEN disarm ELSE typist
          /\ typed' = IF Types THEN typed + 1 ELSE typed
        BY <1>5 DEF OnTick
    <2> QED BY <2>1 DEF Live, disarm
<1> QED BY <1>1, <1>2, <1>3, <1>4, <1>5 DEF LegNext

LEMMA LegInvariant == LegSpec => []LegInv
<1>1. LegInv /\ [LegNext]_timerVars => LegInv'
    <2> SUFFICES ASSUME LegInv, [LegNext]_timerVars PROVE LegInv' OBVIOUS
    <2>1. LegTypes' BY TypesStay DEF LegInv
    <2>2. CASE LegNext
        BY <2>1, <2>2, DriverStep, DebounceStep, TypistStep DEF LegInv
    <2>3. CASE UNCHANGED timerVars
        <3>1. DriverInv'
            BY <2>3, SameWish DEF LegInv, DriverInv, timerVars, Live
        <3>2. DebounceInv'
            BY <2>3, SameWish DEF LegInv, DebounceInv, timerVars
        <3>3. TypistInv'
            BY <2>3 DEF LegInv, TypistInv, timerVars, Live
        <3> QED BY <2>1, <3>1, <3>2, <3>3 DEF LegInv
    <2> QED BY <2>2, <2>3
<1> QED BY <1>1, TypesAtFirst, PTL DEF LegSpec

--------------------------------------------------------------------------------
(* Once the channel is ready and no debounce runs, the server displays the
   layout of the view's last geometry, and that layout is within the server's
   own area cap if any is (resize.rs, layout.rs), in whatever order geometry,
   capabilities, redirects, reconnects and failing writes came. *)
THEOREM LastGeometryIsShown == LegSpec => []LayoutSettles
<1>1. LegInv => ShowsTheLastGeometry
    BY DEF LegInv, DriverInv, ShowsTheLastGeometry, Settled
<1>2. LegInv => FitsTheServer
    <2> SUFFICES ASSUME LegInv, Settled
                 PROVE  \/ display.width * display.height <= resize.caps.max_area
                        \/ resize.caps.max_area < MIN_MONITOR_DIMENSION * MIN_MONITOR_DIMENSION
        BY DEF FitsTheServer
    <2> DEFINE view == resize.geometry  a == resize.caps.max_area
               factor == IF profile.retina /\ view.hidpi THEN 2 ELSE 1
               size == fit_to_caps(to_pixels(view.width * factor), to_pixels(view.height * factor),
                                   a, <<0, 0>>)
    <2>1. a \in Nat BY LegAssumption DEF LegInv, LegTypes, Settled
    <2>2. view.width \in Int /\ view.height \in Int
        BY LegAssumption DEF LegInv, LegTypes, Settled, Wants
    <2>3. display = desired BY <1>1 DEF ShowsTheLastGeometry
    <2>4. display.width = size[1] /\ display.height = size[2]
        BY <2>3 DEF Settled, desired, desired_layout
    <2> HIDE DEF view, a
    <2>5. /\ to_pixels(view.width * factor) \in Int
          /\ to_pixels(view.height * factor) \in Int
        BY <2>2 DEF to_pixels
    <2> HIDE DEF factor
    <2>6. \/ size[1] * size[2] <= a
          \/ size = <<MIN_MONITOR_DIMENSION, MIN_MONITOR_DIMENSION>>
        BY <2>1, <2>5, LayoutsAreLegal
    <2> HIDE DEF size
    <2>7. size = <<MIN_MONITOR_DIMENSION, MIN_MONITOR_DIMENSION>> =>
            size[1] * size[2] <= a \/ a < MIN_MONITOR_DIMENSION * MIN_MONITOR_DIMENSION
        <3>1. MIN_MONITOR_DIMENSION * MIN_MONITOR_DIMENSION \in Nat BY PixelAssumption
        <3> QED BY <2>1, <3>1
    <2> QED BY <2>4, <2>6, <2>7 DEF a
<1> QED BY <1>1, <1>2, LegInvariant, PTL DEF LayoutSettles

(* The resize driver never sends a layout within the debounce of the last
   change, and the typist types the Linux password once on a leg, at the
   greeter, and not before its delay after a click of that leg (resize.rs,
   greeter.rs). *)
THEOREM TimersAreInTime == LegSpec => TimersFireInTime
<1>1. LegInv /\ [LegNext]_timerVars =>
        (Live /\ Live' /\ display' # display => clock >= lastChange + RESIZE_DEBOUNCE)
    <2> SUFFICES ASSUME LegInv, [LegNext]_timerVars, Live, Live', display' # display
                 PROVE  clock >= lastChange + RESIZE_DEBOUNCE
        OBVIOUS
    <2>1. /\ clock \in 0 .. MaxClock /\ resize.due \in 0 .. NoTime
          /\ lastChange \in (0 .. MaxClock) \cup {NoTime} /\ LegTypes
        BY DEF LegInv, LegTypes
    <2>2. poll.layout
        <3>1. PICK encoded \in BOOLEAN : OnTick(encoded)
            BY DEF LegNext, timerVars, ViewResized, ConnectLeg, FollowRedirect, Request, ConnectFailed,
                   ActivateLeg, DisplayControlReady, ClickReleased, OnTickWriteFails, LegDies,
                   ClockTicks, Live
        <3> QED BY <3>1 DEF OnTick
    <2>3. Wants /\ (resize.due = NoTime \/ clock >= resize.due) BY <2>1, <2>2, Poll
    <2>4. adaptive /\ lastChange # NoTime BY <2>3 DEF LegInv, DebounceInv, Wants
    <2>5. \/ clock >= lastChange + RESIZE_DEBOUNCE
          \/ resize.due # NoTime /\ resize.due >= lastChange + RESIZE_DEBOUNCE
        BY <2>4 DEF LegInv, DebounceInv
    <2> QED BY <2>1, <2>3, <2>4, <2>5, Instants
<1>2. LegInv /\ [LegNext]_timerVars =>
        (typed' > typed => /\ stage = "greeter" /\ profile.password /\ typed = 0
                           /\ clicked # NoTime /\ clock >= clicked + TYPE_DELAY)
    <2> SUFFICES ASSUME LegInv, [LegNext]_timerVars, typed' > typed
                 PROVE  /\ stage = "greeter" /\ profile.password /\ typed = 0
                        /\ clicked # NoTime /\ clock >= clicked + TYPE_DELAY
        OBVIOUS
    <2>1. /\ clock \in 0 .. MaxClock /\ typist \in [armed : BOOLEAN, due : 0 .. NoTime]
          /\ clicked \in (0 .. MaxClock) \cup {NoTime} /\ typed \in Nat
        BY DEF LegInv, LegTypes
    <2>2. typed' # typed BY <2>1
    <2>3. (\E encoded \in BOOLEAN : OnTick(encoded)) \/ \E granted \in {asked, DefaultDesktop} : ActivateLeg(granted)
        BY <2>2 DEF LegNext, timerVars, ViewResized, ConnectLeg, FollowRedirect, Request,
                    ConnectFailed, DisplayControlReady, ClickReleased, OnTickWriteFails,
                    LegDies, ClockTicks
    <2>4. PICK encoded \in BOOLEAN : OnTick(encoded) BY <2>1, <2>3 DEF ActivateLeg
    <2>5. Types /\ Live BY <2>2, <2>4 DEF OnTick
    <2> QED BY <2>1, <2>5, Instants DEF LegInv, TypistInv, Types
<1> QED BY <1>1, <1>2, LegInvariant, PTL
        DEF LegSpec, TimersFireInTime, BurstIsOneLayout, TypedOnlyAtTheGreeter

-----------------------------------------------------------------------------
(* Frame acknowledgement.                                                  *)

\* What the wake-up argument needs: every queued ack has a notification to come or the
\* permit it left.  A callback counts in notifying until its notify_one has run.
WakeInv ==
    /\ notifying \in Nat
    /\ NoLostWakeup

LEMMA WakeInit == Init => WakeInv
  BY DEF Init, WakeInv, NoLostWakeup

\* A callback queues an ack only together with the notification it is about to make.
LEMMA CallbackWakes ==
    ASSUME NEW frame, WakeInv, Callback(frame), permit' = permit
    PROVE  WakeInv'
<1>1. CASE frame.leg = leg /\ presented(frame)
  <2>1. notifying' = notifying + 1 \/ (notifying' = notifying /\ outbox' = outbox)
    BY <1>1 DEF presented
  <2> QED
    BY <2>1 DEF WakeInv, NoLostWakeup
<1>2. CASE frame.leg # leg /\ presentedStale
  <2>1. outbox' = outbox /\ (notifying' = notifying \/ notifying' = notifying + 1)
    BY <1>2 DEF presentedStale, acks
  <2> QED
    BY <2>1 DEF WakeInv, NoLostWakeup
<1> QED
  BY <1>1, <1>2 DEF Callback

LEMMA WakeStep == WakeInv /\ [Next]_vars => WakeInv'
<1> SUFFICES ASSUME WakeInv, [Next]_vars
             PROVE  WakeInv'
  OBVIOUS
<1>1. CASE ReadFrame
  BY <1>1 DEF ReadFrame, WakeInv, NoLostWakeup
<1>2. CASE Wake
  BY <1>2 DEF Wake, flush_acks, WakeInv, NoLostWakeup
<1>3. ASSUME NEW v \in BOOLEAN, SetVisible(v)
      PROVE  WakeInv'
  BY <1>3 DEF SetVisible, WakeInv, NoLostWakeup
<1>4. CASE NewLeg
  BY <1>4 DEF NewLeg, WakeInv, NoLostWakeup
<1>5. CASE RenderMessage
  BY <1>5 DEF RenderMessage, acks, WakeInv, NoLostWakeup
<1>6. CASE StopRendering
  BY <1>6 DEF StopRendering, acks, WakeInv, NoLostWakeup
<1>7. CASE Complete
  BY <1>7, CallbackWakes DEF Complete
<1>8. CASE RunDropped
  BY <1>8, CallbackWakes DEF RunDropped
<1>9. CASE NotifyOne
  BY <1>9 DEF NotifyOne, acks, WakeInv, NoLostWakeup
<1>10. CASE ServerTakesAck
  BY <1>10 DEF ServerTakesAck, acks, WakeInv, NoLostWakeup
<1>11. CASE UNCHANGED vars
  BY <1>11 DEF vars, WakeInv, NoLostWakeup
<1> QED
  BY <1>1, <1>2, <1>3, <1>4, <1>5, <1>6, <1>7, <1>8, <1>9, <1>10, <1>11 DEF Next

\* No lost wake-up (ack.rs:118 and the acks_ready branch of the actor's loop): the ack is
\* queued under the lock and the notifier called outside it, one permit stands for any number
\* of acks and callbacks of earlier legs wake the same actor, and still no queued ack is ever
\* without a wake-up that will flush it.
THEOREM NoWakeupIsLost == Spec => []NoLostWakeup
<1>1. Init => WakeInv
  BY WakeInit
<1>2. WakeInv /\ [Next]_vars => WakeInv'
  BY WakeStep
<1>3. WakeInv => NoLostWakeup
  BY DEF WakeInv
<1> QED
  BY <1>1, <1>2, <1>3, PTL DEF Spec

-----------------------------------------------------------------------------
\* suspend_sent remembers exactly whether a frame was presented since the hide, and the acks
\* queued since then are that one.  An outbox is hidden only while the session is, so hiding
\* always starts from a visible outbox and set_hidden clears the mark.
SuspendInv ==
    /\ visible \in BOOLEAN
    /\ hidden \in BOOLEAN
    /\ hidden => ~ visible
    /\ hiddenFrames \in Nat
    /\ hidden => hiddenAcks = IF suspend_sent THEN 1 ELSE 0
    /\ hidden => (suspend_sent <=> hiddenFrames # 0)

LEMMA SuspendInit == Init => SuspendInv
<1> SUFFICES ASSUME Init
             PROVE  SuspendInv
  OBVIOUS
<1>1. ~ hidden /\ hidden \in BOOLEAN /\ visible \in BOOLEAN /\ hiddenFrames \in Nat
  BY DEF Init
<1> QED
  BY <1>1 DEF SuspendInv

LEMMA CallbackSuspends ==
    ASSUME NEW frame, SuspendInv, Callback(frame), visible' = visible
    PROVE  SuspendInv'
<1>1. CASE frame.leg = leg /\ presented(frame)
  <2>1. CASE hidden /\ ~ suspend_sent
    BY <1>1, <2>1 DEF presented, SuspendInv
  <2>2. CASE hidden /\ suspend_sent
    BY <1>1, <2>2 DEF presented, SuspendInv
  <2>3. CASE ~ hidden
    BY <1>1, <2>3 DEF presented, SuspendInv
  <2> QED
    BY <2>1, <2>2, <2>3
<1>2. CASE frame.leg # leg /\ presentedStale
  BY <1>2 DEF presentedStale, acks, history, app, SuspendInv
<1> QED
  BY <1>1, <1>2 DEF Callback

LEMMA SuspendStep == SuspendInv /\ [Next]_vars => SuspendInv'
<1> SUFFICES ASSUME SuspendInv, [Next]_vars
             PROVE  SuspendInv'
  OBVIOUS
<1>1. CASE ReadFrame
  BY <1>1 DEF ReadFrame, history, app, SuspendInv
<1>2. CASE Wake
  BY <1>2 DEF Wake, history, app, SuspendInv
<1>3. ASSUME NEW v \in BOOLEAN, SetVisible(v)
      PROVE  SuspendInv'
  <2>1. /\ visible' = v /\ visible # v
        /\ hidden' = ~ v
        /\ hiddenFrames' = 0 /\ hiddenAcks' = 0
        /\ suspend_sent' = IF hidden # ~ v THEN FALSE ELSE suspend_sent
    BY <1>3 DEF SetVisible, set_hidden
  <2>2. CASE v
    BY <2>1, <2>2 DEF SuspendInv
  <2>3. CASE ~ v
    <3>1. visible /\ ~ hidden
      BY <2>1, <2>3 DEF SuspendInv
    <3>2. ~ suspend_sent' /\ hidden'
      BY <2>1, <2>3, <3>1
    <3> QED
      BY <2>1, <2>3, <3>2 DEF SuspendInv
  <2> QED
    BY <2>2, <2>3
<1>4. CASE NewLeg
  <2>1. ~ hidden' /\ hidden' \in BOOLEAN /\ visible' = visible /\ hiddenFrames' \in Nat
    BY <1>4 DEF NewLeg, app
  <2> QED
    BY <2>1 DEF SuspendInv
<1>5. CASE RenderMessage
  BY <1>5 DEF RenderMessage, acks, history, app, SuspendInv
<1>6. CASE StopRendering
  BY <1>6 DEF StopRendering, acks, history, app, SuspendInv
<1>7. CASE Complete
  BY <1>7, CallbackSuspends DEF Complete, app
<1>8. CASE RunDropped
  BY <1>8, CallbackSuspends DEF RunDropped, app
<1>9. CASE NotifyOne
  BY <1>9 DEF NotifyOne, acks, history, app, SuspendInv
<1>10. CASE ServerTakesAck
  BY <1>10 DEF ServerTakesAck, acks, history, app, SuspendInv
<1>11. CASE UNCHANGED vars
  BY <1>11 DEF vars, SuspendInv
<1> QED
  BY <1>1, <1>2, <1>3, <1>4, <1>5, <1>6, <1>7, <1>8, <1>9, <1>10, <1>11 DEF Next

\* SUSPEND once (ack.rs:14): however often the session is hidden and shown, on however many
\* legs, exactly the first frame presented after a hide is acknowledged.
THEOREM HiddenSuspendsOnce == Spec => []SuspendsOnce
<1>1. Init => SuspendInv
  BY SuspendInit
<1>2. SuspendInv /\ [Next]_vars => SuspendInv'
  BY SuspendStep
<1>3. SuspendInv => SuspendsOnce
  BY DEF SuspendInv, SuspendsOnce
<1> QED
  BY <1>1, <1>2, <1>3, PTL DEF Spec

-----------------------------------------------------------------------------
\* Type correctness: a Shutdown is queued once, so what is dropped behind it is frames.
OneShutdown ==
    \A i, j \in 1 .. Len(renderQueue) :
        renderQueue[i].type = "Shutdown" /\ renderQueue[j].type = "Shutdown" => i = j

Messages == Frames \cup [type : {"Shutdown"}]

\* The first elements of a queue.
LEMMA HeadAndTail ==
    ASSUME NEW S, NEW q \in Seq(S), q # << >>
    PROVE  /\ 1 \in 1 .. Len(q) /\ Head(q) = q[1] /\ Head(q) \in S
           /\ Tail(q) \in Seq(S) /\ Len(Tail(q)) = Len(q) - 1 /\ Len(q) \in Nat
           /\ \A i \in 1 .. Len(Tail(q)) : Tail(q)[i] = q[i + 1] /\ i + 1 \in 1 .. Len(q)
OBVIOUS

LEMMA Appended ==
    ASSUME NEW S, NEW q \in Seq(S), NEW x \in S
    PROVE  /\ Append(q, x) \in Seq(S) /\ Len(Append(q, x)) = Len(q) + 1 /\ Len(q) \in Nat
           /\ \A i \in 1 .. Len(q) : Append(q, x)[i] = q[i]
           /\ Append(q, x)[Len(q) + 1] = x
OBVIOUS

LEMMA AllAppended ==
    ASSUME NEW S, NEW q \in Seq(S), NEW x \in S, NEW G, x \in G, \A i \in 1 .. Len(q) : q[i] \in G
    PROVE  \A i \in 1 .. Len(Append(q, x)) : Append(q, x)[i] \in G
<1> DEFINE r == Append(q, x)
<1>1. /\ Len(r) = Len(q) + 1 /\ Len(q) \in Nat /\ \A i \in 1 .. Len(q) : r[i] = q[i]
      /\ r[Len(q) + 1] = x
  BY Appended
<1> HIDE DEF r
<1> QED
  BY <1>1 DEF r

LEMMA Concatenated ==
    ASSUME NEW S, NEW q \in Seq(S), NEW r \in Seq(S)
    PROVE  /\ q \o r \in Seq(S) /\ Len(q \o r) = Len(q) + Len(r)
           /\ Len(q) \in Nat /\ Len(r) \in Nat
           /\ \A i \in 1 .. Len(q) : (q \o r)[i] = q[i]
           /\ \A i \in 1 .. Len(r) : (q \o r)[Len(q) + i] = r[i]
OBVIOUS

LEMMA Retyped ==
    ASSUME NEW S, NEW q \in Seq(S), NEW T, \A i \in 1 .. Len(q) : q[i] \in T
    PROVE  q \in Seq(T)
<1>1. Len(q) \in Nat /\ q \in [1 .. Len(q) -> T]
  OBVIOUS
<1> QED
  BY <1>1

\* A message of the render thread is a frame or the shutdown.
LEMMA MessageTypes ==
    /\ \A m \in Messages : m.type = "EndFrame" => m \in Frames
    /\ \A m \in Messages : m.type # "EndFrame" => m.type = "Shutdown"
    /\ \A m \in Frames : m.type = "EndFrame" /\ m.id \in Nat /\ m.leg \in Nat /\ m \in Messages
    /\ [type |-> "Shutdown"] \in Messages
BY DEF Messages, Frames

\* What a callback leaves of the type invariant.
CallbackTypes ==
    /\ outbox \in Seq(Acks) /\ in_flight \in Nat /\ hidden \in BOOLEAN
    /\ suspend_sent \in BOOLEAN /\ notifying \in Nat
    /\ hiddenFrames \in Nat /\ hiddenAcks \in Nat

LEMMA CallbackType ==
    ASSUME FrameTypeOK, NEW frame \in Frames, Callback(frame)
    PROVE  CallbackTypes'
<1>t. /\ CallbackTypes /\ frame.id \in Nat /\ decoded \in Nat
  BY MessageTypes DEF FrameTypeOK, CallbackTypes
<1>1. CASE frame.leg = leg /\ presented(frame)
  <2>1. in_flight' \in Nat /\ hiddenFrames' \in Nat /\ hidden' \in BOOLEAN
    BY <1>1, <1>t DEF presented, CallbackTypes
  <2>2. Ack(frame.id, in_flight') \in Acks /\ Suspend(frame.id) \in Acks
    BY <1>t, <2>1 DEF Ack, Suspend, Acks
  <2>3. CASE ~ hidden
    BY <1>1, <1>t, <2>1, <2>2, <2>3 DEF presented, CallbackTypes
  <2>4. CASE hidden /\ ~ suspend_sent
    <3>1. suspend_sent' = TRUE /\ suspend_sent' \in BOOLEAN
      BY <1>1, <2>4 DEF presented
    <3>2. outbox' \in Seq(Acks) /\ notifying' \in Nat /\ hiddenAcks' \in Nat
      BY <1>1, <1>t, <2>2, <2>4 DEF presented, CallbackTypes
    <3> QED
      BY <2>1, <3>1, <3>2 DEF CallbackTypes
  <2>5. CASE hidden /\ suspend_sent
    BY <1>1, <1>t, <2>1, <2>5 DEF presented, CallbackTypes
  <2> QED
    BY <2>3, <2>4, <2>5
<1>2. CASE frame.leg # leg /\ presentedStale
  BY <1>2, <1>t DEF presentedStale, acks, history, CallbackTypes
<1> QED
  BY <1>1, <1>2 DEF Callback

FramesInv == FrameTypeOK /\ OneShutdown

LEMMA FramesInit == Init => FramesInv
<1> SUFFICES ASSUME Init PROVE FramesInv
  OBVIOUS
<1>1. /\ rendering \in BOOLEAN /\ hidden \in BOOLEAN /\ suspend_sent \in BOOLEAN
      /\ permit \in BOOLEAN /\ suspended \in BOOLEAN /\ visible \in BOOLEAN
  BY DEF Init
<1>2. /\ leg \in Nat /\ decoded \in Nat /\ in_flight \in Nat /\ notifying \in Nat
      /\ unacked \in SUBSET Nat /\ hiddenFrames \in Nat /\ hiddenAcks \in Nat /\ flips \in Nat
  BY DEF Init
<1>3. /\ renderQueue \in Seq(Messages) /\ gpu \in Seq(Frames) /\ dropped \in Seq(Frames)
      /\ outbox \in Seq(Acks) /\ wire \in Seq(Acks) /\ Len(renderQueue) = 0
  BY DEF Init
<1> QED
  BY <1>1, <1>2, <1>3 DEF FramesInv, FrameTypeOK, OneShutdown, Messages

LEMMA FramesStep == FramesInv /\ [Next]_vars => FramesInv'
<1> SUFFICES ASSUME FramesInv, [Next]_vars PROVE FramesInv'
  OBVIOUS
<1>t. FrameTypeOK /\ OneShutdown
  BY DEF FramesInv
<1>q. renderQueue \in Seq(Messages) /\ Len(renderQueue) \in Nat
  BY <1>t DEF FrameTypeOK, Messages
<1>s. UNCHANGED renderQueue => OneShutdown'
  BY <1>t DEF OneShutdown
<1> USE DEF acks, server, history, app
<1>1. CASE ReadFrame
  <2> DEFINE f == Frame(decoded + 1)
  <2>1. f \in Frames /\ f \in Messages /\ f.type = "EndFrame"
    BY <1>t DEF Frame, Frames, Messages, FrameTypeOK
  <2> HIDE DEF f
  <2>0. end_frame(f) /\ dropped \in Seq(Frames)
    BY <1>1, <1>t DEF ReadFrame, f, FrameTypeOK
  <2>2. renderQueue' \in Seq(Messages) /\ dropped' \in Seq(Frames)
    BY <1>q, <2>0, <2>1, Appended DEF end_frame
  <2>3. wire \o outbox \in Seq(Acks) /\ << >> \in Seq(Acks)
    BY <1>t, Concatenated DEF FrameTypeOK
  <2>4. FrameTypeOK'
    BY <1>1, <1>t, <2>2, <2>3 DEF ReadFrame, FrameTypeOK, Messages
  <2>5. CASE renderQueue' = Append(renderQueue, f)
    <3>1. \A i \in 1 .. Len(renderQueue') :
             renderQueue'[i].type = "Shutdown" => i \in 1 .. Len(renderQueue)
                                                  /\ renderQueue'[i] = renderQueue[i]
      BY <1>q, <2>1, <2>5, Appended
    <3> QED
      BY <1>t, <2>4, <3>1 DEF OneShutdown, FramesInv
  <2> QED
    BY <1>s, <2>0, <2>4, <2>5 DEF end_frame, FramesInv
<1>2. CASE Wake
  <2>1. wire \o outbox \in Seq(Acks) /\ << >> \in Seq(Acks)
    BY <1>t, Concatenated DEF FrameTypeOK
  <2> QED
    BY <1>2, <1>t, <1>s, <2>1 DEF Wake, flush_acks, FrameTypeOK, FramesInv
<1>3. ASSUME NEW v \in BOOLEAN, SetVisible(v) PROVE FramesInv'
  <2>1. visible' \in BOOLEAN /\ hidden' \in BOOLEAN /\ suspend_sent' \in BOOLEAN
    BY <1>3, <1>t DEF SetVisible, set_hidden, FrameTypeOK
  <2>2. flips' \in Nat /\ hiddenFrames' \in Nat /\ hiddenAcks' \in Nat
    BY <1>3, <1>t DEF SetVisible, FrameTypeOK
  <2> QED
    BY <1>3, <1>t, <1>s, <2>1, <2>2 DEF SetVisible, FrameTypeOK, FramesInv
<1>4. CASE NewLeg
  <2>1. hidden' \in BOOLEAN /\ suspend_sent' \in BOOLEAN /\ suspended' \in BOOLEAN
    BY <1>4 DEF NewLeg
  <2>2. /\ leg' \in Nat /\ decoded' \in Nat /\ in_flight' \in Nat /\ unacked' \in SUBSET Nat
        /\ hiddenFrames' \in Nat /\ hiddenAcks' \in Nat
        /\ outbox' \in Seq(Acks) /\ wire' \in Seq(Acks)
    BY <1>4, <1>t DEF NewLeg, FrameTypeOK
  <2> QED
    BY <1>4, <1>t, <1>s, <2>1, <2>2 DEF NewLeg, FrameTypeOK, FramesInv
<1>5. CASE RenderMessage
  <2> DEFINE h == Head(renderQueue)
             rest == Tail(renderQueue)
  <2>1. renderQueue # << >>
    BY <1>5 DEF RenderMessage
  <2>2. /\ h \in Messages /\ h = renderQueue[1] /\ 1 \in 1 .. Len(renderQueue)
        /\ rest \in Seq(Messages) /\ Len(rest) = Len(renderQueue) - 1
        /\ \A i \in 1 .. Len(rest) : rest[i] = renderQueue[i + 1] /\ i + 1 \in 1 .. Len(renderQueue)
    BY <1>q, <2>1, HeadAndTail
  <2>3. CASE h.type = "EndFrame"
    <3>1. gpu' = Append(gpu, h) /\ renderQueue' = rest /\ UNCHANGED << rendering, dropped >>
      BY <1>5, <2>3 DEF RenderMessage
    <3>2. gpu' \in Seq(Frames)
      BY <1>t, <2>2, <2>3, <3>1, MessageTypes DEF FrameTypeOK
    <3>3. FrameTypeOK'
      BY <1>5, <1>t, <2>2, <3>1, <3>2 DEF RenderMessage, FrameTypeOK, Messages
    <3>4. OneShutdown'
      BY <1>t, <1>q, <2>2, <3>1 DEF OneShutdown
    <3> QED
      BY <3>3, <3>4 DEF FramesInv
  <2>4. CASE h.type = "Shutdown"
    <3>1. /\ rendering' = FALSE /\ dropped' = dropped \o rest
          /\ renderQueue' = << >> /\ UNCHANGED gpu
      BY <1>5, <2>4 DEF RenderMessage
    <3>2. \A i \in 1 .. Len(rest) : rest[i] \in Frames
      <4> SUFFICES ASSUME NEW i \in 1 .. Len(rest) PROVE rest[i] \in Frames
        OBVIOUS
      <4>1. rest[i] = renderQueue[i + 1] /\ i + 1 \in 1 .. Len(renderQueue) /\ i + 1 # 1
        BY <2>2, <1>q
      <4>2. renderQueue[i + 1].type # "Shutdown" /\ renderQueue[i + 1] \in Messages
        BY <1>t, <1>q, <2>2, <2>4, <4>1 DEF OneShutdown
      <4> QED
        BY <4>1, <4>2, MessageTypes
    <3>3. rest \in Seq(Frames)
      BY <2>2, <3>2, Retyped
    <3>4. dropped' \in Seq(Frames) /\ renderQueue' \in Seq(Messages)
      BY <1>t, <3>1, <3>3, Concatenated DEF FrameTypeOK
    <3>5. FrameTypeOK'
      BY <1>5, <1>t, <3>1, <3>4 DEF RenderMessage, FrameTypeOK, Messages
    <3> QED
      BY <3>1, <3>5 DEF FramesInv, OneShutdown
  <2> QED
    BY <1>5, <2>3, <2>4 DEF RenderMessage
<1>6. CASE StopRendering
  <2>1. renderQueue' = Append(renderQueue, [type |-> "Shutdown"])
    BY <1>6 DEF StopRendering
  <2>2. renderQueue' \in Seq(Messages)
    BY <1>q, <2>1, MessageTypes
  <2>3. \A i \in 1 .. Len(renderQueue) : renderQueue[i].type # "Shutdown"
    BY <1>6, <1>q DEF StopRendering
  <2>4. OneShutdown'
    BY <1>q, <2>1, <2>3, MessageTypes, Appended DEF OneShutdown
  <2>5. FrameTypeOK'
    BY <1>6, <1>t, <2>2 DEF StopRendering, FrameTypeOK, Messages
  <2> QED
    BY <2>4, <2>5 DEF FramesInv
<1>7. CASE Complete
  <2>1. gpu # << >> /\ Callback(Head(gpu)) /\ gpu' = Tail(gpu)
    BY <1>7 DEF Complete
  <2>2. Head(gpu) \in Frames /\ Tail(gpu) \in Seq(Frames)
    BY <2>1, <1>t, HeadAndTail DEF FrameTypeOK
  <2>3. CallbackTypes'
    BY <1>t, <2>1, <2>2, CallbackType
  <2> QED
    BY <1>7, <1>t, <1>s, <2>1, <2>2, <2>3 DEF Complete, CallbackTypes, FrameTypeOK, FramesInv
<1>8. CASE RunDropped
  <2>1. dropped # << >> /\ Callback(Head(dropped)) /\ dropped' = Tail(dropped)
    BY <1>8 DEF RunDropped
  <2>2. Head(dropped) \in Frames /\ Tail(dropped) \in Seq(Frames)
    BY <2>1, <1>t, HeadAndTail DEF FrameTypeOK
  <2>3. CallbackTypes'
    BY <1>t, <2>1, <2>2, CallbackType
  <2> QED
    BY <1>8, <1>t, <1>s, <2>1, <2>2, <2>3 DEF RunDropped, CallbackTypes, FrameTypeOK, FramesInv
<1>9. CASE NotifyOne
  BY <1>9, <1>t, <1>s DEF NotifyOne, FrameTypeOK, FramesInv
<1>10. CASE ServerTakesAck
  <2>1. wire # << >> /\ Tail(wire) \in Seq(Acks)
    BY <1>10, <1>t, HeadAndTail DEF FrameTypeOK, ServerTakesAck
  <2>2. unacked' \in SUBSET Nat /\ suspended' \in BOOLEAN
    BY <1>10, <1>t DEF FrameTypeOK, ServerTakesAck
  <2> QED
    BY <1>10, <1>t, <1>s, <2>1, <2>2 DEF ServerTakesAck, FrameTypeOK, FramesInv
<1>11. CASE UNCHANGED vars
  BY <1>11, <1>t, <1>s DEF vars, FrameTypeOK, FramesInv
<1> QED
  BY <1>1, <1>2, <1>3, <1>4, <1>5, <1>6, <1>7, <1>8, <1>9, <1>10, <1>11 DEF Next

-----------------------------------------------------------------------------
(* Where the frames of a leg are.  Of a queue only the places that hold an   *)
(* element of C count: their number, and the frame ids they hold.            *)

Places(q, C) == {i \in 1 .. Len(q) : q[i] \in C}
Ids(q, C) == {q[i].id : i \in Places(q, C)}
Once(q, C) == \A i, j \in Places(q, C) : q[i].id = q[j].id => i = j
Count(q, C) == Cardinality(Places(q, C))

LEMMA PlacesFinite ==
    ASSUME NEW S, NEW q \in Seq(S), NEW C
    PROVE  IsFiniteSet(Places(q, C)) /\ Count(q, C) \in Nat
<1>1. Len(q) \in Nat /\ Len(q) \in Int /\ 1 \in Int
  OBVIOUS
<1>2. IsFiniteSet(1 .. Len(q)) /\ Places(q, C) \in SUBSET (1 .. Len(q))
  BY <1>1, FS_Interval DEF Places
<1>3. IsFiniteSet(Places(q, C))
  BY <1>2, FS_Subset
<1> QED
  BY <1>3, FS_CardinalityType DEF Count

LEMMA PlacesEmpty ==
    ASSUME NEW q, NEW C, \A i \in 1 .. Len(q) : q[i] \notin C
    PROVE  Ids(q, C) = {} /\ Once(q, C) /\ Count(q, C) = 0
<1>1. Places(q, C) = {}
  BY DEF Places
<1> QED
  BY <1>1, FS_EmptySet DEF Ids, Once, Count

LEMMA PlacesAppend ==
    ASSUME NEW S, NEW q \in Seq(S), NEW x \in S, NEW C
    PROVE  LET r == Append(q, x) IN
           /\ x \notin C => /\ Count(r, C) = Count(q, C) /\ Ids(r, C) = Ids(q, C)
                            /\ Once(q, C) => Once(r, C)
           /\ x \in C => /\ Count(r, C) = Count(q, C) + 1 /\ Ids(r, C) = Ids(q, C) \cup {x.id}
                         /\ Once(q, C) /\ x.id \notin Ids(q, C) => Once(r, C)
<1> DEFINE r == Append(q, x)
<1>1. /\ Len(q) \in Nat /\ Len(r) = Len(q) + 1 /\ r[Len(q) + 1] = x
      /\ \A i \in 1 .. Len(q) : r[i] = q[i]
  BY Appended
<1> HIDE DEF r
<1>2. \A i \in Places(q, C) : r[i] = q[i] /\ i # Len(q) + 1
  BY <1>1 DEF Places
<1>3. CASE x \notin C
  <2>1. Places(r, C) = Places(q, C)
    BY <1>1, <1>3 DEF Places
  <2> QED
    BY <1>2, <1>3, <2>1 DEF Count, Ids, Once, r
<1>4. CASE x \in C
  <2>1. Places(r, C) = Places(q, C) \cup {Len(q) + 1}
    BY <1>1, <1>4 DEF Places
  <2>2. Len(q) + 1 \notin Places(q, C)
    BY <1>1 DEF Places
  <2>3. Count(r, C) = Count(q, C) + 1
    BY <2>1, <2>2, PlacesFinite, FS_AddElement DEF Count
  <2>4. Ids(r, C) = Ids(q, C) \cup {x.id}
    BY <1>1, <1>2, <2>1 DEF Ids
  <2>5. ASSUME Once(q, C), x.id \notin Ids(q, C) PROVE Once(r, C)
    BY <1>1, <1>2, <2>1, <2>5 DEF Once, Ids
  <2> QED
    BY <1>4, <2>3, <2>4, <2>5 DEF r
<1> QED
  BY <1>3, <1>4

LEMMA PlacesTail ==
    ASSUME NEW S, NEW q \in Seq(S), q # << >>, NEW C
    PROVE  LET t == Tail(q)
               h == Head(q)
           IN
           /\ h \notin C => /\ Count(t, C) = Count(q, C) /\ Ids(t, C) = Ids(q, C)
                            /\ Once(q, C) => Once(t, C)
           /\ h \in C => /\ Count(q, C) = Count(t, C) + 1 /\ Ids(q, C) = Ids(t, C) \cup {h.id}
                         /\ Once(q, C) => Once(t, C) /\ h.id \notin Ids(t, C)
<1> DEFINE t == Tail(q)
           h == Head(q)
<1>1. /\ Len(q) \in Nat /\ Len(t) = Len(q) - 1 /\ h = q[1] /\ 1 \in 1 .. Len(q) /\ t \in Seq(S)
      /\ \A i \in 1 .. Len(t) : t[i] = q[i + 1] /\ i + 1 \in 1 .. Len(q)
  BY HeadAndTail
<1> HIDE DEF t, h
<1>2. \A i \in Places(t, C) : i \in Nat /\ t[i] = q[i + 1] /\ i + 1 \in Places(q, C) \ {1}
  BY <1>1 DEF Places
<1>3. \A j \in Places(q, C) \ {1} : j - 1 \in Places(t, C) /\ (j - 1) + 1 = j
  BY <1>1 DEF Places
<1>4. 1 \in Places(q, C) <=> h \in C
  BY <1>1 DEF Places
<1>5. Cardinality(Places(q, C) \ {1}) = Count(t, C)
  <2> DEFINE f == [i \in Places(t, C) |-> i + 1]
  <2>1. f \in Bijection(Places(t, C), Places(q, C) \ {1})
    <3>1. f \in [Places(t, C) -> Places(q, C) \ {1}]
      BY <1>2
    <3>2. \A i, j \in Places(t, C) : f[i] = f[j] => i = j
      BY <1>2
    <3>3. \A j \in Places(q, C) \ {1} : \E i \in Places(t, C) : f[i] = j
      BY <1>3
    <3> HIDE DEF f
    <3> QED
      BY <3>1, <3>2, <3>3 DEF Bijection, Injection, Surjection, IsInjective
  <2>2. ExistsBijection(Places(t, C), Places(q, C) \ {1})
    BY <2>1 DEF ExistsBijection
  <2>3. IsFiniteSet(Places(t, C))
    BY <1>1, PlacesFinite
  <2> QED
    BY <2>2, <2>3, FS_Bijection DEF Count
<1>6. Once(q, C) => Once(t, C)
  BY <1>2 DEF Once
<1>7. Ids(t, C) = {q[j].id : j \in Places(q, C) \ {1}}
  <2>1. \A i \in Places(t, C) : t[i].id = q[i + 1].id
    BY <1>2
  <2>2. Ids(t, C) \subseteq {q[j].id : j \in Places(q, C) \ {1}}
    BY <1>2, <2>1 DEF Ids
  <2>3. ASSUME NEW j \in Places(q, C) \ {1} PROVE q[j].id \in Ids(t, C)
    <3>1. t[j - 1] = q[j] /\ j - 1 \in Places(t, C)
      BY <1>2, <1>3
    <3> QED
      BY <3>1 DEF Ids
  <2> QED
    BY <2>2, <2>3
<1>8. CASE h \notin C
  <2>1. Places(q, C) \ {1} = Places(q, C)
    BY <1>4, <1>8
  <2> QED
    BY <1>5, <1>6, <1>7, <1>8, <2>1 DEF Count, Ids, t, h
<1>9. CASE h \in C
  <2>1. Count(q, C) = Count(t, C) + 1
    <3>1. IsFiniteSet(Places(q, C)) /\ Cardinality(Places(q, C)) \in Nat
      BY PlacesFinite DEF Count
    <3>2. Cardinality(Places(q, C) \ {1}) = Cardinality(Places(q, C)) - 1
      BY <1>4, <1>9, <3>1, FS_RemoveElement
    <3> QED
      BY <1>5, <3>1, <3>2 DEF Count
  <2>2. Ids(q, C) = Ids(t, C) \cup {h.id}
    BY <1>1, <1>4, <1>7, <1>9 DEF Ids
  <2>3. Once(q, C) => h.id \notin Ids(t, C)
    BY <1>1, <1>4, <1>7, <1>9 DEF Once
  <2> QED
    BY <1>6, <1>9, <2>1, <2>2, <2>3 DEF t, h
<1> QED
  BY <1>8, <1>9

LEMMA PlacesConcat ==
    ASSUME NEW S, NEW q \in Seq(S), NEW r \in Seq(S), NEW C
    PROVE  /\ Count(q \o r, C) = Count(q, C) + Count(r, C)
           /\ Ids(q \o r, C) = Ids(q, C) \cup Ids(r, C)
           /\ Once(q, C) /\ Once(r, C) /\ Ids(q, C) \cap Ids(r, C) = {} => Once(q \o r, C)
<1> DEFINE s == q \o r
           n == Len(q)
           moved == {n + i : i \in Places(r, C)}
<1>1. /\ n \in Nat /\ Len(r) \in Nat /\ Len(s) = n + Len(r)
      /\ \A i \in 1 .. n : s[i] = q[i]
      /\ \A i \in 1 .. Len(r) : s[n + i] = r[i]
  BY Concatenated
<1> HIDE DEF s, n
<1>2. \A i \in Places(q, C) : i \in Nat /\ i <= n /\ s[i] = q[i]
  BY <1>1 DEF Places, n
<1>3. \A i \in Places(r, C) : i \in Nat /\ i > 0 /\ s[n + i] = r[i]
  BY <1>1 DEF Places
<1>4. Places(s, C) = Places(q, C) \cup moved
  <2>1. Places(q, C) \cup moved \subseteq Places(s, C)
    BY <1>1 DEF Places, n
  <2>2. ASSUME NEW k \in Places(s, C) PROVE k \in Places(q, C) \cup moved
    <3>1. CASE k <= n
      BY <1>1, <3>1 DEF Places, n
    <3>2. CASE k > n
      <4>1. k - n \in 1 .. Len(r) /\ n + (k - n) = k
        BY <1>1, <3>2 DEF Places
      <4>2. k - n \in Places(r, C)
        BY <1>1, <4>1 DEF Places
      <4> QED
        BY <4>1, <4>2
    <3> QED
      BY <1>1, <3>1, <3>2 DEF Places
  <2> QED
    BY <2>1, <2>2
<1>5. Places(q, C) \cap moved = {}
  BY <1>1, <1>2, <1>3
<1>6. IsFiniteSet(moved) /\ Cardinality(moved) = Count(r, C)
  <2> DEFINE f == [i \in Places(r, C) |-> n + i]
  <2>1. f \in [Places(r, C) -> moved]
    OBVIOUS
  <2>2. \A i, j \in Places(r, C) : f[i] = f[j] => i = j
    BY <1>1, <1>3
  <2>3. \A k \in moved : \E i \in Places(r, C) : f[i] = k
    OBVIOUS
  <2> HIDE DEF f, moved
  <2>4. f \in Bijection(Places(r, C), moved)
    BY <2>1, <2>2, <2>3 DEF Bijection, Injection, Surjection, IsInjective
  <2>5. ExistsBijection(Places(r, C), moved)
    BY <2>4 DEF ExistsBijection
  <2>6. IsFiniteSet(Places(r, C))
    BY PlacesFinite
  <2> QED
    BY <2>5, <2>6, FS_Bijection DEF Count
<1>7. Count(s, C) = Count(q, C) + Count(r, C)
  <2>1. IsFiniteSet(Places(q, C)) /\ Count(q, C) \in Nat /\ Count(r, C) \in Nat
    BY PlacesFinite
  <2>2. Cardinality(Places(q, C) \cup moved)
          = Cardinality(Places(q, C)) + Cardinality(moved) - Cardinality({})
    BY <1>5, <1>6, <2>1, FS_Union
  <2> QED
    BY <1>4, <1>6, <2>1, <2>2, FS_EmptySet DEF Count
<1>8. Ids(s, C) = Ids(q, C) \cup Ids(r, C)
  BY <1>2, <1>3, <1>4 DEF Ids
<1>9. ASSUME Once(q, C), Once(r, C), Ids(q, C) \cap Ids(r, C) = {} PROVE Once(s, C)
  <2> SUFFICES ASSUME NEW i \in Places(s, C), NEW j \in Places(s, C), s[i].id = s[j].id
               PROVE  i = j
    BY DEF Once
  <2>1. CASE i \in Places(q, C) /\ j \in Places(q, C)
    BY <1>2, <1>9, <2>1 DEF Once
  <2>2. CASE i \in moved /\ j \in moved
    BY <1>3, <1>9, <2>2 DEF Once
  <2>3. \A k \in Places(q, C) : s[k].id \in Ids(q, C)
    BY <1>2 DEF Ids
  <2>4. \A k \in moved : s[k].id \in Ids(r, C)
    BY <1>3 DEF Ids
  <2> QED
    BY <1>4, <1>9, <2>1, <2>2, <2>3, <2>4
<1> QED
  BY <1>7, <1>8, <1>9 DEF s

-----------------------------------------------------------------------------
(* The acknowledgements.  A frame of the current leg is in one place only:   *)
(* waiting for the render thread, for the GPU or for CallOnDrop, or told to  *)
(* the server; its id is one the leg has used.                               *)

Mine == [type : {"EndFrame"}, leg : {leg}, id : Nat]
Told == wire \o outbox

Used == 1 .. decoded

Apart(a, b, c, d) ==
    /\ a \cap b = {} /\ a \cap c = {} /\ a \cap d = {}
    /\ b \cap c = {} /\ b \cap d = {} /\ c \cap d = {}

PlacedOnce ==
    /\ Once(renderQueue, Mine) /\ Once(gpu, Mine) /\ Once(dropped, Mine) /\ Once(Told, Acks)
    /\ Apart(Ids(renderQueue, Mine), Ids(gpu, Mine), Ids(dropped, Mine), Ids(Told, Acks))
    /\ Ids(renderQueue, Mine) \subseteq Used /\ Ids(gpu, Mine) \subseteq Used
    /\ Ids(dropped, Mine) \subseteq Used /\ Ids(Told, Acks) \subseteq Used

Counted == in_flight = Count(renderQueue, Mine) + Count(gpu, Mine) + Count(dropped, Mine)

\* No queue holds a frame of a leg that is still to come.
NoneFromLater ==
    /\ \A i \in 1 .. Len(renderQueue) : renderQueue[i] \in Frames => renderQueue[i].leg <= leg
    /\ \A i \in 1 .. Len(gpu) : gpu[i].leg <= leg
    /\ \A i \in 1 .. Len(dropped) : dropped[i].leg <= leg

HonestInv == PlacedOnce /\ Counted /\ NoneFromLater

LEMMA MineIsMine ==
    ASSUME FrameTypeOK
    PROVE  /\ leg' = leg => Mine' = Mine
           /\ \A m \in Messages : m \in Mine <=> m.type = "EndFrame" /\ m.leg = leg
           /\ Mine \subseteq Frames
BY DEF Mine, Messages, Frames, FrameTypeOK

LEMMA ToldType ==
    ASSUME FrameTypeOK
    PROVE  /\ Told \in Seq(Acks) /\ wire \in Seq(Acks) /\ outbox \in Seq(Acks)
           /\ wire \o outbox = Told /\ Told \o << >> = Told
BY DEF FrameTypeOK, Told

LEMMA HonestKept ==
    ASSUME FrameTypeOK, HonestInv, Told' = Told,
           UNCHANGED << leg, decoded, renderQueue, gpu, dropped, in_flight >>
    PROVE  HonestInv'
<1>1. Mine' = Mine
  BY MineIsMine
<1> QED
  BY <1>1 DEF HonestInv, PlacedOnce, Counted, NoneFromLater, Used

\* A callback of the current leg counts its frame down and tells the server of no other.
LEMMA CallbackTells ==
    ASSUME FrameTypeOK, NEW frame \in Frames, Callback(frame), wire' = wire
    PROVE  /\ frame \in Mine =>
                 /\ in_flight' = IF in_flight = 0 THEN 0 ELSE in_flight - 1
                 /\ \/ Told' = Told
                    \/ \E a \in Acks : a.id = frame.id /\ Told' = Append(Told, a)
           /\ frame \notin Mine => in_flight' = in_flight /\ Told' = Told
<1>t. /\ wire \in Seq(Acks) /\ outbox \in Seq(Acks) /\ in_flight \in Nat /\ decoded \in Nat
      /\ frame.id \in Nat /\ (frame \in Mine <=> frame.leg = leg)
  BY MineIsMine, MessageTypes DEF FrameTypeOK
<1>1. CASE frame.leg = leg /\ presented(frame)
  <2>1. in_flight' = (IF in_flight = 0 THEN 0 ELSE in_flight - 1) /\ in_flight' \in Nat
    BY <1>1, <1>t DEF presented
  <2>2. \/ outbox' = outbox
        \/ outbox' = Append(outbox, Ack(frame.id, in_flight'))
        \/ outbox' = Append(outbox, Suspend(frame.id))
    BY <1>1 DEF presented
  <2>3. /\ Ack(frame.id, in_flight') \in Acks /\ Ack(frame.id, in_flight').id = frame.id
        /\ Suspend(frame.id) \in Acks /\ Suspend(frame.id).id = frame.id
    BY <1>t, <2>1 DEF Ack, Suspend, Acks
  <2>4. \A a \in Acks : wire \o Append(outbox, a) = Append(Told, a)
    BY <1>t DEF Told
  <2>5. \/ Told' = Told
        \/ \E a \in Acks : a.id = frame.id /\ Told' = Append(Told, a)
    BY <2>2, <2>3, <2>4 DEF Told
  <2> QED
    BY <1>1, <1>t, <2>1, <2>5
<1>2. CASE frame.leg # leg /\ presentedStale
  BY <1>2, <1>t DEF presentedStale, acks, Told
<1> QED
  BY <1>1, <1>2 DEF Callback

\* The oldest element of q, a queue of frames, is called back.
LEMMA CallbackIsHonest ==
    ASSUME FrameTypeOK, NEW q \in Seq(Frames), q # << >>, Callback(Head(q)), wire' = wire,
           NEW others, NEW n \in Nat,
           Once(q, Mine), Once(Told, Acks),
           Ids(q, Mine) \cap Ids(Told, Acks) = {}, Ids(q, Mine) \cap others = {},
           Ids(Told, Acks) \cap others = {},
           Ids(q, Mine) \subseteq Used, Ids(Told, Acks) \subseteq Used,
           in_flight = Count(q, Mine) + n
    PROVE  /\ Once(Tail(q), Mine) /\ Once(Told', Acks)
           /\ Ids(Tail(q), Mine) \cap Ids(Told', Acks) = {}
           /\ Ids(Tail(q), Mine) \cap others = {} /\ Ids(Told', Acks) \cap others = {}
           /\ Ids(Tail(q), Mine) \subseteq Used /\ Ids(Told', Acks) \subseteq Used
           /\ in_flight' = Count(Tail(q), Mine) + n
<1> DEFINE h == Head(q)
           t == Tail(q)
<1>1. h \in Frames /\ t \in Seq(Frames) /\ Told \in Seq(Acks)
  BY HeadAndTail, ToldType
<1>2. Count(t, Mine) \in Nat
  BY <1>1, PlacesFinite
<1>3. /\ h \in Mine =>
           /\ in_flight' = IF in_flight = 0 THEN 0 ELSE in_flight - 1
           /\ \/ Told' = Told
              \/ \E a \in Acks : a.id = h.id /\ Told' = Append(Told, a)
      /\ h \notin Mine => in_flight' = in_flight /\ Told' = Told
  BY <1>1, CallbackTells
<1>4. /\ h \notin Mine => /\ Count(t, Mine) = Count(q, Mine) /\ Ids(t, Mine) = Ids(q, Mine)
                          /\ Once(q, Mine) => Once(t, Mine)
      /\ h \in Mine => /\ Count(q, Mine) = Count(t, Mine) + 1
                       /\ Ids(q, Mine) = Ids(t, Mine) \cup {h.id}
                       /\ Once(q, Mine) => Once(t, Mine) /\ h.id \notin Ids(t, Mine)
  BY PlacesTail
<1> HIDE DEF h, t
<1>5. CASE h \notin Mine
  BY <1>3, <1>4, <1>5 DEF t
<1>6. CASE h \in Mine
  <2>1. in_flight' = Count(t, Mine) + n
    BY <1>2, <1>3, <1>4, <1>6
  <2>2. h.id \notin Ids(Told, Acks) /\ h.id \in Used /\ h.id \notin others
    BY <1>4, <1>6
  <2>3. Once(Told', Acks) /\ Ids(Told', Acks) \subseteq Ids(Told, Acks) \cup {h.id}
    <3>1. ASSUME NEW a \in Acks, a.id = h.id, Told' = Append(Told, a)
          PROVE  Once(Told', Acks) /\ Ids(Told', Acks) \subseteq Ids(Told, Acks) \cup {h.id}
      BY <1>1, <2>2, <3>1, PlacesAppend
    <3> QED
      BY <1>3, <1>6, <3>1
  <2> QED
    BY <1>4, <1>6, <2>1, <2>2, <2>3 DEF t
<1> QED
  BY <1>5, <1>6

\* The server's end of the wire.
LEMMA ToldTail ==
    ASSUME FrameTypeOK, wire # << >>
    PROVE  Told # << >> /\ Tail(wire) \o outbox = Tail(Told)
<1>1. wire \in Seq(Acks) /\ outbox \in Seq(Acks)
  BY DEF FrameTypeOK
<1> QED
  BY <1>1 DEF Told

LEMMA HonestInit == Init => HonestInv
<1> SUFFICES ASSUME Init PROVE HonestInv
  OBVIOUS
<1>1. /\ Len(renderQueue) = 0 /\ Len(gpu) = 0 /\ Len(dropped) = 0 /\ Len(Told) = 0
      /\ in_flight = 0
  BY DEF Init, Told
<1>2. /\ Ids(renderQueue, Mine) = {} /\ Once(renderQueue, Mine) /\ Count(renderQueue, Mine) = 0
      /\ Ids(gpu, Mine) = {} /\ Once(gpu, Mine) /\ Count(gpu, Mine) = 0
      /\ Ids(dropped, Mine) = {} /\ Once(dropped, Mine) /\ Count(dropped, Mine) = 0
      /\ Ids(Told, Acks) = {} /\ Once(Told, Acks)
  BY <1>1, PlacesEmpty
<1> QED
  BY <1>1, <1>2 DEF HonestInv, PlacedOnce, Apart, Counted, NoneFromLater

LEMMA HonestStep ==
    ASSUME FramesInv, HonestInv, [Next]_vars
    PROVE  HonestInv'
<1>t. /\ FrameTypeOK /\ leg \in Nat /\ decoded \in Nat /\ in_flight \in Nat
      /\ renderQueue \in Seq(Messages) /\ gpu \in Seq(Frames) /\ dropped \in Seq(Frames)
      /\ Told \in Seq(Acks)
  BY ToldType DEF FramesInv, FrameTypeOK, Messages
<1>m. leg' = leg => Mine' = Mine
  BY <1>t, MineIsMine
<1>c. /\ Count(renderQueue, Mine) \in Nat /\ Count(gpu, Mine) \in Nat
      /\ Count(dropped, Mine) \in Nat
  BY <1>t, PlacesFinite
<1>h. PlacedOnce /\ Counted /\ NoneFromLater
  BY DEF HonestInv
<1> USE DEF acks, server, history, app
<1>1. CASE ReadFrame
  <2> DEFINE f == Frame(decoded + 1)
  <2>1. /\ f \in Frames /\ f \in Messages /\ f \in Mine /\ f.id = decoded + 1 /\ f.leg = leg
    BY <1>t DEF Frame, Frames, Messages, Mine
  <2> HIDE DEF f
  <2>2. /\ end_frame(f) /\ leg' = leg /\ decoded' = decoded + 1 /\ in_flight' = in_flight + 1
        /\ gpu' = gpu /\ Told' = Told /\ Mine' = Mine
    BY <1>1, <1>t, <1>m, ToldType DEF ReadFrame, f, Told
  <2>3. f.id \notin Used /\ Used \subseteq Used' /\ f.id \in Used'
    BY <1>t, <2>1, <2>2 DEF Used
  <2>4. CASE rendering /\ renderQueue' = Append(renderQueue, f) /\ dropped' = dropped
    <3>1. /\ Count(renderQueue', Mine) = Count(renderQueue, Mine) + 1
          /\ Ids(renderQueue', Mine) = Ids(renderQueue, Mine) \cup {f.id}
          /\ Once(renderQueue, Mine) /\ f.id \notin Ids(renderQueue, Mine) => Once(renderQueue', Mine)
      BY <1>t, <2>1, <2>4, PlacesAppend
    <3>2. PlacedOnce'
      BY <1>h, <2>2, <2>3, <2>4, <3>1 DEF PlacedOnce, Apart
    <3>3. Counted'
      BY <1>h, <1>c, <2>2, <2>4, <3>1 DEF Counted
    <3>4. NoneFromLater'
      <4> DEFINE G == {m \in Messages : m \in Frames => m.leg <= leg}
      <4>1. f \in G /\ \A i \in 1 .. Len(renderQueue) : renderQueue[i] \in G
        BY <1>h, <1>t, <2>1 DEF NoneFromLater
      <4> HIDE DEF G
      <4>2. \A i \in 1 .. Len(renderQueue') : renderQueue'[i] \in G
        BY <1>t, <2>1, <2>4, <4>1, AllAppended
      <4>3. \A i \in 1 .. Len(renderQueue') : renderQueue'[i] \in Frames => renderQueue'[i].leg <= leg
        BY <4>2 DEF G
      <4> QED
        BY <1>h, <2>2, <2>4, <4>3 DEF NoneFromLater
    <3> QED
      BY <3>2, <3>3, <3>4 DEF HonestInv
  <2>5. CASE ~ rendering /\ dropped' = Append(dropped, f) /\ renderQueue' = renderQueue
    <3>1. /\ Count(dropped', Mine) = Count(dropped, Mine) + 1
          /\ Ids(dropped', Mine) = Ids(dropped, Mine) \cup {f.id}
          /\ Once(dropped, Mine) /\ f.id \notin Ids(dropped, Mine) => Once(dropped', Mine)
      BY <1>t, <2>1, <2>5, PlacesAppend
    <3>2. PlacedOnce'
      BY <1>h, <2>2, <2>3, <2>5, <3>1 DEF PlacedOnce, Apart
    <3>3. Counted'
      BY <1>h, <1>c, <2>2, <2>5, <3>1 DEF Counted
    <3>4. NoneFromLater'
      <4> DEFINE G == {m \in Frames : m.leg <= leg}
      <4>1. f \in G /\ \A i \in 1 .. Len(dropped) : dropped[i] \in G
        BY <1>h, <1>t, <2>1 DEF NoneFromLater
      <4> HIDE DEF G
      <4>2. \A i \in 1 .. Len(dropped') : dropped'[i] \in G
        BY <1>t, <2>1, <2>5, <4>1, AllAppended
      <4>3. \A i \in 1 .. Len(dropped') : dropped'[i].leg <= leg
        BY <4>2 DEF G
      <4> QED
        BY <1>h, <2>2, <2>5, <4>3 DEF NoneFromLater
    <3> QED
      BY <3>2, <3>3, <3>4 DEF HonestInv
  <2> QED
    BY <2>2, <2>4, <2>5 DEF end_frame
<1>2. CASE Wake
  <2>1. Told' = Told
    BY <1>2, <1>t, ToldType DEF Wake, flush_acks, Told
  <2> QED
    BY <1>2, <1>t, <2>1, HonestKept DEF Wake
<1>3. ASSUME NEW v \in BOOLEAN, SetVisible(v) PROVE HonestInv'
  BY <1>3, <1>t, HonestKept DEF SetVisible, Told
<1>4. CASE NewLeg
  <2>1. /\ leg' = leg + 1 /\ Told' = << >> /\ in_flight' = 0
        /\ UNCHANGED << renderQueue, gpu, dropped >>
    BY <1>4 DEF NewLeg, Told
  <2>2. \A m \in Mine' : m \in Frames /\ ~ (m.leg <= leg)
    <3>1. \A m \in Mine' : m \in Frames /\ m.leg = leg + 1
      BY <1>t, <2>1 DEF Mine, Frames
    <3> QED
      BY <1>t, <3>1
  <2>3. /\ \A i \in 1 .. Len(renderQueue) : renderQueue[i] \notin Mine'
        /\ \A i \in 1 .. Len(gpu) : gpu[i] \notin Mine'
        /\ \A i \in 1 .. Len(dropped) : dropped[i] \notin Mine'
    BY <1>h, <2>2 DEF NoneFromLater
  <2>4. /\ Ids(renderQueue, Mine') = {} /\ Once(renderQueue, Mine') /\ Count(renderQueue, Mine') = 0
        /\ Ids(gpu, Mine') = {} /\ Once(gpu, Mine') /\ Count(gpu, Mine') = 0
        /\ Ids(dropped, Mine') = {} /\ Once(dropped, Mine') /\ Count(dropped, Mine') = 0
    BY <2>3, PlacesEmpty
  <2>5. Ids(Told', Acks) = {} /\ Once(Told', Acks)
    BY <2>1, PlacesEmpty
  <2>6. NoneFromLater'
    <3>1. \A l \in Nat : l <= leg => l <= leg'
      BY <1>t, <2>1
    <3>2. /\ \A i \in 1 .. Len(gpu) : gpu[i] \in Frames
          /\ \A i \in 1 .. Len(dropped) : dropped[i] \in Frames
      BY <1>t
    <3> QED
      BY <1>h, <2>1, <3>1, <3>2, MessageTypes DEF NoneFromLater
  <2> QED
    BY <2>1, <2>4, <2>5, <2>6 DEF HonestInv, PlacedOnce, Apart, Counted
<1>5. CASE RenderMessage
  <2> DEFINE h == Head(renderQueue)
             rest == Tail(renderQueue)
  <2>1. renderQueue # << >> /\ UNCHANGED << leg, decoded, in_flight, outbox, wire >>
    BY <1>5 DEF RenderMessage
  <2>2. Mine' = Mine /\ Told' = Told /\ Used' = Used
    BY <1>m, <2>1 DEF Told, Used
  <2>3. /\ h \in Messages /\ h = renderQueue[1] /\ 1 \in 1 .. Len(renderQueue)
        /\ rest \in Seq(Messages)
        /\ \A i \in 1 .. Len(rest) : rest[i] = renderQueue[i + 1] /\ i + 1 \in 1 .. Len(renderQueue)
    BY <1>t, <2>1, HeadAndTail
  <2>4. /\ h \notin Mine => /\ Count(rest, Mine) = Count(renderQueue, Mine)
                            /\ Ids(rest, Mine) = Ids(renderQueue, Mine)
                            /\ Once(renderQueue, Mine) => Once(rest, Mine)
        /\ h \in Mine => /\ Count(renderQueue, Mine) = Count(rest, Mine) + 1
                         /\ Ids(renderQueue, Mine) = Ids(rest, Mine) \cup {h.id}
                         /\ Once(renderQueue, Mine) => Once(rest, Mine) /\ h.id \notin Ids(rest, Mine)
    BY <1>t, <2>1, PlacesTail
  <2>5. Count(rest, Mine) \in Nat
    BY <2>3, PlacesFinite
  <2>6. \A i \in 1 .. Len(rest) : rest[i] \in Frames => rest[i].leg <= leg
    BY <1>h, <2>3 DEF NoneFromLater
  <2>7. h \in Frames => h.leg <= leg
    BY <1>h, <2>3 DEF NoneFromLater
  <2>8. CASE h.type = "EndFrame"
    <3>1. gpu' = Append(gpu, h) /\ renderQueue' = rest /\ dropped' = dropped /\ h \in Frames
      BY <1>5, <2>3, <2>8, MessageTypes DEF RenderMessage
    <3> HIDE DEF h, rest
    <3>2. /\ h \notin Mine => /\ Count(gpu', Mine) = Count(gpu, Mine) /\ Ids(gpu', Mine) = Ids(gpu, Mine)
                              /\ Once(gpu, Mine) => Once(gpu', Mine)
          /\ h \in Mine => /\ Count(gpu', Mine) = Count(gpu, Mine) + 1
                           /\ Ids(gpu', Mine) = Ids(gpu, Mine) \cup {h.id}
                           /\ Once(gpu, Mine) /\ h.id \notin Ids(gpu, Mine) => Once(gpu', Mine)
      BY <1>t, <3>1, PlacesAppend
    <3>3. PlacedOnce'
      BY <1>h, <2>2, <2>4, <3>1, <3>2 DEF PlacedOnce, Apart
    <3>4. Counted'
      BY <1>h, <1>c, <2>1, <2>2, <2>4, <2>5, <3>1, <3>2 DEF Counted
    <3>5. \A i \in 1 .. Len(gpu') : gpu'[i].leg <= leg
      <4> DEFINE G == {m \in Frames : m.leg <= leg}
      <4>1. h \in G /\ \A i \in 1 .. Len(gpu) : gpu[i] \in G
        BY <1>h, <1>t, <2>7, <3>1 DEF NoneFromLater
      <4> HIDE DEF G
      <4>2. \A i \in 1 .. Len(gpu') : gpu'[i] \in G
        BY <1>t, <3>1, <4>1, AllAppended
      <4> QED
        BY <4>2 DEF G
    <3>6. NoneFromLater'
      BY <1>h, <2>1, <2>6, <3>1, <3>5 DEF NoneFromLater
    <3> QED
      BY <3>3, <3>4, <3>6 DEF HonestInv
  <2>9. CASE h.type = "Shutdown"
    <3>1. /\ dropped' = dropped \o rest /\ renderQueue' = << >> /\ gpu' = gpu
      BY <1>5, <2>9 DEF RenderMessage
    <3>2. h \notin Mine
      BY <2>9 DEF Mine
    <3>3. rest \in Seq(Frames)
      <4> SUFFICES ASSUME NEW i \in 1 .. Len(rest) PROVE rest[i] \in Frames
        BY <2>3, Retyped
      <4>1. rest[i] = renderQueue[i + 1] /\ i + 1 \in 1 .. Len(renderQueue) /\ i + 1 # 1
        BY <2>3, <1>t
      <4>2. renderQueue[i + 1].type # "Shutdown" /\ renderQueue[i + 1] \in Messages
        BY <1>t, <2>3, <2>9, <4>1 DEF FramesInv, OneShutdown
      <4> QED
        BY <4>1, <4>2, MessageTypes
    <3> HIDE DEF h, rest
    <3>4. /\ Count(dropped', Mine) = Count(dropped, Mine) + Count(rest, Mine)
          /\ Ids(dropped', Mine) = Ids(dropped, Mine) \cup Ids(rest, Mine)
          /\ Once(dropped, Mine) /\ Once(rest, Mine) /\ Ids(dropped, Mine) \cap Ids(rest, Mine) = {}
                => Once(dropped', Mine)
      BY <1>t, <3>1, <3>3, PlacesConcat
    <3>5. /\ Ids(renderQueue', Mine) = {} /\ Once(renderQueue', Mine) /\ Count(renderQueue', Mine) = 0
      BY <3>1, PlacesEmpty
    <3>6. PlacedOnce'
      BY <1>h, <2>2, <2>4, <3>1, <3>2, <3>4, <3>5 DEF PlacedOnce, Apart
    <3>7. Counted'
      BY <1>h, <1>c, <2>1, <2>2, <2>4, <2>5, <3>1, <3>2, <3>4, <3>5 DEF Counted
    <3>8. \A i \in 1 .. Len(dropped') : dropped'[i].leg <= leg
      <4>1. /\ Len(dropped') = Len(dropped) + Len(rest) /\ Len(dropped) \in Nat /\ Len(rest) \in Nat
            /\ \A i \in 1 .. Len(dropped) : dropped'[i] = dropped[i]
            /\ \A i \in 1 .. Len(rest) : dropped'[Len(dropped) + i] = rest[i] /\ rest[i].leg <= leg
        BY <1>t, <2>6, <3>1, <3>3, Concatenated
      <4> SUFFICES ASSUME NEW i \in 1 .. Len(dropped') PROVE dropped'[i].leg <= leg
        OBVIOUS
      <4>2. CASE i <= Len(dropped)
        BY <1>h, <4>1, <4>2 DEF NoneFromLater
      <4>3. CASE i > Len(dropped)
        <5>1. i - Len(dropped) \in 1 .. Len(rest) /\ Len(dropped) + (i - Len(dropped)) = i
          BY <4>1, <4>3
        <5> QED
          BY <4>1, <5>1
      <4> QED
        BY <4>1, <4>2, <4>3
    <3>9. NoneFromLater'
      BY <1>h, <2>1, <3>1, <3>8 DEF NoneFromLater
    <3> QED
      BY <3>6, <3>7, <3>9 DEF HonestInv
  <2> QED
    BY <1>5, <2>8, <2>9 DEF RenderMessage
<1>6. CASE StopRendering
  <2> DEFINE x == [type |-> "Shutdown"]
  <2>1. /\ renderQueue' = Append(renderQueue, x) /\ x \in Messages /\ x \notin Mine /\ x \notin Frames
        /\ UNCHANGED << leg, decoded, in_flight, outbox, wire, gpu, dropped >>
    BY <1>6, MessageTypes DEF StopRendering, Mine, Frames
  <2> HIDE DEF x
  <2>2. Mine' = Mine /\ Told' = Told /\ Used' = Used
    BY <1>m, <2>1 DEF Told, Used
  <2>3. /\ Count(renderQueue', Mine) = Count(renderQueue, Mine)
        /\ Ids(renderQueue', Mine) = Ids(renderQueue, Mine)
        /\ Once(renderQueue, Mine) => Once(renderQueue', Mine)
    BY <1>t, <2>1, PlacesAppend
  <2>4. NoneFromLater'
    <3> DEFINE G == {m \in Messages : m \in Frames => m.leg <= leg}
    <3>1. x \in G /\ \A i \in 1 .. Len(renderQueue) : renderQueue[i] \in G
      BY <1>h, <1>t, <2>1 DEF NoneFromLater
    <3> HIDE DEF G
    <3>2. \A i \in 1 .. Len(renderQueue') : renderQueue'[i] \in G
      BY <1>t, <2>1, <3>1, AllAppended
    <3>3. \A i \in 1 .. Len(renderQueue') : renderQueue'[i] \in Frames => renderQueue'[i].leg <= leg
      BY <3>2 DEF G
    <3> QED
      BY <1>h, <2>1, <3>3 DEF NoneFromLater
  <2> QED
    BY <1>h, <2>1, <2>2, <2>3, <2>4 DEF HonestInv, PlacedOnce, Counted
<1>7. CASE Complete
  <2>1. /\ gpu # << >> /\ Callback(Head(gpu)) /\ gpu' = Tail(gpu) /\ wire' = wire
        /\ UNCHANGED << leg, decoded, renderQueue, dropped >>
    BY <1>7 DEF Complete
  <2>2. Mine' = Mine /\ Used' = Used
    BY <1>m, <2>1 DEF Used
  <2> DEFINE others == Ids(renderQueue, Mine) \cup Ids(dropped, Mine)
             n == Count(renderQueue, Mine) + Count(dropped, Mine)
  <2>3. n \in Nat /\ in_flight = Count(gpu, Mine) + n
    BY <1>c, <1>h DEF Counted
  <2>4. /\ Ids(gpu, Mine) \cap others = {} /\ Ids(Told, Acks) \cap others = {}
        /\ Ids(gpu, Mine) \cap Ids(Told, Acks) = {} /\ Once(gpu, Mine) /\ Once(Told, Acks)
        /\ Ids(gpu, Mine) \subseteq Used /\ Ids(Told, Acks) \subseteq Used
    BY <1>h DEF PlacedOnce, Apart
  <2> HIDE DEF others, n
  <2>5. /\ Once(gpu', Mine) /\ Once(Told', Acks)
        /\ Ids(gpu', Mine) \cap Ids(Told', Acks) = {}
        /\ Ids(gpu', Mine) \cap others = {} /\ Ids(Told', Acks) \cap others = {}
        /\ Ids(gpu', Mine) \subseteq Used /\ Ids(Told', Acks) \subseteq Used
        /\ in_flight' = Count(gpu', Mine) + n
    BY <1>t, <2>1, <2>3, <2>4, CallbackIsHonest
  <2>6. PlacedOnce'
    BY <1>h, <2>1, <2>2, <2>5 DEF PlacedOnce, Apart, others
  <2>7. Counted'
    <3>1. gpu' \in Seq(Frames)
      BY <1>t, <2>1, HeadAndTail
    <3>2. Count(gpu', Mine) \in Nat
      BY <3>1, PlacesFinite
    <3> QED
      BY <1>c, <2>1, <2>2, <2>5, <3>2 DEF Counted, n
  <2>8. NoneFromLater'
    BY <1>h, <1>t, <2>1, HeadAndTail DEF NoneFromLater
  <2> QED
    BY <2>6, <2>7, <2>8 DEF HonestInv
<1>8. CASE RunDropped
  <2>1. /\ dropped # << >> /\ Callback(Head(dropped)) /\ dropped' = Tail(dropped) /\ wire' = wire
        /\ UNCHANGED << leg, decoded, renderQueue, gpu >>
    BY <1>8 DEF RunDropped
  <2>2. Mine' = Mine /\ Used' = Used
    BY <1>m, <2>1 DEF Used
  <2> DEFINE others == Ids(renderQueue, Mine) \cup Ids(gpu, Mine)
             n == Count(renderQueue, Mine) + Count(gpu, Mine)
  <2>3. n \in Nat /\ in_flight = Count(dropped, Mine) + n
    BY <1>c, <1>h DEF Counted
  <2>4. /\ Ids(dropped, Mine) \cap others = {} /\ Ids(Told, Acks) \cap others = {}
        /\ Ids(dropped, Mine) \cap Ids(Told, Acks) = {} /\ Once(dropped, Mine) /\ Once(Told, Acks)
        /\ Ids(dropped, Mine) \subseteq Used /\ Ids(Told, Acks) \subseteq Used
    BY <1>h DEF PlacedOnce, Apart
  <2> HIDE DEF others, n
  <2>5. /\ Once(dropped', Mine) /\ Once(Told', Acks)
        /\ Ids(dropped', Mine) \cap Ids(Told', Acks) = {}
        /\ Ids(dropped', Mine) \cap others = {} /\ Ids(Told', Acks) \cap others = {}
        /\ Ids(dropped', Mine) \subseteq Used /\ Ids(Told', Acks) \subseteq Used
        /\ in_flight' = Count(dropped', Mine) + n
    BY <1>t, <2>1, <2>3, <2>4, CallbackIsHonest
  <2>6. PlacedOnce'
    BY <1>h, <2>1, <2>2, <2>5 DEF PlacedOnce, Apart, others
  <2>7. Counted'
    <3>1. dropped' \in Seq(Frames)
      BY <1>t, <2>1, HeadAndTail
    <3>2. Count(dropped', Mine) \in Nat
      BY <3>1, PlacesFinite
    <3> QED
      BY <1>c, <2>1, <2>2, <2>5, <3>2 DEF Counted, n
  <2>8. NoneFromLater'
    BY <1>h, <1>t, <2>1, HeadAndTail DEF NoneFromLater
  <2> QED
    BY <2>6, <2>7, <2>8 DEF HonestInv
<1>9. CASE NotifyOne
  BY <1>9, <1>t, HonestKept DEF NotifyOne, Told
<1>10. CASE ServerTakesAck
  <2>1. /\ wire # << >> /\ wire' = Tail(wire) /\ outbox' = outbox
        /\ UNCHANGED << leg, decoded, renderQueue, gpu, dropped, in_flight >>
    BY <1>10 DEF ServerTakesAck
  <2>2. Told # << >> /\ Told' = Tail(Told)
    BY <1>t, <2>1, ToldTail DEF Told
  <2>3. (Once(Told, Acks) => Once(Told', Acks)) /\ Ids(Told', Acks) \subseteq Ids(Told, Acks)
    BY <1>t, <2>2, PlacesTail
  <2>4. Mine' = Mine /\ Used' = Used
    BY <1>m, <2>1 DEF Used
  <2>5. PlacedOnce'
    BY <1>h, <2>1, <2>3, <2>4 DEF PlacedOnce, Apart
  <2> QED
    BY <1>h, <2>1, <2>4, <2>5 DEF HonestInv, Counted, NoneFromLater
<1>11. CASE UNCHANGED vars
  BY <1>11, <1>t, HonestKept DEF vars, Told
<1> QED
  BY <1>1, <1>2, <1>3, <1>4, <1>5, <1>6, <1>7, <1>8, <1>9, <1>10, <1>11 DEF Next

LEMMA HonestIsHonest == FrameTypeOK /\ HonestInv => AcksAreHonest
<1> SUFFICES ASSUME FrameTypeOK, HonestInv PROVE AcksAreHonest
  OBVIOUS
<1>t. /\ renderQueue \in Seq(Messages) /\ gpu \in Seq(Messages) /\ dropped \in Seq(Messages)
      /\ Told \in Seq(Acks)
  <2>1. gpu \in Seq(Frames) /\ dropped \in Seq(Frames)
    BY DEF FrameTypeOK
  <2>2. gpu \in Seq(Messages) /\ dropped \in Seq(Messages)
    BY <2>1, Retyped, MessageTypes
  <2> QED
    BY <2>2, ToldType DEF FrameTypeOK, Messages
<1>1. ASSUME NEW q \in Seq(Messages)
      PROVE  /\ {i \in DOMAIN q : q[i].type = "EndFrame" /\ q[i].leg = leg} = Places(q, Mine)
             /\ OnTheWay(q) = Count(q, Mine)
  <2>1. DOMAIN q = 1 .. Len(q) /\ \A i \in 1 .. Len(q) : q[i] \in Messages
    OBVIOUS
  <2>2. {i \in DOMAIN q : q[i].type = "EndFrame" /\ q[i].leg = leg} = Places(q, Mine)
    BY <2>1, MineIsMine DEF Places
  <2> QED
    BY <2>2 DEF OnTheWay, Count
<1>2. InFlightIsHonest
  BY <1>t, <1>1 DEF InFlightIsHonest, HonestInv, Counted
<1>3. AckedOnce
  <2> DEFINE ids == [i \in 1 .. Len(wire \o outbox) |-> (wire \o outbox)[i].id]
             waiting(queue) == {queue[i].id : i \in {j \in DOMAIN queue :
                                   queue[j].type = "EndFrame" /\ queue[j].leg = leg}}
  <2>1. Places(Told, Acks) = 1 .. Len(wire \o outbox)
    BY <1>t DEF Places, Told
  <2>2. /\ waiting(renderQueue) = Ids(renderQueue, Mine) /\ waiting(gpu) = Ids(gpu, Mine)
        /\ waiting(dropped) = Ids(dropped, Mine)
    BY <1>t, <1>1 DEF Ids
  <2>3. DOMAIN ids = Places(Told, Acks) /\ \A i \in DOMAIN ids : ids[i] = Told[i].id
    BY <2>1 DEF Told
  <2>4. \A i \in DOMAIN ids : ids[i] \in Ids(Told, Acks)
    BY <2>3 DEF Ids
  <2>5. \A i, j \in DOMAIN ids : ids[i] = ids[j] => i = j
    BY <2>3 DEF HonestInv, PlacedOnce, Once
  <2>6. \A i \in DOMAIN ids :
           ids[i] \notin waiting(renderQueue) \cup waiting(gpu) \cup waiting(dropped)
    BY <2>2, <2>4 DEF HonestInv, PlacedOnce, Apart
  <2> QED
    BY <2>5, <2>6 DEF AckedOnce
<1> QED
  BY <1>2, <1>3 DEF AcksAreHonest

\* The acknowledgements tell the truth (ack.rs:9-11): for any window, number of frames and
\* legs, and wherever the renderer is stopped, no frame is acknowledged twice or while it is
\* still on its way, and the queue depth is the number of frames that are.
THEOREM AcksTellTheTruth == Spec => []AcksAreHonest
<1>1. Init => FramesInv /\ HonestInv
  BY FramesInit, HonestInit
<1>2. FramesInv /\ HonestInv /\ [Next]_vars => (FramesInv /\ HonestInv)'
  BY FramesStep, HonestStep
<1>3. FramesInv /\ HonestInv => AcksAreHonest
  BY HonestIsHonest DEF FramesInv
<1> QED
  BY <1>1, <1>2, <1>3, PTL DEF Spec

--------------------------------------------------------------------------------
(* What the views compute about pixels and points.                              *)

\* Division, and the products it is compared through.
LEMMA Quotient ==
    ASSUME NEW a \in Int, NEW b \in Nat \ {0}
    PROVE  a \div b \in Int /\ b * (a \div b) <= a /\ a < b * (a \div b) + b
OBVIOUS

LEMMA Product ==
    ASSUME NEW a \in Int, NEW b \in Int, NEW c \in Nat, a <= b
    PROVE  a * c <= b * c /\ c * a <= c * b /\ a * c \in Int /\ b * c \in Int
OBVIOUS

\* A quotient is found by what it is between.
LEMMA Quotients ==
    ASSUME NEW a \in Int, NEW b \in Nat \ {0}, NEW q \in Int, b * q <= a, a < b * q + b
    PROVE  a \div b = q
OBVIOUS

LEMMA Cancelled ==
    ASSUME NEW a \in Int, NEW b \in Int, NEW c \in Nat \ {0}
    PROVE  /\ a * c <= b * c => a <= b
           /\ a * c < b * c => a < b
           /\ a * c <= b * c + (c - 1) => a <= b
OBVIOUS

(* The wheel. *)

\* Induction over an initial segment of the naturals, for a set.
LEMMA UpTo ==
    ASSUME NEW k \in Nat, NEW S, 0 \in S, \A i \in 1 .. k : i - 1 \in S => i \in S
    PROVE  0 .. k \subseteq S
<1> DEFINE Missing == {i \in 0 .. k : i \notin S}
<1> SUFFICES ASSUME Missing # {} PROVE FALSE
    OBVIOUS
<1>1. PICK i \in Missing : \A j \in Missing : i <= j
    <2>1. Missing \in SUBSET Nat
        OBVIOUS
    <2> HIDE DEF Missing
    <2> QED
        BY <2>1, Smallest
<1>2. i \in 1 .. k /\ i - 1 \in 0 .. k
    BY <1>1
<1> QED
    BY <1>1, <1>2

\* What Total's recursion says of a function, and that only one function does it.
Sums(events, f) ==
    f = [i \in 0 .. Len(events) |-> IF i = 0 THEN 0 ELSE f[i - 1] + events[i]]

LEMMA SumIs ==
    ASSUME NEW events \in Seq(Int), NEW f, Sums(events, f)
    PROVE  Total(events) = f[Len(events)]
<1> DEFINE g == CHOOSE g : Sums(events, g)
           k == Len(events)
           S == {i \in 0 .. k : g[i] = f[i]}
<1>1. Total(events) = g[k]
    BY DEF Total, Sums
<1>2. Sums(events, g)
    OBVIOUS
<1> HIDE DEF g
<1>3. k \in Nat
    OBVIOUS
<1>4. 0 \in S
    BY <1>2, <1>3 DEF Sums
<1>5. \A i \in 1 .. k : i - 1 \in S => i \in S
    <2> TAKE i \in 1 .. k
    <2>1. i \in 0 .. k /\ i # 0
        BY <1>3
    <2>2. g[i] = g[i - 1] + events[i] /\ f[i] = f[i - 1] + events[i]
        BY <1>2, <2>1 DEF Sums
    <2> QED
        BY <2>1, <2>2
<1>6. 0 .. k \subseteq S
    <2> HIDE DEF S, k
    <2> QED
        BY <1>3, <1>4, <1>5, UpTo
<1> QED
    BY <1>1, <1>3, <1>6

\* Of the whole part nothing is lost when it is cut into events, and each of them
\* is small enough for the wire.
LEMMA Chunked ==
    ASSUME NEW w \in Int, NEW c \in Nat \ {0}
    PROVE  /\ Chunks(w, c) \in Seq(Int) /\ Total(Chunks(w, c)) = w
           /\ \A i \in DOMAIN Chunks(w, c) : Chunks(w, c)[i] # 0 /\ Distance(Chunks(w, c)[i], 0) <= c
<1> DEFINE s == sign(w)
           n == s * w
           k == (n + c - 1) \div c
           events == Chunks(w, c)
           f == [i \in 0 .. k |-> s * Least(c * i, n)]
<1>1. s \in {-1, 1} /\ n \in Nat /\ s * n = w
    BY DEF sign
<1>2. events = [i \in 1 .. k |-> s * Least(c, n - (i - 1) * c)]
    BY DEF Chunks
<1> HIDE DEF s, n, events
<1>3. k \in Nat /\ c * k <= n + c - 1 /\ n + c - 1 < c * k + c
    <2> DEFINE a == n + c - 1
    <2>1. a \in Nat
        BY <1>1
    <2> HIDE DEF a
    <2>2. /\ a \div c \in Int /\ c * (a \div c) <= a /\ a < c * (a \div c) + c
          /\ a \div c \in Nat
        BY <2>1, Quotient
    <2>3. k = a \div c
        BY DEF a
    <2> HIDE DEF k
    <2> QED
        BY <2>2, <2>3 DEF a
<1> HIDE DEF k
<1>4. \A i \in 1 .. k : /\ n - (i - 1) * c \in Nat \ {0}
                        /\ events[i] = s * Least(c, n - (i - 1) * c)
    <2> TAKE i \in 1 .. k
    <2>1. c * i <= c * k /\ (i - 1) * c = c * i - c
        BY <1>3
    <2> QED
        BY <1>1, <1>2, <1>3, <2>1
<1>5. \A i \in 1 .. k : events[i] \in Int /\ events[i] # 0 /\ Distance(events[i], 0) <= c
    BY <1>1, <1>4 DEF Least, Distance
<1>6. events \in Seq(Int) /\ Len(events) = k
    <2>1. events \in [1 .. k -> Int]
        BY <1>2, <1>5
    <2> QED
        BY <1>3, <2>1
<1>7. Sums(events, f)
    <2>1. f[0] = 0
        BY <1>1, <1>3 DEF Least
    <2>2. ASSUME NEW i \in 1 .. k
          PROVE  f[i] = f[i - 1] + events[i]
        <3>1. c * (i - 1) = c * i - c /\ c * i \in Nat /\ (i - 1) * c = c * i - c /\ c * (i - 1) \in Nat
            BY <1>3
        <3>2. f[i] = s * Least(c * i, n) /\ f[i - 1] = s * Least(c * i - c, n)
            BY <1>3, <3>1
        <3>3. n - (c * i - c) \in Nat \ {0} /\ events[i] = s * Least(c, n - (c * i - c))
            BY <1>4, <3>1
        <3>4. Least(c * i, n) = Least(c * i - c, n) + Least(c, n - (c * i - c))
            BY <1>1, <3>1, <3>3 DEF Least
        <3> QED
            BY <1>1, <3>1, <3>2, <3>3, <3>4 DEF Least
    <2>3. f = [i \in 0 .. k |-> f[i]]
        OBVIOUS
    <2> HIDE DEF f
    <2>4. \A i \in 0 .. k : f[i] = IF i = 0 THEN 0 ELSE f[i - 1] + events[i]
        BY <1>3, <2>1, <2>2
    <2>5. f = [i \in 0 .. k |-> IF i = 0 THEN 0 ELSE f[i - 1] + events[i]]
        BY <2>3, <2>4
    <2> QED
        BY <1>6, <2>5 DEF Sums
<1>8. f[k] = w
    <2>1. Least(c * k, n) = n
        BY <1>1, <1>3 DEF Least
    <2> QED
        BY <1>1, <1>3, <2>1
<1>9. Total(events) = w
    <2> HIDE DEF f
    <2> QED
        BY <1>6, <1>7, <1>8, SumIs
<1> QED
    BY <1>5, <1>6, <1>9, <1>2 DEF events

ScrollInv ==
    /\ residual \in Int /\ pushed \in Int /\ sent \in Int
    /\ NothingLostOrInvented

LEMMA Pushed ==
    ASSUME ScrollInv, NEW parts \in Int, NEW chunk \in 1 .. MAX_UNITS_PER_EVENT, push(parts, chunk)
    PROVE  ScrollInv'
<1> DEFINE units == clamp(parts, -MAX_UNITS_PER_PUSH * Fraction, MAX_UNITS_PER_PUSH * Fraction)
           whole == trunc(residual + units)
<1>1. /\ residual' = residual + units - whole * Fraction
      /\ wheel' = Chunks(whole, chunk)
      /\ pushed' = pushed + units
      /\ sent' = sent + Total(wheel')
    BY DEF push
<1>2. units \in Int
    BY ScrollAssumption DEF clamp, Least, Greatest, Fraction
<1>3. residual \in Int /\ pushed \in Int /\ sent \in Int /\ sent * Fraction + residual = pushed
    BY DEF ScrollInv, NothingLostOrInvented
<1> HIDE DEF units
<1>4. whole \in Int /\ Distance(residual + units - whole * Fraction, 0) < Fraction
    BY <1>2, <1>3 DEF trunc, Distance, Fraction
<1> HIDE DEF whole
<1>5. chunk \in Nat \ {0} /\ chunk <= MAX_UNITS_PER_EVENT /\ MAX_UNITS_PER_EVENT \in Nat
    BY ScrollAssumption
<1>6. Total(wheel') = whole
    BY <1>1, <1>4, <1>5, Chunked
<1>7. \A i \in DOMAIN wheel' : wheel'[i] # 0 /\ Distance(wheel'[i], 0) <= MAX_UNITS_PER_EVENT
    <2> TAKE i \in DOMAIN wheel'
    <2>1. wheel' \in Seq(Int) /\ wheel'[i] # 0 /\ Distance(wheel'[i], 0) <= chunk
        BY <1>1, <1>4, <1>5, Chunked
    <2>2. wheel'[i] \in Int
        BY <2>1
    <2> QED
        BY <1>5, <2>1, <2>2 DEF Distance
<1>8. sent' * Fraction + residual' = pushed'
    BY <1>1, <1>2, <1>3, <1>4, <1>6 DEF Fraction
<1>9. residual' \in Int /\ pushed' \in Int /\ sent' \in Int
    BY <1>1, <1>2, <1>3, <1>4, <1>6 DEF Fraction
<1> QED
    BY <1>1, <1>4, <1>7, <1>8, <1>9 DEF ScrollInv, NothingLostOrInvented

\* Over a gesture no wheel unit is lost or invented, however many events the
\* trackpad or the wheel sends and however large they are: what was sent and the
\* remainder add up to what was scrolled, and every event fits the rotation field
\* (scroll.rs push and emit).
THEOREM WheelIsExact == PixelSpec => []NothingLostOrInvented
<1>1. PixelInit => ScrollInv
    BY DEF PixelInit, ScrollInv, NothingLostOrInvented, Distance, Fraction
<1>2. ASSUME ScrollInv, [PixelNext]_pixelVars
      PROVE  ScrollInv'
    <2>1. MAX_UNITS_PER_EVENT \in 1 .. MAX_UNITS_PER_EVENT /\ UNITS_PER_NOTCH \in 1 .. MAX_UNITS_PER_EVENT
        BY ScrollAssumption
    <2>2. ASSUME NEW parts \in ScrollDeltas, ScrollPrecise(parts)
          PROVE  ScrollInv'
        <3>1. push(parts, MAX_UNITS_PER_EVENT) /\ parts \in Int
            BY <2>2, ScrollAssumption DEF ScrollPrecise
        <3> QED
            BY <1>2, <2>1, <3>1, Pushed
    <2>3. ASSUME NEW parts \in ScrollDeltas, ScrollLines(parts)
          PROVE  ScrollInv'
        <3>1. push(parts * UNITS_PER_NOTCH, UNITS_PER_NOTCH) /\ parts * UNITS_PER_NOTCH \in Int
            BY <2>1, <2>3, ScrollAssumption DEF ScrollLines
        <3> QED
            BY <1>2, <2>1, <3>1, Pushed
    <2>4. CASE GestureBegan
        BY <2>4 DEF GestureBegan, ScrollInv, NothingLostOrInvented, Distance, Fraction
    <2>5. CASE UNCHANGED pixelVars
        BY <1>2, <2>5 DEF pixelVars, ScrollInv, NothingLostOrInvented
    <2> QED
        BY <1>2, <2>2, <2>3, <2>4, <2>5 DEF PixelNext
<1>3. ScrollInv => NothingLostOrInvented
    BY DEF ScrollInv
<1> QED
    BY <1>1, <1>2, <1>3, PTL DEF PixelSpec

(* Previews. *)

\* A source pixel is averaged into the preview pixel whose share of the source it
\* begins in.
LEMMA Weighs ==
    ASSUME NEW n \in Nat \ {0}, NEW m \in 1 .. n, NEW o \in 0 .. m - 1, NEW i \in Int
    PROVE  i \in downscale(o, n, m) <=> o * n < (i + 1) * m /\ (i + 1) * m <= (o + 1) * n
<1> DEFINE a == o * n
           b == (o + 1) * n
           from == a \div m
           to == b \div m
<1>1. m \in Nat \ {0} /\ o \in Nat /\ m <= n
    OBVIOUS
<1>2. a \in Nat /\ b \in Nat /\ b = a + n
    BY <1>1
<1>3. downscale(o, n, m) = from .. Greatest(to, from + 1) - 1
    BY DEF downscale
<1> HIDE DEF a, b
<1>4. from \in Int /\ m * from <= a /\ a < m * from + m
    BY <1>1, <1>2, Quotient
<1>5. to \in Int /\ m * to <= b /\ b < m * to + m
    BY <1>1, <1>2, Quotient
<1> HIDE DEF from, to
<1>6. from + 1 <= to
    <2>1. m * from + m < m * to + m
        BY <1>1, <1>2, <1>4, <1>5
    <2>2. m * from < m * to /\ from * m < to * m
        BY <1>1, <1>4, <1>5, <2>1
    <2>3. from < to
        BY <1>1, <1>4, <1>5, <2>2, Cancelled
    <2> QED
        BY <1>4, <1>5, <2>3
<1>7. i \in downscale(o, n, m) <=> from <= i /\ i < to
    BY <1>3, <1>4, <1>5, <1>6 DEF Greatest
<1>8. (i + 1) * m = m * i + m /\ m * i \in Int
    BY <1>1
<1>9. from <= i <=> a < m * i + m
    <2>1. from <= i => m * from <= m * i
        BY <1>1, <1>4
    <2>2. i < from => m * i + m <= m * from
        BY <1>1, <1>4
    <2> QED
        BY <1>1, <1>2, <1>4, <1>8, <2>1, <2>2
<1>10. i < to <=> m * i + m <= b
    <2>1. i < to => m * i + m <= m * to
        BY <1>1, <1>5
    <2>2. to <= i => m * to <= m * i
        BY <1>1, <1>5
    <2> QED
        BY <1>1, <1>2, <1>5, <1>8, <2>1, <2>2
<1> QED
    BY <1>7, <1>8, <1>9, <1>10 DEF a, b

\* Every pixel of the source weighs in exactly one pixel of the preview.
LEMMA Partition ==
    ASSUME NEW n \in Nat \ {0}, NEW m \in 1 .. n
    PROVE  /\ \A i \in 0 .. n - 1 : Cardinality({o \in 0 .. m - 1 : i \in downscale(o, n, m)}) = 1
           /\ UNION {downscale(o, n, m) : o \in 0 .. m - 1} = 0 .. n - 1
<1>1. m \in Nat \ {0} /\ m <= n
    OBVIOUS
<1>2. ASSUME NEW i \in 0 .. n - 1
      PROVE  \E p \in 0 .. m - 1 : {o \in 0 .. m - 1 : i \in downscale(o, n, m)} = {p}
    <2> DEFINE a == (i + 1) * m - 1
               p == a \div n
    <2>1. a \in Nat /\ (i + 1) * m = a + 1 /\ a < n * m
        BY <1>1
    <2> HIDE DEF a
    <2>2. p \in Int /\ n * p <= a /\ a < n * p + n
        BY <2>1, Quotient
    <2> HIDE DEF p
    <2>3. p >= 0
        <3>1. p < 0 => n * p + n <= 0
            BY <2>2
        <3> QED
            BY <2>1, <2>2, <3>1
    <2>4. p < m
        <3>1. m <= p => n * m <= n * p
            BY <1>1, <2>2
        <3> QED
            BY <1>1, <2>1, <2>2, <3>1
    <2>5. p \in 0 .. m - 1
        BY <1>1, <2>2, <2>3, <2>4
    <2>6. ASSUME NEW o \in 0 .. m - 1
          PROVE  i \in downscale(o, n, m) <=> o = p
        <3>1. i \in downscale(o, n, m) <=> o * n < a + 1 /\ a + 1 <= (o + 1) * n
            BY <2>1, Weighs
        <3>2. o * n = n * o /\ (o + 1) * n = n * o + n /\ n * o \in Int
            OBVIOUS
        <3>3. o < p => n * o + n <= n * p
            BY <2>2
        <3>4. p < o => n * p + n <= n * o
            BY <2>2
        <3> QED
            BY <2>1, <2>2, <2>5, <3>1, <3>2, <3>3, <3>4
    <2> QED
        BY <2>5, <2>6
<1>3. \A i \in 0 .. n - 1 : Cardinality({o \in 0 .. m - 1 : i \in downscale(o, n, m)}) = 1
    BY <1>2, FS_Singleton
<1>4. ASSUME NEW o \in 0 .. m - 1, NEW i \in downscale(o, n, m)
      PROVE  i \in 0 .. n - 1
    <2>1. i \in Int
        <3>1. (o * n) \div m \in Int /\ ((o + 1) * n) \div m \in Int
            BY <1>1, Quotient
        <3> QED
            BY <3>1 DEF downscale, Greatest
    <2>2. o * n < (i + 1) * m /\ (i + 1) * m <= (o + 1) * n
        BY <2>1, Weighs
    <2>3. 0 <= o * n /\ (o + 1) * n <= m * n
        BY <1>1
    <2>4. i < 0 => (i + 1) * m <= 0
        BY <1>1, <2>1
    <2>5. n <= i => m * n + m <= (i + 1) * m
        BY <1>1, <2>1
    <2> QED
        BY <1>1, <2>1, <2>2, <2>3, <2>4, <2>5
<1>5. ASSUME NEW i \in 0 .. n - 1
      PROVE  \E o \in 0 .. m - 1 : i \in downscale(o, n, m)
    BY <1>2
<1> QED
    BY <1>3, <1>4, <1>5

\* A ratio rounded to the nearest integer: not above a bound it is below, and exact
\* where it is an integer.
LEMMA Rounded ==
    ASSUME NEW v \in Nat, NEW num \in Nat, NEW den \in Nat \ {0}, NEW limit \in Nat
    PROVE  /\ (2 * v * num + den) \div (2 * den) \in Nat
           /\ v * num <= limit * den => (2 * v * num + den) \div (2 * den) <= limit
           /\ v * num = limit * den => (2 * v * num + den) \div (2 * den) = limit
<1> DEFINE p == v * num
           l == limit * den
           a == 2 * v * num + den
           b == 2 * den
           q == a \div b
<1>1. p \in Nat /\ l \in Nat /\ a = 2 * p + den /\ b \in Nat \ {0} /\ b = 2 * den /\ b * limit = 2 * l
    OBVIOUS
<1> HIDE DEF p, l, a, b
<1>2. q \in Int /\ b * q <= a /\ a < b * q + b
    <2>1. a \in Int
        BY <1>1
    <2> QED
        BY <1>1, <2>1, Quotient
<1> HIDE DEF q
<1>3. q >= 0
    <2>1. q < 0 => b * q + b <= 0
        BY <1>1, <1>2
    <2> QED
        BY <1>1, <1>2, <2>1
<1>4. p <= l => q <= limit
    <2>1. limit < q => b * limit + b <= b * q
        BY <1>1, <1>2
    <2> QED
        BY <1>1, <1>2, <2>1
<1>5. p = l => limit <= q
    <2>1. q < limit => b * q + b <= b * limit
        BY <1>1, <1>2
    <2> QED
        BY <1>1, <1>2, <2>1
<1> QED
    BY <1>2, <1>3, <1>4, <1>5 DEF p, l, a, b, q

\* The preview of a frame keeps within its box and within the frame.
LEMMA Fitted ==
    ASSUME NEW size \in Extent, NEW max \in Extent
    PROVE  LET out == fit(size, max)
           IN  /\ out \in Extent
               /\ out.width <= size.width /\ out.width <= max.width
               /\ out.height <= size.height /\ out.height <= max.height
               /\ out = size \/ out.width = max.width \/ out.height = max.height
<1> DEFINE w == size.width  h == size.height  mw == max.width  mh == max.height
           byWidth == mw * h <= mh * w
           num == IF byWidth THEN mw ELSE mh
           den == IF byWidth THEN w ELSE h
           round(v) == (2 * v * num + den) \div (2 * den)
           side(v, limit) == IF num >= den THEN clamp(v, 1, Greatest(limit, 1))
                             ELSE clamp(round(v), 1, Greatest(limit, 1))
           out == fit(size, max)
<1>1. w \in Nat \ {0} /\ h \in Nat \ {0} /\ mw \in Nat \ {0} /\ mh \in Nat \ {0}
      /\ size = [width |-> w, height |-> h]
    BY DEF Extent
<1>2. out = [width |-> side(w, mw), height |-> side(h, mh)]
    BY <1>1 DEF fit
<1> HIDE DEF w, h, mw, mh, out
<1>3. num \in Nat \ {0} /\ den \in Nat \ {0}
    BY <1>1
<1>4. w * num <= mw * den /\ h * num <= mh * den
      /\ (w * num = mw * den \/ h * num = mh * den)
    BY <1>1
<1>5. CASE num >= den
    <2>1. w <= mw
        <3>1. w * den <= w * num
            BY <1>1, <1>3, <1>5
        <3>2. w * den <= mw * den
            BY <1>1, <1>3, <1>4, <3>1
        <3> HIDE DEF num, den
        <3> QED
            BY <1>1, <1>3, <3>2, Cancelled
    <2>2. h <= mh
        <3>1. h * den <= h * num
            BY <1>1, <1>3, <1>5
        <3>2. h * den <= mh * den
            BY <1>1, <1>3, <1>4, <3>1
        <3> HIDE DEF num, den
        <3> QED
            BY <1>1, <1>3, <3>2, Cancelled
    <2>3. side(w, mw) = w /\ side(h, mh) = h
        BY <1>1, <1>5, <2>1, <2>2 DEF clamp, Least, Greatest
    <2>4. out = size
        BY <1>1, <1>2, <2>3
    <2>5. /\ out \in Extent /\ out.width = w /\ out.height = h
        BY <1>1, <2>4 DEF Extent
    <2> QED
        BY <1>1, <2>1, <2>2, <2>4, <2>5 DEF w, h, mw, mh, out
<1>6. CASE num < den
    <2>1. w * num <= w * den /\ h * num <= h * den
        BY <1>1, <1>3, <1>6
    <2> HIDE DEF num, den
    <2>2. /\ round(w) \in Nat /\ round(w) <= w /\ round(w) <= mw
          /\ round(h) \in Nat /\ round(h) <= h /\ round(h) <= mh
          /\ round(w) = mw \/ round(h) = mh
        BY <1>1, <1>3, <1>4, <2>1, Rounded
    <2> HIDE DEF round
    <2>3. /\ side(w, mw) \in Nat \ {0} /\ side(w, mw) <= w /\ side(w, mw) <= mw
          /\ side(h, mh) \in Nat \ {0} /\ side(h, mh) <= h /\ side(h, mh) <= mh
          /\ side(w, mw) = mw \/ side(h, mh) = mh
        BY <1>1, <1>3, <1>6, <2>2 DEF clamp, Least, Greatest
    <2> HIDE DEF side
    <2> QED
        BY <1>1, <1>2, <2>3 DEF Extent, w, h, mw, mh, out
<1> QED
    BY <1>3, <1>5, <1>6

\* Nothing of a frame is left out of its preview or counts in it twice, and the
\* preview is no larger than its box, whatever the sizes (connections.rs fit and
\* downscale).
THEOREM PreviewsAreExact == PreviewsAreFaithful
<1> SUFFICES ASSUME probe \in PreviewProbes
             PROVE  PreviewsAreFaithful
    BY DEF PreviewsAreFaithful
<1>1. probe \in Extent /\ THUMBNAIL_MAX \in Extent
    BY ProbeAssumption
<1> DEFINE out == fit(probe, THUMBNAIL_MAX)
<1>2. /\ out \in Extent
      /\ out.width <= probe.width /\ out.width <= THUMBNAIL_MAX.width
      /\ out.height <= probe.height /\ out.height <= THUMBNAIL_MAX.height
      /\ out = probe \/ out.width = THUMBNAIL_MAX.width \/ out.height = THUMBNAIL_MAX.height
    BY <1>1, Fitted
<1> HIDE DEF out
<1>3. /\ out.width \in 1 .. probe.width /\ out.width \in 1 .. Least(probe.width, THUMBNAIL_MAX.width)
      /\ out.height \in 1 .. probe.height /\ out.height \in 1 .. Least(probe.height, THUMBNAIL_MAX.height)
    BY <1>1, <1>2 DEF Extent, Least
<1>4. probe.width \in Nat \ {0} /\ probe.height \in Nat \ {0}
    BY <1>1 DEF Extent
<1>5. /\ \A i \in 0 .. probe.width - 1 : Cardinality({o \in 0 .. out.width - 1 : i \in downscale(o, probe.width, out.width)}) = 1
      /\ UNION {downscale(o, probe.width, out.width) : o \in 0 .. out.width - 1} = 0 .. probe.width - 1
    BY <1>3, <1>4, Partition
<1>6. \A i \in 0 .. probe.height - 1 : Cardinality({o \in 0 .. out.height - 1 : i \in downscale(o, probe.height, out.height)}) = 1
    BY <1>3, <1>4, Partition
<1> QED
    BY <1>2, <1>3, <1>5, <1>6, Zenon DEF PreviewsAreFaithful, out

(* Windows. *)

\* What centring and the cascade leave of a window on one axis of the screen.
LEMMA Centred ==
    ASSUME NEW from \in Int, NEW length \in Nat, NEW size \in Nat, NEW offset \in Nat, NEW least \in Nat,
           least + offset <= Least(length, size)
    PROVE  Side(from + (length - size) \div 2 + offset, size, from, length) >= least
BY DEF Side, Least, Greatest

LEMMA MirroredTwice ==
    ASSUME NEW f \in WindowFrame, NEW primary \in Int
    PROVE  top_left(appkit_rect(f, primary), primary) = f
<1>1. f = [x |-> f.x, y |-> f.y, width |-> f.width, height |-> f.height] /\ f.y \in Int /\ f.height \in Nat
    BY DEF WindowFrame
<1>2. primary - (primary - f.y - f.height) - f.height = f.y
    BY <1>1
<1> QED
    BY <1>1, <1>2 DEF top_left, appkit_rect, Mirrored

\* A window opens where at least MIN_VISIBLE of it is on one of the screens, and
\* what the next quit saves is what the next launch restores (frames.rs restore,
\* windows.rs place and top_left).
THEOREM WindowsAreFound == WindowsOpenOnScreen
<1> DEFINE screens == probe.screens
           saved == probe.saved
           primary == screens[1].height
           kept == saved # <<>> /\ saved[1].width >= Template.min_width /\ saved[1].height >= Template.min_height
                   /\ Visible(saved[1], screens)
           offset == CASCADE * probe.cascade
           default == [x |-> screens[1].x + (screens[1].width - Template.width) \div 2 + offset,
                       y |-> screens[1].y + (screens[1].height - Template.height) \div 2 + offset,
                       width |-> Template.width, height |-> Template.height]
           f == restore(saved, screens, probe.cascade)
<1> SUFFICES ASSUME probe \in FrameProbes, screens # <<>>
             PROVE  /\ Visible(top_left(place(saved, screens, primary, probe.cascade), primary), screens)
                    /\ \A cascade \in 0 .. 2 :
                         restore(<<top_left(place(saved, screens, primary, probe.cascade), primary)>>, screens, cascade)
                           = top_left(place(saved, screens, primary, probe.cascade), primary)
    BY Zenon DEF WindowsOpenOnScreen
<1>1. /\ saved \in Seq(WindowFrame) /\ screens \in Seq(WindowFrame) /\ probe.cascade \in Nat
      /\ MIN_VISIBLE + offset <= Least(screens[1].width, Template.width)
      /\ MIN_VISIBLE + offset <= Least(screens[1].height, Template.height)
    BY ProbeAssumption
<1>2. /\ Template.width \in Nat /\ Template.height \in Nat
      /\ Template.min_width <= Template.width /\ Template.min_height <= Template.height
      /\ MIN_VISIBLE \in Nat /\ CASCADE \in Nat
    BY WindowAssumption
<1>3. offset \in Nat
    BY <1>1, <1>2
<1>4. screens[1] \in WindowFrame /\ 1 \in DOMAIN screens
    BY <1>1
<1>5. /\ screens[1].x \in Int /\ screens[1].y \in Int
      /\ screens[1].width \in Nat /\ screens[1].height \in Nat
    BY <1>4 DEF WindowFrame
<1>6. f = IF kept THEN saved[1] ELSE default
    BY Zenon DEF restore
<1> HIDE DEF offset, f
<1>7. /\ f \in WindowFrame /\ Visible(f, screens)
      /\ f.width >= Template.min_width /\ f.height >= Template.min_height
    <2>1. CASE kept
        BY <1>1, <1>6, <2>1
    <2>2. CASE ~kept
        <3>1. f = default
            BY <1>6, <2>2
        <3>2. f \in WindowFrame /\ f.width >= Template.min_width /\ f.height >= Template.min_height
            <4> DEFINE x == screens[1].x + (screens[1].width - Template.width) \div 2 + offset
                       y == screens[1].y + (screens[1].height - Template.height) \div 2 + offset
            <4>1. \A a \in Int : a \div 2 \in Int
                OBVIOUS
            <4>2. screens[1].width - Template.width \in Int /\ screens[1].height - Template.height \in Int
                BY <1>2, <1>5
            <4>3. x \in Int /\ y \in Int
                BY <1>3, <1>5, <4>1, <4>2
            <4>4. f = [x |-> x, y |-> y, width |-> Template.width, height |-> Template.height]
                BY <3>1
            <4> HIDE DEF x, y
            <4> QED
                BY <1>2, <4>3, <4>4 DEF WindowFrame
        <3>3. Side(f.x, f.width, screens[1].x, screens[1].width) >= MIN_VISIBLE
            BY <1>1, <1>2, <1>3, <1>5, <3>1, Centred
        <3>4. Side(f.y, f.height, screens[1].y, screens[1].height) >= MIN_VISIBLE
            BY <1>1, <1>2, <1>3, <1>5, <3>1, Centred
        <3>5. overlap(f, screens[1])[1] >= MIN_VISIBLE /\ overlap(f, screens[1])[2] >= MIN_VISIBLE
            BY <3>3, <3>4 DEF overlap
        <3>6. Visible(f, screens)
            BY <1>4, <3>5 DEF Visible
        <3> QED
            BY <3>2, <3>6
    <2> QED
        BY <2>1, <2>2
<1>8. top_left(place(saved, screens, primary, probe.cascade), primary) = f
    BY <1>5, <1>7, MirroredTwice DEF place, f
<1>9. \A cascade \in 0 .. 2 : restore(<<f>>, screens, cascade) = f
    <2>1. <<f>> # <<>> /\ <<f>>[1] = f
        OBVIOUS
    <2> QED
        BY <1>7, <2>1 DEF restore
<1> QED
    BY <1>7, <1>8, <1>9

Rect(x, y, w, h) == [x |-> x, y |-> y, width |-> w, height |-> h]

LEMMA InsideRect ==
    ASSUME NEW x, NEW y, NEW w, NEW h, NEW a, NEW b, NEW c, NEW d,
           a <= x, x + w <= a + c, b <= y, y + h <= b + d
    PROVE  Inside(Rect(x, y, w, h), Rect(a, b, c, d))
BY DEF Rect, Inside

\* However small the picture, a panel is inside it, at the same place from above
\* and from below.
LEMMA PanelInside ==
    ASSUME NEW width \in Nat, NEW height \in Nat, width >= Point, height >= Point, NEW hud
    PROVE  \E x, top, w, h \in Nat :
             /\ x + w <= width /\ top + h <= height
             /\ \A flipped \in BOOLEAN :
                  hud_frame([width |-> width, height |-> height], hud, flipped)
                    = [x |-> x, width |-> w, height |-> h, y |-> band_y(height, top, h, flipped)]
<1> DEFINE w == Greatest(IF hud = "Banner" THEN Least(BANNER_WIDTH, width - 2 * HUD_INSET)
                                              ELSE Least(STATS_WIDTH, width), Point)
           h == Greatest(Least(IF hud = "Banner" THEN BANNER_HEIGHT ELSE STATS_HEIGHT, height), Point)
           left == IF hud = "Banner" THEN (width - w) \div 2 ELSE width - w - HUD_INSET
           above == IF hud = "Banner" THEN 0 ELSE height - h - HUD_INSET
           x == clamp(left, 0, Greatest(width - w, 0))
           top == clamp(above, 0, Greatest(height - h, 0))
<1>1. \A flipped \in BOOLEAN :
        hud_frame([width |-> width, height |-> height], hud, flipped)
          = [x |-> x, width |-> w, height |-> h, y |-> band_y(height, top, h, flipped)]
    BY DEF hud_frame
<1>2. {HUD_INSET, BANNER_WIDTH, BANNER_HEIGHT, STATS_WIDTH, STATS_HEIGHT} \subseteq Nat \ {0}
    BY WindowAssumption
<1>3. w \in Nat /\ w <= width /\ h \in Nat /\ h <= height
    BY <1>2 DEF Greatest, Least, Point
<1> HIDE DEF w, h
<1>4. left \in Int /\ above \in Int
    <2>1. \A a \in Int : a \div 2 \in Int
        OBVIOUS
    <2> QED
        BY <1>2, <1>3, <2>1
<1> HIDE DEF left, above
<1>5. x \in Nat /\ x + w <= width /\ top \in Nat /\ top + h <= height
    BY <1>3, <1>4 DEF clamp, Least, Greatest
<1> HIDE DEF x, top
<1> QED
    BY <1>1, <1>3, <1>5

\* Title bar and picture share the window without overlap, the page stays inside
\* the picture, and AppKit's unflipped views show the same window, however small
\* it is (windows.rs layout, present.rs hud_frame).
THEOREM PanelsAreInside == PanelsFloatOverThePicture
<1> SUFFICES ASSUME probe \in WindowProbes
             PROVE  PanelsFloatOverThePicture
    BY DEF PanelsFloatOverThePicture
<1> DEFINE W == probe.window.width
           H == probe.window.height
           window == [x |-> 0, y |-> 0, width |-> W, height |-> H]
           bar == chrome(probe.full_screen)
           height == Greatest(H - bar, Point)
           l == layout(window, probe.surface, probe.full_screen, TRUE)
           u == layout(window, probe.surface, probe.full_screen, FALSE)
           content(flipped) == [x |-> 0, y |-> band_y(H, bar, height, flipped), width |-> W, height |-> height]
           panel(flipped) == hud_frame([width |-> W, height |-> height], probe.surface, flipped)
           web(flipped) == IF probe.surface \in {"Webview", "Overlay"} THEN content(flipped)
                           ELSE IF probe.surface = "Remote" THEN [content(flipped) EXCEPT !.height = 0]
                           ELSE [panel(flipped) EXCEPT !.y = content(flipped).y + panel(flipped).y]
           title(flipped) == [x |-> 0, y |-> band_y(H, 0, bar, flipped), width |-> W, height |-> bar]
<1>1. W \in Nat /\ H \in Nat /\ W >= Point /\ probe.full_screen \in BOOLEAN
    BY ProbeAssumption
<1>2. bar \in Nat
    BY <1>1, WindowAssumption DEF chrome
<1>3. l = [view |-> content(TRUE), titlebar |-> title(TRUE), web |-> web(TRUE)]
      /\ u = [view |-> content(FALSE), titlebar |-> title(FALSE), web |-> web(FALSE)]
    BY DEF layout
<1> HIDE DEF W, H, bar, l, u
<1>4. height \in Nat /\ height >= Point /\ (H >= bar + Point => bar + height = H)
    BY <1>1, <1>2 DEF Greatest, Point
<1> HIDE DEF height
<1>5. /\ content(TRUE) = Rect(0, bar, W, height) /\ content(FALSE) = Rect(0, H - bar - height, W, height)
      /\ title(TRUE) = Rect(0, 0, W, bar) /\ title(FALSE) = Rect(0, H - 0 - bar, W, bar)
    BY DEF band_y, Rect
<1>6. PICK x, top, w, h \in Nat :
             /\ x + w <= W /\ top + h <= height
             /\ \A flipped \in BOOLEAN :
                  panel(flipped) = [x |-> x, width |-> w, height |-> h, y |-> band_y(height, top, h, flipped)]
    BY <1>1, <1>4, PanelInside
<1>7. panel(TRUE) = Rect(x, top, w, h) /\ panel(FALSE) = Rect(x, height - top - h, w, h)
    BY <1>6 DEF band_y, Rect
<1> HIDE DEF panel, content, title
<1>8. /\ web(TRUE) = IF probe.surface \in {"Webview", "Overlay"} THEN Rect(0, bar, W, height)
                     ELSE IF probe.surface = "Remote" THEN Rect(0, bar, W, 0)
                     ELSE Rect(x, bar + top, w, h)
      /\ web(FALSE) = IF probe.surface \in {"Webview", "Overlay"} THEN Rect(0, H - bar - height, W, height)
                      ELSE IF probe.surface = "Remote" THEN Rect(0, H - bar - height, W, 0)
                      ELSE Rect(x, H - bar - height + (height - top - h), w, h)
    <2>1. /\ [Rect(0, bar, W, height) EXCEPT !.height = 0] = Rect(0, bar, W, 0)
          /\ [Rect(0, H - bar - height, W, height) EXCEPT !.height = 0] = Rect(0, H - bar - height, W, 0)
        BY DEF Rect
    <2>2. Rect(0, bar, W, height).y = bar /\ Rect(0, H - bar - height, W, height).y = H - bar - height
          /\ Rect(x, top, w, h).y = top /\ Rect(x, height - top - h, w, h).y = height - top - h
        BY DEF Rect
    <2>3. /\ [Rect(x, top, w, h) EXCEPT !.y = bar + top] = Rect(x, bar + top, w, h)
          /\ [Rect(x, height - top - h, w, h) EXCEPT !.y = H - bar - height + (height - top - h)]
               = Rect(x, H - bar - height + (height - top - h), w, h)
        BY DEF Rect
    <2>4. /\ content(TRUE).y + panel(TRUE).y = bar + top
          /\ content(FALSE).y + panel(FALSE).y = H - bar - height + (height - top - h)
        BY <1>5, <1>7, <2>2
    <2>5. /\ [content(TRUE) EXCEPT !.height = 0] = Rect(0, bar, W, 0)
          /\ [content(FALSE) EXCEPT !.height = 0] = Rect(0, H - bar - height, W, 0)
        BY <1>5, <2>1
    <2>6. /\ [panel(TRUE) EXCEPT !.y = content(TRUE).y + panel(TRUE).y] = Rect(x, bar + top, w, h)
          /\ [panel(FALSE) EXCEPT !.y = content(FALSE).y + panel(FALSE).y]
               = Rect(x, H - bar - height + (height - top - h), w, h)
        BY <1>7, <2>3, <2>4
    <2> QED
        BY <1>5, <2>5, <2>6, Zenon
<1> HIDE DEF web
<1>9. Inside(web(TRUE), content(TRUE)) /\ Inside(web(FALSE), content(FALSE))
    <2>1. CASE probe.surface \in {"Webview", "Overlay"}
        <3>1. /\ 0 <= 0 /\ 0 + W <= 0 + W /\ bar <= bar /\ bar + height <= bar + height
              /\ H - bar - height <= H - bar - height
              /\ H - bar - height + height <= H - bar - height + height
            BY <1>1, <1>2, <1>4
        <3> QED
            BY <1>5, <1>8, <2>1, <3>1, InsideRect, Zenon
    <2>2. CASE probe.surface \notin {"Webview", "Overlay"} /\ probe.surface = "Remote"
        <3>1. /\ 0 <= 0 /\ 0 + W <= 0 + W /\ bar <= bar /\ bar + 0 <= bar + height
              /\ H - bar - height <= H - bar - height
              /\ H - bar - height + 0 <= H - bar - height + height
            BY <1>1, <1>2, <1>4
        <3> QED
            BY <1>5, <1>8, <2>2, <3>1, InsideRect, Zenon
    <2>3. CASE probe.surface \notin {"Webview", "Overlay"} /\ probe.surface # "Remote"
        <3>1. web(TRUE) = Rect(x, bar + top, w, h) /\ web(FALSE) = Rect(x, H - bar - height + (height - top - h), w, h)
            BY <1>8, <2>3
        <3>2. /\ 0 <= x /\ x + w <= 0 + W /\ bar <= bar + top /\ bar + top + h <= bar + height
              /\ H - bar - height <= H - bar - height + (height - top - h)
              /\ H - bar - height + (height - top - h) + h <= H - bar - height + height
            BY <1>1, <1>2, <1>4, <1>6
        <3> QED
            BY <1>5, <3>1, <3>2, InsideRect, Zenon
    <2> QED
        BY <2>1, <2>2, <2>3
<1>10. H >= bar + Point =>
         /\ Inside(content(TRUE), window) /\ Inside(title(TRUE), window)
         /\ title(TRUE).height + content(TRUE).height = H
         /\ content(TRUE).y = title(TRUE).y + title(TRUE).height
    <2> SUFFICES ASSUME H >= bar + Point
                 PROVE  /\ Inside(content(TRUE), window) /\ Inside(title(TRUE), window)
                        /\ title(TRUE).height + content(TRUE).height = H
                        /\ content(TRUE).y = title(TRUE).y + title(TRUE).height
        OBVIOUS
    <2>1. window = Rect(0, 0, W, H)
        BY DEF Rect
    <2>2. bar + height = H
        BY <1>4
    <2>3. /\ 0 <= 0 /\ 0 + W <= 0 + W /\ 0 <= bar /\ bar + height <= 0 + H
          /\ 0 + bar <= 0 + H /\ bar = 0 + bar
        BY <1>1, <1>2, <1>4, <2>2
    <2>4. Inside(content(TRUE), window)
        BY <1>5, <2>1, <2>3, InsideRect, Zenon
    <2>5. Inside(title(TRUE), window)
        BY <1>5, <2>1, <2>3, InsideRect, Zenon
    <2>6. title(TRUE).height = bar /\ content(TRUE).height = height /\ title(TRUE).y = 0 /\ content(TRUE).y = bar
        <3>1. /\ Rect(0, 0, W, bar).height = bar /\ Rect(0, bar, W, height).height = height
              /\ Rect(0, 0, W, bar).y = 0 /\ Rect(0, bar, W, height).y = bar
            BY DEF Rect
        <3> QED
            BY <1>5, <3>1
    <2> QED
        BY <2>2, <2>3, <2>4, <2>5, <2>6
<1>11. Mirrored(content(FALSE), H) = content(TRUE) /\ Mirrored(title(FALSE), H) = title(TRUE)
    <2>1. H - (H - bar - height) - height = bar /\ H - (H - 0 - bar) - bar = 0
        BY <1>1, <1>2, <1>4
    <2>2. Mirrored(Rect(0, H - bar - height, W, height), H) = Rect(0, H - (H - bar - height) - height, W, height)
        BY DEF Mirrored, Rect
    <2>3. Mirrored(Rect(0, H - 0 - bar, W, bar), H) = Rect(0, H - (H - 0 - bar) - bar, W, bar)
        BY DEF Mirrored, Rect
    <2> QED
        BY <1>5, <2>1, <2>2, <2>3
<1>12. probe.surface # "Remote" => Mirrored(web(FALSE), H) = web(TRUE)
    <2>1. CASE probe.surface \in {"Webview", "Overlay"}
        BY <1>5, <1>8, <1>11, <2>1
    <2>2. CASE probe.surface \notin {"Webview", "Overlay"} /\ probe.surface # "Remote"
        <3>1. H - (H - bar - height + (height - top - h)) - h = bar + top
            BY <1>1, <1>2, <1>4, <1>6
        <3>2. Mirrored(Rect(x, H - bar - height + (height - top - h), w, h), H)
                = Rect(x, H - (H - bar - height + (height - top - h)) - h, w, h)
            BY DEF Mirrored, Rect
        <3> QED
            BY <1>8, <2>2, <3>1, <3>2
    <2> QED
        BY <2>1, <2>2
<1>13. /\ l.view = content(TRUE) /\ l.titlebar = title(TRUE) /\ l.web = web(TRUE)
       /\ u.view = content(FALSE) /\ u.titlebar = title(FALSE) /\ u.web = web(FALSE)
       /\ DOMAIN l = {"view", "titlebar", "web"} /\ u["view"] = u.view /\ u["titlebar"] = u.titlebar
    BY <1>3
<1>14. {"view", "titlebar"} \subseteq {part \in DOMAIN l : Mirrored(u[part], H) = l[part]}
    BY <1>11, <1>13
<1> QED
    BY <1>9, <1>10, <1>12, <1>13, <1>14 DEF PanelsFloatOverThePicture, W, H, l, u, bar

(* Clicks. *)

LEMMA Bounded ==
    ASSUME NEW m \in Nat, NEW n \in Nat, NEW a \in -m .. m, NEW b \in -n .. n
    PROVE  a * b \in Int /\ a * b <= m * n /\ -(m * n) <= a * b
<1>1. a \in Int /\ b \in Int /\ -m <= a /\ a <= m /\ -n <= b /\ b <= n
    OBVIOUS
<1>2. CASE a >= 0
    <2>1. a * b <= a * n /\ -(a * n) <= a * b /\ a * n <= m * n
        BY <1>1, <1>2
    <2> QED
        BY <1>1, <2>1
<1>3. CASE a < 0
    <2>1. a * b <= (-a) * n /\ -((-a) * n) <= a * b /\ (-a) * n <= m * n
        BY <1>1, <1>3
    <2> QED
        BY <1>1, <2>1
<1> QED
    BY <1>1, <1>2, <1>3

\* Two quotients are as near as their fractions, rounded up.
LEMMA Near ==
    ASSUME NEW n \in Int, NEW t \in Int, NEW w \in Nat \ {0}, NEW d \in Nat \ {0}, NEW extent \in Nat, NEW k \in Nat,
           extent <= d * k, n * d - t * w <= 2 * (w * extent), t * w - n * d <= 2 * (w * extent)
    PROVE  /\ n \div (2 * w) \in Int /\ t \div (2 * d) \in Int
           /\ n \div (2 * w) - t \div (2 * d) <= k /\ t \div (2 * d) - n \div (2 * w) <= k
<1> DEFINE a == n \div (2 * w)
           s == t \div (2 * d)
           p == w * d
<1>1. a \in Int /\ 2 * w * a <= n /\ n < 2 * w * a + 2 * w
    <2>1. 2 * w \in Nat \ {0}
        OBVIOUS
    <2> QED
        BY <2>1, Quotient
<1>2. s \in Int /\ 2 * d * s <= t /\ t < 2 * d * s + 2 * d
    <2>1. 2 * d \in Nat \ {0}
        OBVIOUS
    <2> QED
        BY <2>1, Quotient
<1>3. p \in Nat \ {0}
    OBVIOUS
<1> HIDE DEF a, s
<1>4. 2 * (a * p) <= n * d /\ n * d < 2 * (a * p) + 2 * p
    <2>1. (2 * w * a) * d <= n * d /\ n * d < (2 * w * a + 2 * w) * d
        BY <1>1
    <2>2. (2 * w * a) * d = 2 * (a * p) /\ (2 * w * a + 2 * w) * d = 2 * (a * p) + 2 * p
        BY <1>1
    <2> QED
        BY <2>1, <2>2
<1>5. 2 * (s * p) <= t * w /\ t * w < 2 * (s * p) + 2 * p
    <2>1. (2 * d * s) * w <= t * w /\ t * w < (2 * d * s + 2 * d) * w
        BY <1>2
    <2>2. (2 * d * s) * w = 2 * (s * p) /\ (2 * d * s + 2 * d) * w = 2 * (s * p) + 2 * p
        BY <1>2
    <2> QED
        BY <2>1, <2>2
<1>6. w * extent <= k * p
    <2>1. w * extent <= w * (d * k)
        OBVIOUS
    <2> QED
        BY <2>1
<1> DEFINE ap == a * p  sp == s * p  kp == k * p  nd == n * d  tw == t * w  we == w * extent
<1>7. ap \in Int /\ sp \in Int /\ kp \in Int /\ nd \in Int /\ tw \in Int /\ we \in Int
    BY <1>1, <1>2, <1>3
<1>8. nd - tw <= 2 * we /\ tw - nd <= 2 * we
    OBVIOUS
<1>9. (s + k + 1) * p = sp + kp + p /\ (a + k + 1) * p = ap + kp + p
    BY <1>1, <1>2, <1>3
<1>10. 2 * ap <= nd /\ nd < 2 * ap + 2 * p /\ 2 * sp <= tw /\ tw < 2 * sp + 2 * p /\ we <= kp
    BY <1>4, <1>5, <1>6
<1> HIDE DEF p, nd, tw, we, kp
<1>11. ap < sp + kp + p /\ sp < ap + kp + p
    <2> HIDE DEF ap, sp
    <2> QED
        BY <1>3, <1>7, <1>8, <1>10
<1>12. a < s + k + 1 /\ s < a + k + 1
    BY <1>1, <1>2, <1>3, <1>9, <1>11, Cancelled
<1> QED
    BY <1>1, <1>2, <1>12 DEF a, s

\* What the compositor shows is a pixel of the desktop.
LEMMA ShownInside ==
    ASSUME NEW at \in Int, NEW from \in Int, NEW drawn \in Nat \ {0}, NEW extent \in Nat \ {0},
           at \in from .. from + drawn - 1
    PROVE  Shown(at, from, drawn, extent) \in 0 .. extent - 1
<1> DEFINE t == 2 * (at - from) + 1
           a == t * extent
           b == 2 * drawn
           s == a \div b
<1>1. t \in 1 .. b - 1 /\ b \in Nat \ {0}
    OBVIOUS
<1>2. Shown(at, from, drawn, extent) = s
    BY DEF Shown
<1> HIDE DEF t, b
<1>3. a \in Nat /\ a < b * extent
    BY <1>1
<1> HIDE DEF a
<1>4. s \in Int /\ b * s <= a /\ a < b * s + b
    BY <1>1, <1>3, Quotient
<1> HIDE DEF s
<1>5. s < 0 => b * s + b <= 0
    BY <1>1, <1>4
<1>6. extent <= s => b * extent <= b * s
    BY <1>1, <1>4
<1> QED
    BY <1>1, <1>2, <1>3, <1>4, <1>5, <1>6

\* On the axis the desktop fills, a click means exactly the pixel shown there.
LEMMA FullAxis ==
    ASSUME NEW view \in Nat \ {0}, NEW extent \in Nat \ {0}, NEW at \in 0 .. view - 1
    PROVE  to_pixel(at, view, extent, [num |-> view, den |-> extent]) = Shown(at, 0, view, extent)
<1> DEFINE s == ((2 * at + 1) * extent) \div (2 * view)
<1>1. Shown(at, 0, view, extent) = s
    BY DEF Shown
<1>2. s \in 0 .. extent - 1
    BY <1>1, ShownInside
<1>3. (2 * at + 1) * extent - Greatest(view * extent - extent * view, 0) = (2 * at + 1) * extent
    BY DEF Greatest
<1>4. to_pixel(at, view, extent, [num |-> view, den |-> extent]) = clamp(s, 0, extent - 1)
    BY <1>3 DEF to_pixel
<1> HIDE DEF s
<1> QED
    BY <1>1, <1>2, <1>4 DEF clamp, Least, Greatest

\* At its own size, too, whatever the common scale is a fraction of.
LEMMA SameSize ==
    ASSUME NEW view \in Nat \ {0}, NEW num \in Nat \ {0}, NEW at \in 0 .. view - 1
    PROVE  to_pixel(at, view, view, [num |-> num, den |-> num]) = at /\ Shown(at, 0, view, view) = at
<1>1. ((2 * at + 1) * view) \div (2 * view) = at
    <2>1. /\ (2 * at + 1) * view \in Int /\ 2 * view \in Nat \ {0}
          /\ (2 * view) * at <= (2 * at + 1) * view
          /\ (2 * at + 1) * view < (2 * view) * at + 2 * view
        OBVIOUS
    <2> QED
        BY <2>1, Quotients
<1>2. ((2 * at + 1) * num) \div (2 * num) = at
    <2>1. /\ (2 * at + 1) * num \in Int /\ 2 * num \in Nat \ {0}
          /\ (2 * num) * at <= (2 * at + 1) * num
          /\ (2 * at + 1) * num < (2 * num) * at + 2 * num
        OBVIOUS
    <2> QED
        BY <2>1, Quotients
<1>3. (2 * at + 1) * num - Greatest(view * num - view * num, 0) = (2 * at + 1) * num
    BY DEF Greatest
<1>4. to_pixel(at, view, view, [num |-> num, den |-> num]) = clamp(at, 0, view - 1)
    BY <1>2, <1>3 DEF to_pixel
<1> QED
    BY <1>1, <1>4 DEF Shown, clamp, Least, Greatest

\* What the compositor draws of the desktop between its borders: as many pixels as
\* fit, rounded, and at least one.
LEMMA Drawn ==
    ASSUME NEW view \in Nat \ {0}, NEW extent \in Nat \ {0}, NEW num \in Nat \ {0}, NEW den \in Nat \ {0},
           num * extent <= view * den
    PROVE  LET d == scale(num * extent, den, view)
               b == num * extent
           IN  /\ d \in 1 .. view
               /\ d = 1 \/ (2 * (den * d - b) <= den /\ 2 * (b - den * d) <= den)
<1> DEFINE b == num * extent
           l == view * den
           q == (2 * b + den) \div (2 * den)
           d == scale(b, den, view)
<1>1. b \in Nat /\ l \in Nat /\ b <= l
    OBVIOUS
<1>2. d = clamp(q, 1, view)
    BY DEF scale
<1> HIDE DEF b, d
<1>3. q \in Int /\ 2 * den * q <= 2 * b + den /\ 2 * b + den < 2 * den * q + 2 * den
    <2>1. 2 * b + den \in Int /\ 2 * den \in Nat \ {0}
        BY <1>1
    <2> QED
        BY <2>1, Quotient
<1> HIDE DEF q
<1>4. q <= view
    <2>1. view < q => view * den + den <= q * den
        BY <1>3
    <2> QED
        BY <1>1, <1>3, <2>1
<1> HIDE DEF l
<1>5. d \in 1 .. view /\ (d = 1 \/ d = q)
    BY <1>2, <1>3, <1>4 DEF clamp, Least, Greatest
<1>6. d = q => 2 * (den * d - b) <= den /\ 2 * (b - den * d) <= den
    <2> DEFINE p == den * q
    <2>1. p \in Int /\ 2 * p <= 2 * b + den /\ 2 * b + den < 2 * p + 2 * den
        BY <1>1, <1>3
    <2> SUFFICES ASSUME d = q
                 PROVE  2 * (p - b) <= den /\ 2 * (b - p) <= den
        OBVIOUS
    <2> HIDE DEF p
    <2> QED
        BY <1>1, <2>1
<1> QED
    BY <1>5, <1>6 DEF b, d

\* On the axis with borders a click means a pixel no further from the one shown
\* there than one drawable pixel covers.
LEMMA BoxedAxis ==
    ASSUME NEW view \in Nat \ {0}, NEW extent \in Nat \ {0}, NEW num \in Nat \ {0}, NEW den \in Nat \ {0},
           num * extent <= view * den,
           NEW d, d = scale(num * extent, den, view),
           NEW at \in (view - d) \div 2 .. (view - d) \div 2 + d - 1
    PROVE  Distance(to_pixel(at, view, extent, [num |-> num, den |-> den]), Shown(at, (view - d) \div 2, d, extent))
             <= Slack(extent, d)
<1> DEFINE b == num * extent
           from == (view - d) \div 2
           edge == view - d - 2 * from
           t == 2 * (at - from) + 1
           n == (2 * at + 1) * den - (view * den - extent * num)
           a == n \div (2 * num)
           s == (t * extent) \div (2 * d)
           k == (extent + d - 1) \div d
<1>1. d \in 1 .. view /\ (d = 1 \/ (2 * (den * d - b) <= den /\ 2 * (b - den * d) <= den))
    BY Drawn
<1>2. from \in Nat /\ edge \in {0, 1} /\ from + d <= view
    <2>1. \A v \in Nat : v \div 2 \in Nat /\ v - 2 * (v \div 2) \in {0, 1} /\ v \div 2 <= v
        OBVIOUS
    <2>2. view - d \in Nat
        BY <1>1
    <2>3. from \in Nat /\ edge \in {0, 1} /\ from <= view - d
        BY <2>1, <2>2
    <2> HIDE DEF from, edge
    <2> QED
        BY <1>1, <2>3
<1>3. at \in from .. from + d - 1
    OBVIOUS
<1>4. at \in Nat /\ t \in 1 .. 2 * d - 1 /\ 2 * at + 1 - view = t - d - edge
    <2> HIDE DEF from
    <2>1. d \in Nat \ {0} /\ at \in Nat /\ from <= at /\ at <= from + d - 1
        BY <1>1, <1>2, <1>3
    <2>2. from \in Nat
        BY <1>2
    <2>3. t \in 1 .. 2 * d - 1
        BY <2>1, <2>2
    <2>4. 2 * at + 1 - view = t - d - edge
        BY <2>1, <2>2
    <2> QED
        BY <2>1, <2>3, <2>4
<1>5. to_pixel(at, view, extent, [num |-> num, den |-> den]) = clamp(a, 0, extent - 1)
    <2>1. Greatest(view * den - extent * num, 0) = view * den - extent * num
        BY DEF Greatest
    <2> QED
        BY <2>1 DEF to_pixel
<1>6. Shown(at, from, d, extent) = s /\ s \in 0 .. extent - 1
    <2>1. d \in Nat \ {0}
        BY <1>1
    <2>2. Shown(at, from, d, extent) \in 0 .. extent - 1
        <3>1. from \in Int /\ at \in Int
            BY <1>2, <1>4
        <3> HIDE DEF from
        <3> QED
            BY <1>3, <2>1, <3>1, ShownInside
    <2> QED
        BY <2>2 DEF Shown
<1>7. Slack(extent, d) = k /\ k \in Nat /\ extent <= d * k
    <2>1. extent + d - 1 \in Int /\ d \in Nat \ {0}
        BY <1>1
    <2>2. k \in Int /\ d * k <= extent + d - 1 /\ extent + d - 1 < d * k + d
        BY <2>1, Quotient
    <2>3. k < 0 => d * k + d <= 0
        BY <2>1, <2>2
    <2> HIDE DEF k
    <2> QED
        BY <2>1, <2>2, <2>3 DEF Slack, k
<1>8. n \in Int /\ t \in Int /\ d \in Nat \ {0} /\ b \in Nat
    <2>1. d \in Nat \ {0} /\ b \in Nat
        BY <1>1
    <2>2. n \in Int
        BY <1>4
    <2>3. t \in Int
        <3> HIDE DEF t
        <3> QED
            BY <1>4, <2>1
    <2> QED
        BY <2>1, <2>2, <2>3
<1>9. a \in Int
    <2>1. 2 * num \in Nat \ {0}
        OBVIOUS
    <2> HIDE DEF n
    <2> QED
        BY <1>8, <2>1, Quotient
<1>10. n = (t - d - edge) * den + b
    <2> DEFINE c == t - d - edge
    <2>1. 2 * at + 1 = c + view /\ c \in Int
        <3> HIDE DEF t, edge
        <3> QED
            BY <1>2, <1>4, <1>8
    <2> HIDE DEF c, t, edge
    <2>2. (2 * at + 1) * den = c * den + view * den
        BY <2>1
    <2>3. n = c * den + b
        BY <2>1, <2>2
    <2> QED
        BY <2>3 DEF c
<1> HIDE DEF from, edge, t, n, a, s, k
<1>11. CASE d = 1
    <2>1. extent <= k
        BY <1>7, <1>11
    <2> QED
        <3>1. clamp(a, 0, extent - 1) \in 0 .. extent - 1
            BY <1>9 DEF clamp, Least, Greatest
        <3>2. Distance(clamp(a, 0, extent - 1), s) <= k
            BY <1>6, <1>7, <2>1, <3>1 DEF Distance
        <3> QED
            BY <1>5, <1>6, <1>7, <3>2 DEF from
<1>12. CASE 2 * (den * d - b) <= den /\ 2 * (b - den * d) <= den
    <2> DEFINE e == den * d - b
               g == t - d
               x == g * (2 * e)
               dd == den * d
    <2>1. e \in Int /\ 2 * e \in -den .. den /\ g \in -(d - 1) .. d - 1 /\ dd \in Nat /\ e = dd - b
        BY <1>4, <1>8, <1>12
    <2>2. x \in Int /\ x <= (d - 1) * den /\ -((d - 1) * den) <= x /\ (d - 1) * den = dd - den
        <3> HIDE DEF e, g
        <3> QED
            BY <1>8, <2>1, Bounded
    <2>3. den <= dd
        BY <1>8
    <2>4. n * d - (t * extent) * num = g * e - edge * dd
        <3>1. t = g + d /\ g \in Int
            BY <1>8
        <3>2. n * d = (g - edge) * den * d + b * d
            BY <1>2, <1>8, <1>10
        <3>3. (t * extent) * num = t * b
            BY <1>8
        <3>4. (g - edge) * den * d = g * dd - edge * dd
            BY <1>2, <1>8, <3>1
        <3>5. t * b = g * b + d * b
            BY <1>8, <3>1
        <3>6. g * e = g * dd - g * b
            BY <1>8, <2>1, <3>1
        <3> QED
            BY <1>2, <1>8, <2>1, <3>1, <3>2, <3>3, <3>4, <3>5, <3>6
    <2>5. x = 2 * (g * e)
        BY <2>1
    <2>6. edge * dd \in {0, dd}
        BY <1>2, <2>1
    <2> DEFINE ge == g * e  ed == edge * dd
    <2>7. ge \in Int /\ ed \in Int
        BY <1>2, <2>1
    <2>8. ge - ed <= 2 * b /\ ed - ge <= 2 * b
        <3>1. 2 * ge <= dd - den /\ -(dd - den) <= 2 * ge
            BY <2>1, <2>2, <2>5
        <3>2. 2 * (dd - b) <= den /\ den <= dd /\ (ed = 0 \/ ed = dd)
            BY <1>12, <2>3, <2>6
        <3> HIDE DEF ge, ed, dd
        <3> QED
            BY <1>8, <2>1, <2>7, <3>1, <3>2
    <2>9. /\ n * d - (t * extent) * num <= 2 * (num * extent)
          /\ (t * extent) * num - n * d <= 2 * (num * extent)
        BY <1>8, <2>4, <2>7, <2>8
    <2>10. a - s <= k /\ s - a <= k
        <3>1. t * extent \in Int
            BY <1>8
        <3> HIDE DEF b
        <3> QED
            BY <1>7, <1>8, <2>9, <3>1, Near DEF a, s
    <2> HIDE DEF e, g, x, dd, ge, ed
    <2>11. Distance(clamp(a, 0, extent - 1), s) <= k
        BY <1>6, <1>7, <1>9, <2>10 DEF clamp, Least, Greatest, Distance
    <2> QED
        BY <1>5, <1>6, <1>7, <2>11 DEF from
<1> QED
    BY <1>1, <1>11, <1>12

LEMMA SlackIsNatural ==
    ASSUME NEW extent \in Nat, NEW d \in Nat \ {0}
    PROVE  0 <= Slack(extent, d)
<1> DEFINE k == (extent + d - 1) \div d
<1>1. k \in Int /\ d * k <= extent + d - 1 /\ extent + d - 1 < d * k + d
    <2>1. extent + d - 1 \in Int
        OBVIOUS
    <2> QED
        BY <2>1, Quotient
<1>2. k < 0 => d * k + d <= 0
    BY <1>1
<1> HIDE DEF k
<1> QED
    BY <1>1, <1>2 DEF Slack, k

\* A click lands on the pixel that the compositor shows under it, or no further
\* from it than one drawable pixel covers, although the two places are computed
\* apart and rounded differently (layout.rs present_layout, coords.rs to_pixel).
THEOREM ClicksAreExact == ClicksLandOnPixels
<1> SUFFICES ASSUME probe \in PlacementProbes
             PROVE  LET v == present_layout(probe.desktop, probe.drawable)
                    IN  /\ v.x + v.width <= probe.drawable.width /\ v.y + v.height <= probe.drawable.height
                        /\ v.width = probe.drawable.width \/ v.height = probe.drawable.height
                        /\ \A x \in v.x .. v.x + v.width - 1, y \in v.y .. v.y + v.height - 1 :
                             LET p == view_to_desktop([x |-> x, y |-> y], probe.drawable, probe.desktop)
                             IN  /\ Distance(p.x, Shown(x, v.x, v.width, probe.desktop.width)) <= Slack(probe.desktop.width, v.width)
                                 /\ Distance(p.y, Shown(y, v.y, v.height, probe.desktop.height)) <= Slack(probe.desktop.height, v.height)
    BY DEF ClicksLandOnPixels
<1> DEFINE desktop == probe.desktop  drawable == probe.drawable
           W == desktop.width  H == desktop.height  w == drawable.width  h == drawable.height
           v == present_layout(desktop, drawable)
           port == Viewport(drawable, desktop)
           Lands(x, y) == /\ Distance(to_pixel(x, w, W, port), Shown(x, v.x, v.width, W)) <= Slack(W, v.width)
                          /\ Distance(to_pixel(y, h, H, port), Shown(y, v.y, v.height, H)) <= Slack(H, v.height)
<1>1. /\ W \in Nat \ {0} /\ H \in Nat \ {0} /\ w \in Nat \ {0} /\ h \in Nat \ {0}
      /\ desktop = [width |-> W, height |-> H] /\ drawable = [width |-> w, height |-> h]
    BY ProbeAssumption DEF Extent
<1>2. port = IF w * H <= h * W THEN [num |-> w, den |-> W] ELSE [num |-> h, den |-> H]
    BY DEF Viewport
<1>3. \A x, y : /\ view_to_desktop([x |-> x, y |-> y], drawable, desktop).x = to_pixel(x, w, W, port)
                /\ view_to_desktop([x |-> x, y |-> y], drawable, desktop).y = to_pixel(y, h, H, port)
    BY DEF view_to_desktop
<1> SUFFICES /\ v.x + v.width <= w /\ v.y + v.height <= h
             /\ v.width = w \/ v.height = h
             /\ \A x \in v.x .. v.x + v.width - 1, y \in v.y .. v.y + v.height - 1 : Lands(x, y)
    BY <1>3
<1>4. (w - w) \div 2 = 0 /\ (h - h) \div 2 = 0
    BY <1>1
<1>5. \A a \in Nat : Distance(a, a) = 0
    BY DEF Distance
<1>6. Slack(W, w) >= 0 /\ Slack(H, h) >= 0
    BY <1>1, SlackIsNatural
<1>7. CASE desktop = drawable
    <2>1. v.x = 0 /\ v.y = 0 /\ v.width = w /\ v.height = h
        BY <1>7 DEF present_layout
    <2>2. W = w /\ H = h /\ port = [num |-> w, den |-> w]
        BY <1>1, <1>2, <1>7
    <2> HIDE DEF desktop, drawable, W, H, w, h, v, port
    <2>3. ASSUME NEW x \in 0 .. w - 1, NEW y \in 0 .. h - 1
          PROVE  Lands(x, y)
        <3>1. to_pixel(x, w, W, port) = x /\ Shown(x, 0, w, W) = x
            BY <1>1, <2>2, SameSize
        <3>2. to_pixel(y, h, H, port) = y /\ Shown(y, 0, h, H) = y
            BY <1>1, <2>2, SameSize
        <3> QED
            BY <1>5, <1>6, <2>1, <3>1, <3>2
    <2> QED
        BY <1>1, <2>1, <2>3
<1>8. CASE desktop # drawable /\ w * H <= h * W
    <2> DEFINE d == scale(w * H, W, h)
    <2>1. v.x = 0 /\ v.width = w /\ v.height = d /\ v.y = (h - d) \div 2
        BY <1>4, <1>8 DEF present_layout
    <2>2. port = [num |-> w, den |-> W]
        BY <1>2, <1>8
    <2> HIDE DEF desktop, drawable, W, H, w, h, v, port
    <2>3. d \in 1 .. h
        BY <1>1, <1>8, Drawn
    <2>4. ASSUME NEW x \in 0 .. w - 1, NEW y \in (h - d) \div 2 .. (h - d) \div 2 + d - 1
          PROVE  Lands(x, y)
        <3>1. to_pixel(x, w, W, port) = Shown(x, 0, w, W) /\ Shown(x, 0, w, W) \in Nat
            <4>1. x \in Int /\ x \in 0 .. 0 + w - 1 /\ 0 \in Int
                BY <1>1
            <4>2. Shown(x, 0, w, W) \in 0 .. W - 1
                BY <1>1, <4>1, ShownInside
            <4>3. Shown(x, 0, w, W) \in Nat
                BY <4>2
            <4> QED
                BY <1>1, <2>2, <4>3, FullAxis
        <3>2. Distance(to_pixel(y, h, H, port), Shown(y, (h - d) \div 2, d, H)) <= Slack(H, d)
            BY <1>1, <1>8, <2>2, BoxedAxis
        <3> HIDE DEF d
        <3> QED
            BY <1>5, <1>6, <2>1, <3>1, <3>2
    <2>5. v.y + v.height <= h
        <3> HIDE DEF d
        <3> QED
            BY <1>1, <2>1, <2>3
    <2> HIDE DEF d, Lands
    <2> QED
        BY <1>1, <2>1, <2>4, <2>5
<1>9. CASE desktop # drawable /\ ~(w * H <= h * W)
    <2> DEFINE d == scale(h * W, H, w)
    <2>1. v.y = 0 /\ v.height = h /\ v.width = d /\ v.x = (w - d) \div 2
        BY <1>4, <1>9 DEF present_layout
    <2>2. port = [num |-> h, den |-> H] /\ h * W <= w * H
        BY <1>1, <1>2, <1>9
    <2> HIDE DEF desktop, drawable, W, H, w, h, v, port
    <2>3. d \in 1 .. w
        BY <1>1, <2>2, Drawn
    <2>4. ASSUME NEW x \in (w - d) \div 2 .. (w - d) \div 2 + d - 1, NEW y \in 0 .. h - 1
          PROVE  Lands(x, y)
        <3>1. to_pixel(y, h, H, port) = Shown(y, 0, h, H) /\ Shown(y, 0, h, H) \in Nat
            <4>1. y \in Int /\ y \in 0 .. 0 + h - 1 /\ 0 \in Int
                BY <1>1
            <4>2. Shown(y, 0, h, H) \in 0 .. H - 1
                BY <1>1, <4>1, ShownInside
            <4>3. Shown(y, 0, h, H) \in Nat
                BY <4>2
            <4> QED
                BY <1>1, <2>2, <4>3, FullAxis
        <3>2. Distance(to_pixel(x, w, W, port), Shown(x, (w - d) \div 2, d, W)) <= Slack(W, d)
            BY <1>1, <2>2, BoxedAxis
        <3> HIDE DEF d
        <3> QED
            BY <1>5, <1>6, <2>1, <3>1, <3>2
    <2>5. v.x + v.width <= w
        <3> HIDE DEF d
        <3> QED
            BY <1>1, <2>1, <2>3
    <2> HIDE DEF d, Lands
    <2> QED
        BY <1>1, <2>1, <2>4, <2>5
<1> QED
    BY <1>7, <1>8, <1>9

\* Every layout that is tried is legal (layout.rs fit_to_caps).
LEMMA ProbedLayoutsAreLegal == LayoutIsLegal
<1>1. \A p \in LayoutProbes : p.width \in Int /\ p.height \in Int /\ p.max_area \in Nat /\ p.err \in Int \X Int
    BY ProbeAssumption
<1> QED
    BY <1>1, LayoutsAreLegal DEF LayoutIsLegal

\* All that the views compute of pixels and points agrees, for windows, screens,
\* desktops, frames, gestures and server limits of any size: layouts, clicks, the
\* wheel, panels, window frames and previews.
THEOREM PixelsAgree == PixelSpec => []PixelsAreExact
<1>1. NothingLostOrInvented => PixelsAreExact
    BY ProbedLayoutsAreLegal, ClicksAreExact, PanelsAreInside, WindowsAreFound, PreviewsAreExact
       DEF PixelsAreExact, PointerIsFaithful
<1>2. PixelSpec => []NothingLostOrInvented
    BY WheelIsExact
<1> QED
    BY <1>1, <1>2, PTL
================================================================================
