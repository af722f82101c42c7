----------------------------- MODULE Compositing -----------------------------
(***************************************************************************)
(* From graphics PDUs to the screen.  GfxClient checks every PDU against   *)
(* its books of surfaces and cache slots and hands drawing calls to the    *)
(* render thread through a queue.  The compositor records GPU commands and *)
(* commits them at EndFrame; the GPU executes them later, reading decoded  *)
(* video pictures from buffers that the decoder reuses once nobody holds   *)
(* them.  `reference` is the repository's CPU model of the compositor      *)
(* (reference.rs), which draws each call at once.                          *)
(*                                                                         *)
(* Images are strips, one pixel high: a rectangle is [x, width], and every *)
(* rule below applies to the second dimension alike.  Textures are always  *)
(* allocated, and drawables vary.                                          *)
(***************************************************************************)
EXTENDS Naturals, Sequences, FiniteSets, SequencesExt

CONSTANTS
  Surfaces,     \* surface ids
  Slots,        \* cache slot numbers the server uses
  MaxSlot,      \* MAX_CACHE_SLOTS
  Buffers,      \* the decoder's picture buffers
  Sizes,        \* surface sizes
  Strips,       \* the rectangles the server names, [x, width]
  Points,       \* the points it names
  Output,       \* the output size of ResetGraphics
  MaxPdus,      \* bound: PDUs
  MaxCalls,     \* bound: calls waiting for the render thread
  MaxCommits    \* bound: command buffers waiting for the GPU

MaxId == 65535   \* a u16

ASSUME CompositingAssumption ==
  /\ {MaxPdus, MaxCalls, MaxCommits, MaxSlot, Output} \subseteq Nat
  /\ Surfaces \subseteq 0 .. MaxId
  /\ Sizes \subseteq Nat \ {0} /\ Points \subseteq Nat
  /\ Strips \subseteq [x : Nat, width : Nat]
  /\ \A b \in Buffers : b \in Nat /\ b > 2 + MaxPdus   \* no pixel value

VARIABLES
  books,      \* GfxState: size of every surface and of every cached image
  leg,        \* "New" before its ResetGraphics, "Ready", or "Failed" on a bad PDU
  calls,      \* sink calls on their way to the render thread
  scene,      \* the compositor's surfaces and cache
  visible,    \* whether the compositor presents
  work,       \* picture buffers the commands being recorded read, and those kept alive
  commits,    \* committed command buffers the GPU has not executed
  buffers,    \* what each decoded picture buffer holds
  pictures,   \* pictures decoded so far
  screen,     \* the last picture presented and the one the server ended
  reference,  \* the CPU model
  pdus        \* PDUs so far

gfxVars == <<books, leg, calls, scene, visible, work, commits, buffers, pictures, screen, reference, pdus>>

Black == 0
Fill == 1
Tile == 2
PictureValue(n) == 2 + n   \* the pixels of the n-th decoded picture
NoRect == [x |-> 0, width |-> 0]
Smaller(a, b) == IF a < b THEN a ELSE b
Blank(n) == [x \in 0 .. n - 1 |-> Black]
NoImage == Blank(0)
Size(image) == Cardinality(DOMAIN image)

-----------------------------------------------------------------------------
(* Clipping, and the copies of both compositors.                            *)

clip_rect(r, bounds) ==
  IF r.width = 0 \/ r.x >= bounds THEN NoRect ELSE [x |-> r.x, width |-> Smaller(r.width, bounds - r.x)]

\* How much of `r` of the source lands at `at` of the destination.
clip_copy(r, bounds, at, room) ==
  clip_rect([x |-> at, width |-> clip_rect(r, bounds).width], room).width

\* The pixels of the destination that one copy writes.
copied(source, r, dest, at) == {x \in DOMAIN dest : at <= x /\ x < at + clip_copy(r, Size(source), at, Size(dest))}

\* A copy to each destination in turn: the last one to write a pixel wins.
Everywhere(source, r, dest, dests) ==
  LET writers(x) == {k \in DOMAIN dests : x \in copied(source, r, dest, dests[k])}
  IN  [x \in DOMAIN dest |-> IF writers(x) = {} THEN dest[x] ELSE source[r.x + x - dests[Max(writers(x))]]]

crop(image, r) == [x \in 0 .. r.width - 1 |-> image[r.x + x]]
Paint(image, rects, value) ==
  [x \in DOMAIN image |-> IF \E r \in rects : r.x <= x /\ x < r.x + r.width THEN value ELSE image[x]]

\* Black, then every mapped surface in the order of the ids.
Compose(surfaces) ==
  LET mapped == {i \in Surfaces : surfaces[i].image # NoImage /\ surfaces[i].mapped}
      Top(x) == {i \in mapped : surfaces[i].origin <= x /\ x < surfaces[i].origin + Size(surfaces[i].image)}
  IN  [x \in 0 .. Output - 1 |->
         IF Top(x) = {} THEN Black
         ELSE LET i == Max(Top(x)) IN surfaces[i].image[x - surfaces[i].origin]]

-----------------------------------------------------------------------------
(* CpuCompositor.                                                           *)

NoSurface == [image |-> NoImage, mapped |-> FALSE, origin |-> 0]
NewSurface(n) == [image |-> Blank(n), mapped |-> FALSE, origin |-> 0]
Empty == [surfaces |-> [i \in Surfaces |-> NoSurface], cache |-> [s \in Slots |-> NoImage]]
Image(c, i) == c.surfaces[i].image
Exists(c, i) == Image(c, i) # NoImage
WithImage(c, i, image) == [c EXCEPT !.surfaces[i].image = image]

\* CpuCompositor's methods: what a call does at once.
CpuCall(c, call) ==
  CASE call.op = "reset" -> Empty
    [] call.op = "create" -> [c EXCEPT !.surfaces[call.id] = NewSurface(call.size)]
    [] call.op = "delete" -> [c EXCEPT !.surfaces[call.id] = NoSurface]
    [] call.op = "map" -> IF Exists(c, call.id)
                          THEN [c EXCEPT !.surfaces[call.id].mapped = TRUE, !.surfaces[call.id].origin = call.at]
                          ELSE c
    [] call.op \in {"fill", "bgra", "nv12"} ->
         IF ~Exists(c, call.id) THEN c
         ELSE WithImage(c, call.id, Paint(Image(c, call.id), call.rects, call.value))
    [] call.op = "surface_to_surface" ->
         LET r == clip_rect(call.rect, Size(Image(c, call.src))) IN
         IF ~Exists(c, call.src) \/ ~Exists(c, call.id) \/ r.width = 0 THEN c
         ELSE LET snapshot == crop(Image(c, call.src), r)
              IN  WithImage(c, call.id,
                    Everywhere(snapshot, [x |-> 0, width |-> r.width], Image(c, call.id), call.dests))
    [] call.op = "surface_to_cache" ->
         LET r == clip_rect(call.rect, Size(Image(c, call.id))) IN
         IF ~Exists(c, call.id) \/ r.width = 0 THEN c
         ELSE [c EXCEPT !.cache[call.slot] = crop(Image(c, call.id), r)]
    [] call.op = "cache_to_surface" ->
         LET image == c.cache[call.slot] IN
         IF image = NoImage \/ ~Exists(c, call.id) THEN c
         ELSE WithImage(c, call.id,
                Everywhere(image, [x |-> 0, width |-> Size(image)], Image(c, call.id), call.dests))
    [] call.op = "evict" -> [c EXCEPT !.cache[call.slot] = NoImage]

-----------------------------------------------------------------------------
(* GfxClient: a PDU against the books.                                      *)

Within(r, size) == r.x + r.width <= size
check_slot(slot) == slot # 0 /\ slot <= MaxSlot

\* Rectangles clipped to the surface, empty ones dropped.
Clipped(rects, size) == {clip_rect(r, size) : r \in rects} \ {NoRect}
NoBooks == [surfaces |-> [i \in Surfaces |-> 0], cache |-> [s \in Slots |-> 0]]

\* Whether the client accepts the PDU (handle_pdu returns no error).
Accepts(b, pdu) ==
  CASE pdu.op = "reset" -> TRUE
    [] pdu.op = "create" -> pdu.size # 0 /\ b.surfaces[pdu.id] = 0
    [] pdu.op = "delete" -> TRUE
    [] pdu.op \in {"map", "fill", "nv12"} -> b.surfaces[pdu.id] # 0
    [] pdu.op = "bgra" -> b.surfaces[pdu.id] # 0 /\ \A r \in pdu.rects : Within(r, b.surfaces[pdu.id])
    [] pdu.op = "surface_to_surface" ->
         /\ b.surfaces[pdu.src] # 0 /\ b.surfaces[pdu.id] # 0
         /\ Within(pdu.rect, b.surfaces[pdu.src])
         /\ \A at \in Range(pdu.dests) : Within([x |-> at, width |-> pdu.rect.width], b.surfaces[pdu.id])
    [] pdu.op = "surface_to_cache" ->
         b.surfaces[pdu.id] # 0 /\ Within(pdu.rect, b.surfaces[pdu.id]) /\ check_slot(pdu.slot)
    [] pdu.op = "cache_to_surface" ->
         /\ b.cache[pdu.slot] # 0 /\ b.surfaces[pdu.id] # 0
         /\ \A at \in Range(pdu.dests) :
              Within([x |-> at, width |-> b.cache[pdu.slot] - 1], b.surfaces[pdu.id])
    [] pdu.op = "evict" -> check_slot(pdu.slot)

\* The books after an accepted PDU.  A cache entry is its width plus one, 0
\* when the slot is free: an image cut from an empty rectangle has width 0.
Book(b, pdu) ==
  CASE pdu.op = "reset" -> NoBooks
    [] pdu.op = "create" -> [b EXCEPT !.surfaces[pdu.id] = pdu.size]
    [] pdu.op = "delete" -> [b EXCEPT !.surfaces[pdu.id] = 0]
    [] pdu.op = "surface_to_cache" -> [b EXCEPT !.cache[pdu.slot] = pdu.rect.width + 1]
    [] pdu.op = "evict" -> [b EXCEPT !.cache[pdu.slot] = 0]
    [] OTHER -> b

\* The sink call of an accepted PDU, if it makes one.
SinkCalls(b, pdu) ==
  CASE pdu.op = "delete" -> IF b.surfaces[pdu.id] = 0 THEN << >> ELSE <<pdu>>
    [] pdu.op = "evict" -> IF b.cache[pdu.slot] = 0 THEN << >> ELSE <<pdu>>
    [] pdu.op \in {"fill", "nv12"} ->
         LET rects == Clipped(pdu.rects, b.surfaces[pdu.id])
         IN  IF rects = {} THEN << >> ELSE <<[pdu EXCEPT !.rects = rects]>>
    [] OTHER -> <<pdu>>

\* What drawing it at once gives.
DrawnAtOnce(c, new) == IF new = << >> THEN c ELSE CpuCall(c, Head(new))

\* Everything the server may send, apart from video and the end of a frame.
Pdus ==
  [op : {"reset"}]
  \cup [op : {"create"}, id : Surfaces, size : Sizes]
  \cup [op : {"delete"}, id : Surfaces]
  \cup [op : {"map"}, id : Surfaces, at : Points]
  \cup [op : {"fill"}, id : Surfaces, rects : {{r} : r \in Strips}, value : {Fill}]
  \cup [op : {"bgra"}, id : Surfaces, rects : {{r} : r \in Strips}, value : {Tile}]
  \cup [op : {"surface_to_surface"}, src : Surfaces, id : Surfaces, rect : Strips,
        dests : {<<p>> : p \in Points} \cup {<<p, q>> : p, q \in Points}]
  \cup [op : {"surface_to_cache"}, id : Surfaces, rect : Strips, slot : Slots]
  \cup [op : {"cache_to_surface"}, slot : Slots, id : Surfaces, dests : {<<p>> : p \in Points}]
  \cup [op : {"evict"}, slot : Slots]

-----------------------------------------------------------------------------
(* The compositor.                                                          *)

\* Mutant: without the scratch texture a second destination of a copy within
\* one surface reads what the first one wrote.
BugSurfaceToSurface(c, call) ==
  LET r == clip_rect(call.rect, Size(Image(c, call.src))) IN
  IF ~Exists(c, call.src) \/ ~Exists(c, call.id) \/ r.width = 0 THEN c
  ELSE IF call.src # call.id
    THEN WithImage(c, call.id, Everywhere(Image(c, call.src), r, Image(c, call.id), call.dests))
    ELSE WithImage(c, call.id, FoldLeft(LAMBDA image, at : Everywhere(image, r, image, <<at>>), Image(c, call.id), call.dests))

\* Within one surface the source is staged in a scratch texture first.
surface_to_surface(c, call) ==
  LET r == clip_rect(call.rect, Size(Image(c, call.src))) IN
  IF ~Exists(c, call.src) \/ ~Exists(c, call.id) \/ r.width = 0 THEN c
  ELSE IF call.src # call.id
    THEN WithImage(c, call.id, Everywhere(Image(c, call.src), r, Image(c, call.id), call.dests))
    ELSE LET scratch == crop(Image(c, call.src), r)
         IN  WithImage(c, call.id,
               Everywhere(scratch, [x |-> 0, width |-> r.width], Image(c, call.id), call.dests))

\* A video picture is drawn as a reference to its buffer: the GPU reads it when
\* it executes the command.  The other calls draw as the CPU model does.
Record(c, call) ==
  CASE call.op = "nv12" ->
         IF ~Exists(c, call.id) THEN c
         ELSE WithImage(c, call.id, Paint(Image(c, call.id), call.rects, call.buffer))
    [] call.op = "surface_to_surface" -> surface_to_surface(c, call)
    [] OTHER -> CpuCall(c, call)

\* What the pixels read from the buffers in `from` turn out to be.
Resolve(image, from) == [x \in DOMAIN image |-> IF image[x] \in from THEN buffers[image[x]] ELSE image[x]]
ResolveAll(c, from) ==
  [surfaces |-> [i \in Surfaces |-> [c.surfaces[i] EXCEPT !.image = Resolve(@, from)]],
   cache |-> [s \in Slots |-> Resolve(c.cache[s], from)]]

\* Buffers that a queued call, the recorded commands or a committed buffer holds.
Held ==
  {calls[k].buffer : k \in {j \in DOMAIN calls : calls[j].op = "nv12"}}
  \cup work.keep
  \cup UNION {commits[k].keep : k \in DOMAIN commits}

NoWork == [reads |-> {}, keep |-> {}]

-----------------------------------------------------------------------------
\* A leg on which the server created, drew and mapped one surface.
Start(i, n) ==
  [Empty EXCEPT !.surfaces[i] = [image |-> [x \in 0 .. n - 1 |-> IF x = 0 THEN Tile ELSE Black],
                                 mapped |-> TRUE, origin |-> 0]]

GfxInit ==
  /\ \E i \in Surfaces, n \in Sizes :
       /\ reference = Start(i, n)
       /\ books = [NoBooks EXCEPT !.surfaces[i] = n]
  /\ scene = reference
  /\ leg = "Ready"
  /\ visible = TRUE
  /\ calls = << >>
  /\ work = NoWork
  /\ commits = << >>
  /\ buffers = [b \in Buffers |-> Black]
  /\ pictures = 0
  /\ screen = [shown |-> << >>, ended |-> << >>]
  /\ pdus = 0

\* A PDU arrives.  A new leg starts with ResetGraphics: the server's part.
Arrives(op) ==
  /\ leg = "Ready" \/ (leg = "New" /\ op = "reset")
  /\ pdus < MaxPdus /\ Len(calls) < MaxCalls
  /\ pdus' = pdus + 1

\* RenderSink: each call is one message of the render thread's channel, what it
\* borrows copied into it.  SharedSink: the sink of all legs, behind one lock.
RenderSink(queue, new) == queue \o new
SharedSink(new) == calls' = RenderSink(calls, new)

\* Refused: the client's books or, for a tile's payload, the codec will not have it.
HandlePdu(pdu) ==
  /\ Arrives(pdu.op)
  /\ \/ /\ Accepts(books, pdu)
        /\ books' = Book(books, pdu)
        /\ SharedSink(SinkCalls(books, pdu))
        /\ reference' = DrawnAtOnce(reference, SinkCalls(books, pdu))
        /\ leg' = "Ready"
     \/ /\ ~Accepts(books, pdu) \/ pdu.op = "bgra"
        /\ leg' = "Failed"
        /\ UNCHANGED <<books, calls, reference>>
  /\ UNCHANGED <<scene, visible, work, commits, buffers, pictures, screen>>

\* AVC420: the decoder fills a buffer nobody holds, whether or not a region of
\* the picture is visible; later pictures refer to this one.  It may have no
\* picture yet, and its error ends the leg as a surface that is not there does.
HandleVideo(id, rects, b) ==
  LET pdu == [op |-> "nv12", id |-> id, rects |-> rects, buffer |-> b, value |-> PictureValue(pictures + 1)] IN
  /\ Arrives("nv12")
  /\ \/ /\ Accepts(books, pdu) /\ b \notin Held
        /\ buffers' = [buffers EXCEPT ![b] = pdu.value]
        /\ pictures' = pictures + 1
        /\ SharedSink(SinkCalls(books, pdu))
        /\ reference' = DrawnAtOnce(reference, SinkCalls(books, pdu))
        /\ leg' = leg
     \/ /\ Accepts(books, pdu)
        /\ UNCHANGED <<leg, buffers, pictures, calls, reference>>
     \/ leg' = "Failed" /\ UNCHANGED <<buffers, pictures, calls, reference>>
  /\ UNCHANGED <<books, scene, visible, work, commits, screen>>

\* EndFrame and set_visible travel in order with the drawing calls.
HandleEndFrame ==
  /\ Arrives("end_frame")
  /\ SharedSink(<<[op |-> "end_frame", ended |-> Compose(reference.surfaces)]>>)
  /\ UNCHANGED <<books, leg, scene, visible, work, commits, buffers, pictures, screen, reference>>

SetVisible(v) ==
  /\ Arrives("set_visible")
  /\ SharedSink(<<[op |-> "set_visible", value |-> v]>>)
  /\ UNCHANGED <<books, leg, scene, visible, work, commits, buffers, pictures, screen, reference>>

\* After a protocol error the next leg's GfxClient draws into the same sink.
NextLeg ==
  /\ leg = "Failed"
  /\ leg' = "New"
  /\ books' = NoBooks
  /\ UNCHANGED <<calls, scene, visible, work, commits, buffers, pictures, screen, reference, pdus>>

\* blit_nv12 keeps the picture alive with the command buffer that reads it.
Keep(call) == {call.buffer}

\* The render thread takes one call.  end_frame composes and presents when a
\* drawable is there, and commits the recorded commands in any case.
RenderCall(drawable) ==
  /\ calls # << >>
  /\ calls' = Tail(calls)
  /\ LET call == Head(calls) IN
     CASE call.op = "end_frame" ->
            /\ Len(commits) < MaxCommits
            /\ commits' = Append(commits,
                 [reads |-> work.reads, keep |-> work.keep, shows |-> visible /\ drawable,
                  picture |-> Compose(scene.surfaces), ended |-> call.ended])
            /\ work' = NoWork
            /\ UNCHANGED <<scene, visible>>
       [] call.op = "set_visible" -> visible' = call.value /\ UNCHANGED <<scene, work, commits>>
       [] OTHER ->
            /\ scene' = Record(scene, call)
            /\ work' = IF call.op = "nv12" /\ Exists(scene, call.id)
                       THEN [reads |-> work.reads \cup {call.buffer}, keep |-> work.keep \cup Keep(call)]
                       ELSE work
            /\ UNCHANGED <<visible, commits>>
  /\ UNCHANGED <<books, leg, buffers, pictures, screen, reference, pdus>>

\* The GPU executes the oldest command buffer: it reads the pictures, shows the
\* frame and lets go of what the buffer kept.
GpuComplete ==
  /\ commits # << >>
  /\ LET done == Head(commits) IN
     /\ commits' = [k \in 1 .. Len(commits) - 1 |->
                      [commits[k + 1] EXCEPT !.picture = Resolve(@, done.reads)]]
     /\ scene' = ResolveAll(scene, done.reads)
     /\ screen' = IF done.shows
                  THEN [shown |-> Resolve(done.picture, done.reads), ended |-> done.ended]
                  ELSE screen
  /\ UNCHANGED <<books, leg, calls, visible, work, buffers, pictures, reference, pdus>>

GfxNext ==
  \/ \E pdu \in Pdus : HandlePdu(pdu)
  \/ \E id \in Surfaces, r \in Strips, b \in Buffers : HandleVideo(id, {r}, b)
  \/ HandleEndFrame
  \/ \E v \in BOOLEAN : SetVisible(v)
  \/ NextLeg
  \/ \E drawable \in BOOLEAN : RenderCall(drawable)
  \/ GpuComplete

GfxSpec == GfxInit /\ [][GfxNext]_gfxVars

-----------------------------------------------------------------------------
\* Every presented frame is the picture the server had ended: the queue, the
\* scratch texture of overlapping copies, the order of command buffers and the
\* reuse of decoder buffers never show (client.rs, thread.rs, compositor.rs).
PresentedIsExact == screen.shown = screen.ended

\* Once the render thread has drained its queue, its surfaces and cache slots
\* are the ones the client checks PDUs against (state.rs), so that "already
\* bounds-checked" holds where the calls are executed.
BooksMatchScene ==
  calls = << >> /\ leg = "Ready" =>
    /\ \A i \in Surfaces : Size(Image(scene, i)) = books.surfaces[i]
    /\ \A s \in Slots : /\ books.cache[s] = 0 => scene.cache[s] = NoImage
                        /\ books.cache[s] > 1 => Size(scene.cache[s]) + 1 = books.cache[s]

\* What the client believes of the render thread is so: its books, against which
\* it checks the server's PDUs, and the frame it acknowledges as presented
\* (state.rs, client.rs, thread.rs).
RenderedIsExact == PresentedIsExact /\ BooksMatchScene
=============================================================================
