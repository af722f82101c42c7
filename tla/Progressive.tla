----------------------------- MODULE Progressive -----------------------------
(***************************************************************************)
(* drift-codec's ProgressiveCodec under the graphics client: tile states   *)
(* are taken out of the grid, decoded as the jobs of a round on the pool   *)
(* and put back; the k-th block of a tile in a REGION runs in round k.     *)
(* The jobs of a round own what they touch, so a round is one map over     *)
(* them, in whatever order the pool runs them.  Tables are kept as the     *)
(* code keeps them: maps that lack the keys nothing was stored under.      *)
(***************************************************************************)
EXTENDS ProgressiveTiles

VARIABLES
  codec,     \* ProgressiveCodec
  surfaces,  \* pixels of the surfaces in the client's books
  failed,    \* GfxClient::error: the leg ends
  received,  \* the last message
  messages   \* messages so far

progressiveVars == <<codec, surfaces, failed, received, messages>>

ProgressiveInit ==
  /\ codec = [contexts |-> <<>>, references |-> <<>>, frame_tiles |-> <<>>,
              frame_active |-> FALSE, surface_context_flags |-> <<>>]
  /\ surfaces = <<>> /\ failed = FALSE
  /\ received = [op |-> "none"] /\ messages = 0

\* A map without the keys that P drops, and what a map holds under a key.
Retain(map, P(_)) == [k \in {k \in DOMAIN map : P(k)} |-> map[k]]
Put(map, key, value) == [k \in DOMAIN map \cup {key} |-> IF k = key THEN value ELSE map[k]]
Get(map, key, absent) == IF key \in DOMAIN map THEN map[key] ELSE absent

-----------------------------------------------------------------------------
Occurrence(blocks, i) == Cardinality({j \in 1 .. i : blocks[j].tile = blocks[i].tile})

\* Round k holds the k-th occurrence of each tile.
Rounds(blocks) ==
  LET order == [i \in 1 .. Len(blocks) |-> i]
      round(k) == SelectSeq(order, LAMBDA i : Occurrence(blocks, i) = k)
      rounds == {Occurrence(blocks, i) : i \in DOMAIN blocks}
  IN [k \in 1 .. Cardinality(rounds) |-> [j \in DOMAIN round(k) |-> blocks[round(k)[j]]]]

\* The checks of a first pass and an upgrade, and of both.
first_pass(w, region, block) ==
  /\ block.difference => block.tile \in DOMAIN w.references
  /\ ValidQuant(block, region) /\ ValidQuality(block, region)
ensure_tile(w, t) == IF w.tiles[t] = NoTile THEN [w EXCEPT !.tiles[t] = NewTile(w.extrapolate)] ELSE w

\* prepare: validates one block and takes its tile and reference out.
prepare(w, region, block) ==
  LET t == block.tile
      Refuse == [w EXCEPT !.ok = FALSE]
      v == ensure_tile(w, t)
      Take == [v EXCEPT !.tiles[t] = NoTile,
                        !.references = Retain(@, LAMBDA k : k # t),
                        !.jobs = Append(@, [key |-> t, state |-> v.tiles[t], block |-> block,
                                            reference |-> Get(w.references, t, NoTile)])]
  IN CASE ~w.ok -> w
       [] w.ok /\ t \notin DOMAIN w.tiles -> Refuse
       [] w.ok /\ t \in DOMAIN w.tiles /\ block.type = "upgrade" ->
            IF v.tiles[t].pass = 0 THEN v ELSE IF ValidQuality(block, region) THEN Take ELSE Refuse
       [] OTHER -> IF first_pass(w, region, block) THEN Take ELSE Refuse

\* run: one job, on what it owns.
run(job, extrapolate) ==
  LET state == IF job.block.type = "upgrade" THEN UpgradePass(job.state, job.block)
               ELSE FirstPass(job.block, extrapolate, IF job.block.difference THEN job.reference ELSE <<>>)
  IN IF Corrupt(job.block) THEN [job EXCEPT !.state = NoTile]
     ELSE [job EXCEPT !.state = state, !.reference = state.coefficients]

\* Mutant: the jobs' references are not given back.
BugGiveBack(w, jobs) ==
  [w EXCEPT !.tiles = [t \in DOMAIN @ |->
                         IF \E j \in DOMAIN jobs : jobs[j].key = t
                         THEN jobs[CHOOSE j \in DOMAIN jobs : jobs[j].key = t].state ELSE @[t]],
            !.decoded = FoldLeft(LAMBDA d, job : Put(d, job.key, job.state), @, jobs),
            !.jobs = <<>>]

\* After a round every tile and reference goes back, and the pixels are kept.
GiveBack(w, jobs) ==
  FoldLeft(LAMBDA v, job : [v EXCEPT !.tiles[job.key] = job.state,
                                     !.references = Put(@, job.key, job.reference),
                                     !.decoded = Put(@, job.key, job.state)],
           [w EXCEPT !.jobs = <<>>], jobs)

RunRound(w, region, round) ==
  LET v == FoldLeft(LAMBDA a, block : prepare(a, region, block), w, round)
      jobs == [j \in DOMAIN v.jobs |-> run(v.jobs[j], w.extrapolate)]
  IN IF ~v.ok \/ \E j \in DOMAIN jobs : jobs[j].state = NoTile
     THEN [v EXCEPT !.ok = FALSE, !.jobs = <<>>] ELSE GiveBack(v, jobs)

decode_region_tiles(w, region) ==
  FoldLeft(LAMBDA v, round : RunRound(v, region, round), [w EXCEPT !.decoded = <<>>], Rounds(region.tiles))

-----------------------------------------------------------------------------
\* A REGION's rectangles clipped to the surface, and what of a tile is inside.
Lesser(a, b) == IF a < b THEN a ELSE b
clipping_region(region, width) ==
  UNION {Lesser(r.x, width) .. Lesser(r.x + r.width, width) - 1 : r \in region.rects}
visible_rects(clipping, t, width) ==
  clipping \cap (t * TILE_SIZE .. Lesser((t + 1) * TILE_SIZE, width) - 1)

\* The tiles to draw for a REGION: fresh ones from the jobs, those of earlier
\* payloads of the frame rendered again from the grid.
Drawn(w, region) ==
  LET clipping == clipping_region(region, Cardinality(DOMAIN w.pixels))
      rects(t) == visible_rects(clipping, t, Cardinality(DOMAIN w.pixels))
      has(t) == t \in DOMAIN w.decoded \/ (t \in DOMAIN w.tiles /\ w.tiles[t] # NoTile)
  IN {[origin |-> t * TILE_SIZE, data |-> Get(w.decoded, t, w.tiles[t]), update_rects |-> rects(t)] :
        t \in {u \in w.frame_tiles : rects(u) # {} /\ has(u)}}

\* BgraTile::blits and GfxClient::blit: only the update rectangles are written.
blit(pixels, tiles) ==
  [x \in DOMAIN pixels |->
    IF \E tile \in tiles : x \in tile.update_rects
    THEN LET tile == CHOOSE tile \in tiles : x \in tile.update_rects IN
         [tile |-> tile.data, at |-> x - tile.origin]
    ELSE pixels[x]]

\* One block of a payload: REGIONs count inside the first FRAME_BEGIN / FRAME_END.
\* The pixels are blitted when the whole payload has been decoded; until then
\* they are the tiles that decode returns.
Block(w, block) ==
  CASE ~w.ok -> w
    [] w.ok /\ block.kind = "begin" -> [w EXCEPT !.in_frame = @ \/ ~w.frame_ended]
    [] w.ok /\ block.kind = "end" -> [w EXCEPT !.in_frame = FALSE, !.frame_ended = TRUE]
    [] w.ok /\ block.kind = "region" /\ w.in_frame ->
         LET v == decode_region_tiles(w, block)
             u == [v EXCEPT !.frame_tiles = @ \cup DOMAIN v.decoded]
         IN IF ~v.ok THEN v ELSE [u EXCEPT !.pixels = blit(@, Drawn(u, block))]
    [] OTHER -> w

-----------------------------------------------------------------------------
begin_frame(k) == [k EXCEPT !.frame_tiles = <<>>, !.frame_active = TRUE]
end_frame(k) == [k EXCEPT !.frame_tiles = <<>>, !.frame_active = FALSE]
delete_context(k, s, c) ==
  [k EXCEPT !.contexts = Retain(@, LAMBDA key : key # <<s, c>>),
            !.frame_tiles = Retain(@, LAMBDA key : key # <<s, c>>)]

delete_surface(k, s) ==
  [k EXCEPT !.contexts = Retain(@, LAMBDA key : key[1] # s),
            !.references = Retain(@, LAMBDA key : key[1] # s),
            !.frame_tiles = Retain(@, LAMBDA key : key[1] # s),
            !.surface_context_flags = Retain(@, LAMBDA id : id # s)]
reset(k) == [k EXCEPT !.contexts = <<>>, !.frame_tiles = <<>>, !.frame_active = FALSE]

\* The context a payload decodes in: band layout from the payload, the context
\* or the surface; the grid, made anew when it does not fit the surface.
Work(k, s, c, stream) ==
  LET told == SelectSeq(stream, LAMBDA block : block.kind = "context")
      extrapolate == IF told # <<>> THEN told[1].extrapolate
                     ELSE IF <<s, c>> \in DOMAIN k.contexts THEN k.contexts[<<s, c>>].extrapolate
                     ELSE Get(k.surface_context_flags, s, NoTile)
      width == Cardinality(DOMAIN surfaces[s])
      old == Get(k.contexts, <<s, c>>, NewGrid(width, extrapolate))
      resized == DOMAIN old.tiles # 0 .. TileOf(width - 1)
  IN [extrapolate |-> extrapolate,
      tiles |-> IF resized THEN NewGrid(width, extrapolate).tiles ELSE old.tiles,
      frame_tiles |-> IF ~k.frame_active \/ resized THEN {} ELSE Get(k.frame_tiles, <<s, c>>, {}),
      references |-> [t \in {t \in 0 .. MaxTile : <<s, t>> \in DOMAIN k.references} |-> k.references[<<s, t>>]],
      flags |-> IF told # <<>> THEN Put(k.surface_context_flags, s, told[1].extrapolate) ELSE k.surface_context_flags,
      decoded |-> <<>>, jobs |-> <<>>, pixels |-> surfaces[s],
      in_frame |-> FALSE, frame_ended |-> FALSE, ok |-> extrapolate # NoTile]

\* wire_to_surface_2: decode, then blit; an error fails the channel's process.
decode(s, c, stream) ==
  LET w == FoldLeft(Block, Work(codec, s, c, stream), stream)
      others == Retain(codec.references, LAMBDA key : key[1] # s)
  IN IF ~w.ok THEN failed' = TRUE /\ UNCHANGED <<codec, surfaces>>
     ELSE /\ codec' = [codec EXCEPT
               !.contexts = Put(@, <<s, c>>, [extrapolate |-> w.extrapolate, tiles |-> w.tiles]),
               !.references = [key \in DOMAIN others \cup {<<s, t>> : t \in DOMAIN w.references} |->
                                 IF key[1] = s THEN w.references[key[2]] ELSE others[key]],
               !.frame_tiles = IF codec.frame_active THEN Put(@, <<s, c>>, w.frame_tiles) ELSE <<>>,
               !.surface_context_flags = w.flags]
          /\ surfaces' = [surfaces EXCEPT ![s] = w.pixels]
          /\ UNCHANGED failed

ResetGraphics ==
  /\ codec' = reset(FoldSet(LAMBDA s, k : delete_surface(k, s), codec, DOMAIN surfaces))
  /\ surfaces' = <<>>
  /\ UNCHANGED failed

\* handle_pdu, the messages that reach the progressive codec.
HandleMessage(m) ==
  CASE m.op = "WireToSurface2" -> m.surface \in DOMAIN surfaces /\ decode(m.surface, m.context, m.stream)
    [] m.op = "CreateSurface" ->
         /\ m.surface \notin DOMAIN surfaces
         /\ codec' = delete_surface(codec, m.surface)
         /\ surfaces' = Put(surfaces, m.surface, NewPixels(m.width))
         /\ UNCHANGED failed
    [] m.op = "DeleteSurface" ->
         /\ m.surface \in DOMAIN surfaces
         /\ codec' = delete_surface(codec, m.surface)
         /\ surfaces' = Retain(surfaces, LAMBDA s : s # m.surface)
         /\ UNCHANGED failed
    [] m.op = "ResetGraphics" -> ResetGraphics
    [] m.op = "DeleteEncodingContext" ->
         codec' = delete_context(codec, m.surface, m.context) /\ UNCHANGED <<surfaces, failed>>
    [] m.op = "StartFrame" -> codec' = begin_frame(codec) /\ UNCHANGED <<surfaces, failed>>
    [] m.op = "EndFrame" -> codec' = end_frame(codec) /\ UNCHANGED <<surfaces, failed>>

ProgressiveNext ==
  \E m \in Messages :
    /\ ~failed /\ messages < MaxMessages
    /\ received' = m /\ messages' = messages + 1
    /\ HandleMessage(m)

ProgressiveSpec == ProgressiveInit /\ [][ProgressiveNext]_progressiveVars

-----------------------------------------------------------------------------
Sequential == INSTANCE ProgressiveDecoder WITH
  flag <- [s \in TileSurfaces |-> Get(codec.surface_context_flags, s, NoTile)],
  grid <- [k \in Keys |-> Get(codec.contexts, k, NoTile)],
  reference <- [k \in TileSurfaces \X (0 .. MaxTile) |-> Get(codec.references, k, NoTile)],
  frame <- [k \in Keys |-> Get(codec.frame_tiles, k, {})],
  open <- codec.frame_active,
  screen <- [s \in TileSurfaces |-> Get(surfaces, s, NoTile)],
  ended <- failed,
  request <- received

\* The parallel decoder refuses what IronRDP's sequential one refuses, and shows
\* the same pixels and keeps the same tiles otherwise (progressive.rs: "mirrors
\* ... step for step", "produces bit-identical pixels").
MirrorsSequential == Sequential!DecoderSpec
=============================================================================
