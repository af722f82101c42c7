-------------------------- MODULE ProgressiveDecoder --------------------------
(***************************************************************************)
(* RFX Progressive as the decoder of IronRDP defines it: the tiles of a    *)
(* REGION one after the other, and then every pixel of the REGION that     *)
(* belongs to a tile of the frame shows that tile as it stands.  This is   *)
(* what the parallel ProgressiveCodec of drift-codec promises to match.    *)
(***************************************************************************)
EXTENDS ProgressiveTiles

VARIABLES
  flag,       \* last band layout a CONTEXT announced, per surface
  grid,       \* tiles of each (surface, context), or NoTile
  reference,  \* last coefficients of each tile of a surface, or NoTile
  frame,      \* tiles decoded in the open frame, per (surface, context)
  open,       \* between StartFrame and EndFrame
  screen,     \* pixels of each surface, or NoTile when it does not exist
  ended,      \* a payload was refused: the leg is over
  request     \* the last message

decoderVars == <<flag, grid, reference, frame, open, screen, ended, request>>

\* The pixels a REGION covers of a surface this wide.
Covered(region, width) ==
  {x \in 0 .. width - 1 : \E r \in region.rects : r.x <= x /\ x < r.x + r.width}

\* The REGIONs of a payload: those inside its first FRAME_BEGIN and FRAME_END.
Regions(stream) ==
  LET counts(i) == /\ stream[i].kind = "region"
                   /\ \E b \in 1 .. i - 1 : stream[b].kind = "begin"
                   /\ \A e \in 1 .. i - 1 : stream[e].kind # "end"
      picked == SelectSeq([i \in 1 .. Len(stream) |-> i], counts)
  IN [k \in 1 .. Len(picked) |-> stream[picked[k]]]

\* The band layout the payload itself announces, or NoTile.
Signalled(stream) ==
  LET told == {i \in 1 .. Len(stream) : stream[i].kind = "context"} IN
  IF told = {} THEN NoTile ELSE stream[CHOOSE i \in told : \A j \in told : i <= j].extrapolate

-----------------------------------------------------------------------------
\* One tile block.  w holds the tiles, references and frame tiles of the
\* payload's surface and context, its pixels, and whether all went well.
DecodeTile(w, region, block, extrapolate) ==
  LET t == block.tile
      Refuse == [w EXCEPT !.ok = FALSE]
      created == IF w.tiles[t] = NoTile THEN NewTile(extrapolate) ELSE w.tiles[t]
      Store(state) == [w EXCEPT !.tiles[t] = state, !.reference[t] = state.coefficients, !.frame = @ \cup {t}]
  IN IF ~w.ok \/ t \notin DOMAIN w.tiles THEN Refuse
     ELSE IF block.type = "upgrade"
       THEN IF created.pass = 0 THEN [w EXCEPT !.tiles[t] = created]
            ELSE IF ~ValidQuality(block, region) \/ Corrupt(block) THEN Refuse
            ELSE Store(UpgradePass(created, block))
     ELSE IF \/ block.difference /\ w.reference[t] = NoTile
             \/ ~ValidQuant(block, region) \/ ~ValidQuality(block, region) \/ Corrupt(block)
       THEN Refuse
       ELSE Store(FirstPass(block, extrapolate, IF block.difference THEN w.reference[t] ELSE <<>>))

DecodeRegion(w, region, extrapolate) ==
  LET v == FoldLeft(LAMBDA a, block : DecodeTile(a, region, block, extrapolate), w, region.tiles)
      covered == Covered(region, Cardinality(DOMAIN w.pixels))
  IN [v EXCEPT !.pixels = [x \in DOMAIN @ |->
        IF x \in covered /\ TileOf(x) \in v.frame /\ v.tiles[TileOf(x)] # NoTile
        THEN [tile |-> v.tiles[TileOf(x)], at |-> x % TILE_SIZE] ELSE @[x]]]

DecodeBitmap(s, c, stream) ==
  LET announced == IF Signalled(stream) = NoTile THEN flag[s] ELSE Signalled(stream)
      extrapolate == IF Signalled(stream) = NoTile /\ grid[<<s, c>>] # NoTile
                     THEN grid[<<s, c>>].extrapolate ELSE announced
      width == Cardinality(DOMAIN screen[s])
      old == IF grid[<<s, c>>] = NoTile THEN NewGrid(width, extrapolate) ELSE grid[<<s, c>>]
      fresh == DOMAIN old.tiles # 0 .. TileOf(width - 1)
      start == [tiles |-> IF fresh THEN NewGrid(width, extrapolate).tiles ELSE old.tiles,
                reference |-> [t \in 0 .. MaxTile |-> reference[<<s, t>>]],
                frame |-> IF ~open \/ fresh THEN {} ELSE frame[<<s, c>>],
                pixels |-> screen[s], ok |-> extrapolate # NoTile]
      done == FoldLeft(LAMBDA w, region : DecodeRegion(w, region, extrapolate), start, Regions(stream))
  IN IF ~done.ok
     THEN ended' = TRUE /\ UNCHANGED <<flag, grid, reference, frame, open, screen>>
     ELSE /\ flag' = [flag EXCEPT ![s] = announced]
          /\ grid' = [grid EXCEPT ![<<s, c>>] = [extrapolate |-> extrapolate, tiles |-> done.tiles]]
          /\ reference' = [k \in DOMAIN reference |->
                             IF k[1] = s THEN done.reference[k[2]] ELSE reference[k]]
          /\ frame' = [k \in Keys |-> IF ~open THEN {} ELSE IF k = <<s, c>> THEN done.frame ELSE frame[k]]
          /\ screen' = [screen EXCEPT ![s] = done.pixels]
          /\ UNCHANGED <<open, ended>>

-----------------------------------------------------------------------------
\* A surface that goes, or an id used anew, leaves no tile behind.
Forget(gone) ==
  /\ flag' = [s \in TileSurfaces |-> IF s \in gone THEN NoTile ELSE flag[s]]
  /\ grid' = [k \in Keys |-> IF k[1] \in gone THEN NoTile ELSE grid[k]]
  /\ reference' = [k \in DOMAIN reference |-> IF k[1] \in gone THEN NoTile ELSE reference[k]]
  /\ frame' = [k \in Keys |-> IF k[1] \in gone THEN {} ELSE frame[k]]

Exist == {s \in TileSurfaces : screen[s] # NoTile}

\* One message of the graphics channel, applied to the reference decoder.
Receive(m) ==
  /\ ~ended
  /\ CASE m.op = "WireToSurface2" -> m.surface \in Exist /\ DecodeBitmap(m.surface, m.context, m.stream)
       [] m.op = "CreateSurface" ->
            /\ m.surface \notin Exist
            /\ Forget({m.surface})
            /\ screen' = [screen EXCEPT ![m.surface] = NewPixels(m.width)]
            /\ UNCHANGED <<open, ended>>
       [] m.op = "DeleteSurface" ->
            /\ m.surface \in Exist
            /\ Forget({m.surface})
            /\ screen' = [screen EXCEPT ![m.surface] = NoTile]
            /\ UNCHANGED <<open, ended>>
       [] m.op = "ResetGraphics" ->
            /\ Forget(Exist)
            /\ screen' = [s \in TileSurfaces |-> NoTile]
            /\ open' = FALSE /\ UNCHANGED ended
       [] m.op = "DeleteEncodingContext" ->
            /\ grid' = [grid EXCEPT ![<<m.surface, m.context>>] = NoTile]
            /\ frame' = [frame EXCEPT ![<<m.surface, m.context>>] = {}]
            /\ UNCHANGED <<flag, reference, open, screen, ended>>
       [] OTHER ->
            /\ open' = (m.op = "StartFrame")
            /\ frame' = [k \in Keys |-> {}]
            /\ UNCHANGED <<flag, grid, reference, screen, ended>>

DecoderInit ==
  /\ flag = [s \in TileSurfaces |-> NoTile]
  /\ grid = [k \in Keys |-> NoTile]
  /\ reference = [k \in TileSurfaces \X (0 .. MaxTile) |-> NoTile]
  /\ frame = [k \in Keys |-> {}]
  /\ open = FALSE /\ ended = FALSE
  /\ screen = [s \in TileSurfaces |-> NoTile]
  /\ request = [op |-> "none"]

DecoderNext == \E m \in Messages : request' = m /\ Receive(m)
DecoderSpec == DecoderInit /\ [][DecoderNext]_decoderVars
=============================================================================
