--------------------------- MODULE ProgressiveTiles ---------------------------
(***************************************************************************)
(* Tiles of RFX Progressive and their passes (TileState and SurfaceTiles   *)
(* of ironrdp-graphics, which both decoders use).  Surfaces are one row of *)
(* tiles; coefficients are the sequence of passes added up to make them.   *)
(***************************************************************************)
EXTENDS Integers, Sequences, FiniteSets, SequencesExt

CONSTANTS
  TileSurfaces,  \* surface ids
  TileContexts,  \* codec context ids
  Widths,        \* widths of surfaces in pixels
  TILE_SIZE,     \* edge length of a tile
  Streams,       \* progressive payloads, as sequences of blocks
  MaxMessages,   \* bound: messages of the graphics channel
  NoTile         \* a tile never decoded, a reference or flag never set

ASSUME ProgressiveAssumption ==
  /\ MaxMessages \in Nat /\ TILE_SIZE \in Nat \ {0} /\ Widths \subseteq Nat \ {0}
  /\ NoTile \notin BOOLEAN

Keys == TileSurfaces \X TileContexts
MaxTile == CHOOSE n \in 0 .. 100 : /\ \A w \in Widths : w <= (n + 1) * TILE_SIZE
                                   /\ \E w \in Widths : n * TILE_SIZE < w
TileOf(x) == x \div TILE_SIZE
NewPixels(width) == [x \in 0 .. width - 1 |-> NoTile]
NewTile(extrapolate) ==
  [pass |-> 0, coefficients |-> <<>>, quality |-> 0, extrapolate |-> extrapolate, difference |-> FALSE]
NewGrid(width, extrapolate) ==
  [extrapolate |-> extrapolate, tiles |-> [t \in 0 .. TileOf(width - 1) |-> NoTile]]

\* A first pass replaces the coefficients, on top of the reference when it is a
\* difference; an upgrade adds to them.
FirstPass(block, extrapolate, base) ==
  [pass |-> 1, coefficients |-> Append(base, block.data), quality |-> block.quality,
   extrapolate |-> extrapolate, difference |-> block.difference]
UpgradePass(state, block) ==
  [state EXCEPT !.pass = @ + 1, !.coefficients = Append(@, block.data), !.quality = block.quality]

\* The tables a tile block may index: 255 is full quality and needs no entry.
ValidQuality(block, region) == block.quality = 255 \/ block.quality < region.qualities
ValidQuant(block, region) == block.quant < region.quants
Corrupt(block) == block.data = "corrupt"

Messages ==
  [op : {"CreateSurface"}, surface : TileSurfaces, width : Widths]
  \cup [op : {"DeleteSurface"}, surface : TileSurfaces]
  \cup [op : {"StartFrame", "EndFrame", "ResetGraphics"}]
  \cup [op : {"DeleteEncodingContext"}, surface : TileSurfaces, context : TileContexts]
  \cup [op : {"WireToSurface2"}, surface : TileSurfaces, context : TileContexts, stream : Streams]
=============================================================================
