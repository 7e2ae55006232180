------------------------------ MODULE VgaProofs ------------------------------
(***************************************************************************)
(* The raster and the pulses for every resolution, and the freshness of    *)
(* what is shown for every memory and any interleaving of the two clocks.  *)
(***************************************************************************)
EXTENDS MCVga, TLAPS

\* The columns and rows as the raster sees them
X == IF col < h_display THEN col ELSE h_display - 1
Y == IF row < v_display THEN row ELSE v_display - 1

InRows    == v_back <= v_idx /\ v_idx < v_back + v_display
BeforeRow == h_idx < h_back
AfterRow  == h_idx >= h_back + h_display

\* While a pixel is visible the counters are one clock ahead of it.
LitInv == retracing = 0 =>
            /\ InRows /\ ~BeforeRow /\ ~AfterRow
            /\ col = h_idx - h_back /\ row = v_idx - v_back

\* While it is dark, a line has ended, and the counters tell which.
DarkInv == retracing = 1 =>
             /\ X = h_display - 1
             /\ ~InRows => Y = v_display - 1
             /\ InRows => \/ AfterRow /\ Y = v_idx - v_back
                          \/ BeforeRow /\ v_idx > v_back /\ Y = v_idx - v_back - 1
                          \/ BeforeRow /\ v_idx = v_back /\ Y = v_display - 1

\* A pulse is up from its compare to the wrap of its counter.
PulseInv == /\ hsync = 0 => h_idx > h_max - h_sync
            /\ vsync = 0 => \/ v_idx > v_max - v_sync
                            \/ v_idx = v_max - v_sync /\ h_idx > 0

SyncInv == SyncTypeOK /\ LitInv /\ DarkInv /\ PulseInv

-----------------------------------------------------------------------------

LEMMA SyncInvInitially == SyncInit => SyncInv
  BY TimingAssumption
     DEF SyncInit, SyncInv, SyncTypeOK, LitInv, DarkInv, PulseInv, X, Y, InRows, BeforeRow,
         AfterRow, h_max, v_max

\* The counters stay in their ranges, whatever the registers hold.
LEMMA CountersTyped == ASSUME SyncTypeOK, SyncEdge
                       PROVE  SyncTypeOK'
  <1>1. h_idx' \in 0 .. h_max /\ v_idx' \in 0 .. v_max
    BY TimingAssumption DEF SyncTypeOK, SyncEdge, Counters, EndOfLine, EndOfFrame, h_max, v_max
  <1>2. {hsync', vsync', retracing'} \subseteq {0, 1}
    BY DEF SyncTypeOK, SyncEdge, Pulses, Position
  <1>3. ~InRetrace => /\ h_idx - h_back + 1 \in 0 .. h_display - 1
                      /\ v_idx - v_back \in 0 .. v_display - 1
    BY TimingAssumption DEF SyncTypeOK, InRetrace, h_max, v_max
  <1>4. /\ col' \in 0 .. h_display - 1 \/ col' = AllOnes
        /\ row' \in 0 .. v_display - 1 \/ row' = AllOnes
    BY <1>3 DEF SyncTypeOK, SyncEdge, Position
  <1>5. QED BY <1>1, <1>2, <1>4 DEF SyncTypeOK

\* A visible edge shows the pixel the counters were at.
LEMMA VisibleEdge == ASSUME SyncInv, SyncEdge, ~InRetrace
                     PROVE  /\ retracing' = 0 /\ h_idx' = h_idx + 1 /\ v_idx' = v_idx
                            /\ col' = h_idx - h_back + 1 /\ row' = v_idx - v_back
                            /\ h_idx >= h_back - 1 /\ h_idx <= h_display + h_back - 2
                            /\ InRows
  <1>1. h_idx >= h_back - 1 /\ h_idx <= h_display + h_back - 2 /\ InRows
    BY TimingAssumption DEF SyncInv, SyncTypeOK, InRetrace, InRows, h_max, v_max
  <1>2. ~EndOfLine
    BY <1>1, TimingAssumption DEF SyncInv, SyncTypeOK, EndOfLine, h_max
  <1>3. QED BY <1>1, <1>2 DEF SyncEdge, Position, Counters, EndOfFrame

\* A dark edge leaves the pixel where it was.
LEMMA DarkEdge == ASSUME SyncInv, SyncEdge, InRetrace
                  PROVE  /\ retracing' = 1 /\ col' = col /\ row' = row
                         /\ X' = X /\ Y' = Y
  BY DEF SyncEdge, Position, X, Y

LEMMA LitInvStep == ASSUME SyncInv, SyncEdge
                    PROVE  LitInv'
  <1>1. CASE InRetrace
    BY <1>1, DarkEdge DEF LitInv
  <1>2. CASE ~InRetrace
    <2>1. /\ h_idx' = h_idx + 1 /\ v_idx' = v_idx
          /\ col' = h_idx - h_back + 1 /\ row' = v_idx - v_back
          /\ h_idx >= h_back - 1 /\ h_idx <= h_display + h_back - 2 /\ InRows
      BY <1>2, VisibleEdge
    <2>2. h_idx \in Int /\ v_idx \in Int
      BY TimingAssumption DEF SyncInv, SyncTypeOK, h_max, v_max
    <2>3. QED
      BY <2>1, <2>2, TimingAssumption DEF LitInv, InRows, BeforeRow, AfterRow
  <1>3. QED BY <1>1, <1>2

LEMMA DarkInvStep == ASSUME SyncInv, SyncEdge
                     PROVE  DarkInv'
  <1>1. CASE ~InRetrace
    BY <1>1, VisibleEdge DEF DarkInv
  <1>2. CASE InRetrace
    <2>0. /\ X' = X /\ Y' = Y /\ retracing' = 1
          /\ h_idx \in 0 .. h_max /\ v_idx \in 0 .. v_max /\ retracing \in {0, 1}
      BY <1>2, DarkEdge DEF SyncInv, SyncTypeOK
    <2>1. X = h_display - 1
      <3>1. CASE retracing = 1
        BY <3>1 DEF SyncInv, DarkInv
      <3>2. CASE retracing = 0
        BY <3>2, <1>2, TimingAssumption
           DEF SyncInv, LitInv, InRows, BeforeRow, AfterRow, InRetrace, X, SyncTypeOK, h_max, v_max
      <3>3. QED BY <2>0, <3>1, <3>2
    <2>2. \/ ~InRows /\ Y = v_display - 1
          \/ InRows /\ h_idx >= h_back + h_display - 1 /\ Y = v_idx - v_back
          \/ InRows /\ h_idx < h_back - 1 /\ v_idx > v_back /\ Y = v_idx - v_back - 1
          \/ InRows /\ h_idx < h_back - 1 /\ v_idx = v_back /\ Y = v_display - 1
      <3>1. CASE retracing = 1
        BY <3>1, <2>0, <1>2, TimingAssumption
           DEF SyncInv, DarkInv, InRows, BeforeRow, AfterRow, InRetrace, h_max, v_max
      <3>2. CASE retracing = 0
        BY <3>2, <2>0, <1>2, TimingAssumption
           DEF SyncInv, LitInv, InRows, BeforeRow, AfterRow, InRetrace, Y, h_max, v_max
      <3>3. QED BY <2>0, <3>1, <3>2
    <2>3. CASE ~EndOfLine
      <3>1. h_idx' = h_idx + 1 /\ v_idx' = v_idx
        BY <2>3 DEF SyncEdge, Counters, EndOfFrame
      <3>2. QED
        BY <3>1, <2>0, <2>1, <2>2, TimingAssumption
           DEF DarkInv, InRows, BeforeRow, AfterRow, h_max, v_max
    <2>4. CASE EndOfLine
      <3>1. h_idx' = 0 /\ v_idx' = IF v_idx = v_max THEN 0 ELSE v_idx + 1
        BY <2>4 DEF SyncEdge, Counters, EndOfFrame
      <3>2. h_idx >= h_back + h_display - 1
        BY <2>4, TimingAssumption DEF EndOfLine, h_max
      <3>3. IF InRows THEN Y = v_idx - v_back ELSE Y = v_display - 1
        BY <3>2, <2>0, <2>2, TimingAssumption DEF InRows, h_max, v_max
      <3>4. QED
        BY <3>1, <3>3, <2>0, <2>1, TimingAssumption
           DEF DarkInv, InRows, BeforeRow, AfterRow, h_max, v_max
    <2>5. QED BY <2>3, <2>4
  <1>3. QED BY <1>1, <1>2

LEMMA PulseInvStep == ASSUME SyncInv, SyncEdge
                      PROVE  PulseInv'
  BY TimingAssumption
     DEF SyncInv, SyncTypeOK, PulseInv, SyncEdge, Pulses, Counters, EndOfLine, EndOfFrame,
         h_max, v_max

LEMMA SyncInvStep == SyncInv /\ [SyncEdge]_syncVars => SyncInv'
  <1> SUFFICES ASSUME SyncInv, [SyncEdge]_syncVars PROVE SyncInv'
    OBVIOUS
  <1>1. CASE SyncEdge
    BY <1>1, CountersTyped, LitInvStep, DarkInvStep, PulseInvStep DEF SyncInv
  <1>2. CASE UNCHANGED syncVars
    BY <1>2 DEF SyncInv, SyncTypeOK, LitInv, DarkInv, PulseInv, X, Y, InRows, BeforeRow,
                AfterRow, syncVars
  <1>3. QED BY <1>1, <1>2

LEMMA SyncInvariant == SyncSpec => []SyncInv
  BY SyncInvInitially, SyncInvStep, PTL DEF SyncSpec

-----------------------------------------------------------------------------

\* The counters and the registers stay in their ranges, for every resolution
\* (the integer ranges sync.vhdl:37-38 declares, the widths of row and col).
THEOREM SyncTypeCorrect == SyncSpec => []SyncTypeOK
  <1>1. SyncInv => SyncTypeOK BY DEF SyncInv
  <1>2. QED BY <1>1, SyncInvariant, PTL

\* No pulse overlaps a visible pixel, for every resolution with a front porch of
\* at least a line (sync.vhdl's compares against in_retrace).
THEOREM PulsesAreDark == SyncSpec => []DarkDuringPulses
  <1>1. SyncInv => DarkDuringPulses
    BY TimingAssumption
       DEF SyncInv, SyncTypeOK, LitInv, PulseInv, DarkDuringPulses, InRows, AfterRow, BeforeRow,
           h_max, v_max
  <1>2. QED BY <1>1, SyncInvariant, PTL

LEMMA RasterInit == SyncInit => R!Init
  BY TimingAssumption DEF SyncInit, R!Init

LEMMA RasterStep == SyncInv /\ [SyncEdge]_syncVars
                      => [R!Advance \/ R!NextLine \/ R!Darken]_<<retracing = 0, X, Y>>
  <1> SUFFICES ASSUME SyncInv, [SyncEdge]_syncVars
               PROVE  [R!Advance \/ R!NextLine \/ R!Darken]_<<retracing = 0, X, Y>>
    OBVIOUS
  <1>1. CASE UNCHANGED syncVars
    BY <1>1 DEF syncVars, X, Y
  <1>2. CASE SyncEdge /\ ~InRetrace
    <2>1. /\ retracing' = 0 /\ retracing \in {0, 1}
          /\ X' = h_idx - h_back + 1 /\ Y' = v_idx - v_back
          /\ h_idx \in 0 .. h_max /\ v_idx \in 0 .. v_max
          /\ InRows /\ h_idx >= h_back - 1 /\ h_idx <= h_display + h_back - 2
      BY <1>2, VisibleEdge, TimingAssumption
         DEF X, Y, InRows, SyncInv, SyncTypeOK, h_max, v_max
    <2>2. CASE retracing = 0
      <3>1. X = h_idx - h_back /\ Y = v_idx - v_back
        BY <2>1, <2>2, TimingAssumption
           DEF SyncInv, LitInv, InRows, BeforeRow, AfterRow, X, Y, h_max, v_max
      <3>2. R!Advance
        BY <2>1, <2>2, <3>1, TimingAssumption DEF R!Advance, X, Y, h_max, v_max
      <3>3. QED BY <3>2
    <2>3. CASE retracing = 1
      <3>1. /\ X = h_display - 1
            /\ \/ v_idx > v_back /\ Y = v_idx - v_back - 1
               \/ v_idx = v_back /\ Y = v_display - 1
        BY <2>1, <2>3, TimingAssumption
           DEF SyncInv, DarkInv, InRows, BeforeRow, AfterRow, h_max, v_max
      <3>2. X' = 0
        BY <2>1, <2>3, TimingAssumption
           DEF SyncInv, DarkInv, InRows, BeforeRow, AfterRow, h_max, v_max
      <3>3. Y' = IF Y = v_display - 1 THEN 0 ELSE Y + 1
        BY <2>1, <3>1, TimingAssumption DEF InRows, v_max
      <3>4. R!NextLine
        BY <2>1, <2>3, <3>2, <3>3 DEF R!NextLine, X, Y
      <3>5. QED BY <3>4
    <2>4. QED BY <2>1, <2>2, <2>3
  <1>3. CASE SyncEdge /\ InRetrace
    <2>1. /\ retracing' = 1 /\ X' = X /\ Y' = Y
          /\ retracing \in {0, 1} /\ X = h_display - 1
      <3>1. X' = h_display - 1
        BY <1>3, DarkInvStep, DarkEdge DEF DarkInv
      <3>2. QED BY <1>3, <3>1, DarkEdge DEF SyncInv, SyncTypeOK
    <2>2. CASE retracing = 0
      <3>1. R!Darken BY <2>1, <2>2 DEF R!Darken, X, Y
      <3>2. QED BY <3>1
    <2>3. CASE retracing = 1
      BY <2>1, <2>3
    <2>4. QED BY <2>1, <2>2, <2>3
  <1>4. QED BY <1>1, <1>2, <1>3

\* The sync generator implements the raster, for every resolution: every pixel
\* once in a frame, in order, and dark after every line.
THEOREM SyncImplementsRaster == SyncSpec => ImplementsRaster
  <1>1. SyncInit => R!Init BY RasterInit
  <1>2. SyncInv /\ [SyncEdge]_syncVars
          => [R!Advance \/ R!NextLine \/ R!Darken]_<<retracing = 0, X, Y>>
    BY RasterStep
  <1>3. QED BY <1>1, <1>2, SyncInvariant, PTL DEF SyncSpec, ImplementsRaster, R!Spec, X, Y

-----------------------------------------------------------------------------
(* The composition: the other clock, its stores and the resets. *)

\* The VGA leaves the sync generator alone.
LEMMA VgaRunsSync == VgaSpec => SyncSpec
  <1>1. VgaInit => SyncInit BY DEF VgaInit
  <1>2. [VgaNext]_vgaVars => [SyncEdge]_syncVars
    BY DEF VgaNext, PixelEdge, BoardEdge, ResetMoves, vgaVars
  <1>3. QED BY <1>1, <1>2, PTL DEF VgaSpec, SyncSpec

\* The picture is the raster's whatever the core stores and whenever it is reset.
THEOREM VgaImplementsRaster == VgaSpec => ImplementsRaster
  BY VgaRunsSync, SyncImplementsRaster, PTL

\* The types of the clocks, the cells and the histories.
THEOREM VgaTypeCorrect == VgaSpec => []VgaTypeOK
  <1>1. VgaInit => VgaTypeOK
    <2> SUFFICES ASSUME VgaInit PROVE VgaTypeOK
      OBVIOUS
    <2>1. SyncTypeOK BY SyncInvInitially DEF VgaInit, SyncInv
    <2>2. DividerTypeOK BY TicksAssumption DEF VgaInit, DividerInit, DividerTypeOK
    <2>3. mem \in [Cells -> Bytes \cup {0}] BY DEF VgaInit
    <2>4. stores \in 0 .. MaxStores /\ stale \in BOOLEAN
      <3>1. stores = 0 /\ stale = FALSE BY DEF VgaInit
      <3>2. stores \in 0 .. MaxStores BY <3>1, StoreAssumption
      <3>3. stale \in BOOLEAN BY <3>1
      <3>4. QED BY <3>2, <3>3
    <2>5. QED BY <2>1, <2>2, <2>3, <2>4 DEF VgaTypeOK
  <1>2. VgaTypeOK /\ SyncTypeOK' /\ [VgaNext]_vgaVars => VgaTypeOK'
    <2> SUFFICES ASSUME VgaTypeOK, SyncTypeOK', [VgaNext]_vgaVars PROVE VgaTypeOK'
      OBVIOUS
    <2>1. CASE PixelEdge
      BY <2>1 DEF PixelEdge, VgaTypeOK, DividerTypeOK, dividerVars
    <2>2. CASE BoardEdge
      <3>1. DividerTypeOK'
        BY <2>2, TicksAssumption DEF BoardEdge, Divide, VgaTypeOK, DividerTypeOK
      <3>2. /\ mem' \in [Cells -> Bytes \cup {0}]
            /\ stores' \in 0 .. MaxStores /\ stale' \in BOOLEAN
        <4>1. CASE UNCHANGED <<mem, colour, stores, stale>>
          BY <4>1 DEF VgaTypeOK
        <4>2. ASSUME NEW c \in Cells, NEW w \in Bytes, Store(c, w)
              PROVE  /\ mem' \in [Cells -> Bytes \cup {0}]
                     /\ stores' \in 0 .. MaxStores /\ stale' \in BOOLEAN
          BY <4>2, StoreAssumption DEF Store, VgaTypeOK
        <4>3. QED BY <2>2, <4>1, <4>2 DEF BoardEdge
      <3>3. QED BY <3>1, <3>2 DEF VgaTypeOK
    <2>3. CASE ResetMoves
      BY <2>3, TicksAssumption DEF ResetMoves, MoveReset, VgaTypeOK, DividerTypeOK
    <2>4. CASE UNCHANGED vgaVars
      BY <2>4 DEF vgaVars, VgaTypeOK, DividerTypeOK, dividerVars
    <2>5. QED BY <2>1, <2>2, <2>3, <2>4 DEF VgaNext
  <1>3. VgaSpec => []SyncTypeOK BY VgaRunsSync, SyncTypeCorrect, PTL
  <1>4. QED BY <1>1, <1>2, <1>3, PTL DEF VgaSpec

\* The screen never shows a stale or a foreign cell, for every memory and
\* resolution and every interleaving of stores with pixels (vram.vhdl:63).
THEOREM ShownIsStoredHolds == VgaSpec => []ShownIsStored
  <1> DEFINE DarkIsBlack == retracing = 1 => colour = BLACK
             Inv == ShownIsStored /\ DarkIsBlack
  <1>1. VgaInit => Inv
    BY DEF VgaInit, SyncInit, ShownIsStored, Colour
  <1>2. Inv /\ SyncInv /\ [VgaNext]_vgaVars => Inv'
    <2> SUFFICES ASSUME Inv, SyncInv, [VgaNext]_vgaVars PROVE Inv'
      OBVIOUS
    <2>1. CASE PixelEdge
      <3>1. CASE <<col', row', retracing'>> # <<col, row, retracing>>
        BY <2>1, <3>1 DEF PixelEdge, LookUp, ShownIsStored, Colour
      <3>2. CASE <<col', row', retracing'>> = <<col, row, retracing>>
        <4>1. InRetrace
          <5>1. SUFFICES ASSUME ~InRetrace PROVE FALSE
            OBVIOUS
          <5>2. retracing = 0 /\ col = h_idx - h_back + 1
            BY <5>1, <2>1, <3>2, VisibleEdge DEF PixelEdge
          <5>3. col = h_idx - h_back
            BY <5>2 DEF SyncInv, LitInv
          <5>4. h_idx \in Int /\ h_back \in Int
            BY TimingAssumption DEF SyncInv, SyncTypeOK
          <5>5. QED BY <5>2, <5>3, <5>4
        <4>2. retracing' = 1 /\ retracing = 1
          BY <4>1, <2>1, <3>2, DarkEdge DEF PixelEdge
        <4>3. colour' = BLACK
          BY <4>2, <2>1, <3>2 DEF PixelEdge, LookUp
        <4>4. QED BY <4>2, <4>3 DEF ShownIsStored, Colour
      <3>3. QED BY <3>1, <3>2
    <2>2. CASE UNCHANGED <<syncVars, mem, colour, stores, stale>>
      BY <2>2 DEF ShownIsStored, Colour, syncVars
    <2>3. CASE BoardEdge
      <3>1. ASSUME NEW c \in Cells, NEW w \in Bytes, Store(c, w) PROVE Inv'
        <4>1. stale' = TRUE /\ retracing' = retracing
          BY <2>3, <3>1 DEF BoardEdge, Store, syncVars
        <4>2. retracing = 1 => colour' = BLACK
          BY <3>1 DEF Store, Colour
        <4>3. QED BY <4>1, <4>2 DEF ShownIsStored
      <3>2. QED BY <2>2, <2>3, <3>1 DEF BoardEdge
    <2>4. QED BY <2>1, <2>2, <2>3 DEF VgaNext, ResetMoves, vgaVars
  <1>3. Inv => ShownIsStored OBVIOUS
  <1>4. VgaSpec => []SyncInv BY VgaRunsSync, SyncInvariant, PTL
  <1>5. QED BY <1>1, <1>2, <1>3, <1>4, PTL DEF VgaSpec

-----------------------------------------------------------------------------
(* The histories: how long the signals have kept their levels. *)

\* The horizontal pulse, and how long it has lasted or been over, are told by
\* the column counter.
LineCounts ==
  /\ hsync = 0 <=> h_idx > h_max - h_sync
  /\ low_h = IF hsync = 0 THEN h_idx - (h_max - h_sync) ELSE 0
  /\ high_h = IF hsync = 1 THEN h_idx + 1 ELSE 0

\* Within a line of the last visible pixel the darkness is told by the column
\* counter too, in the same line or the next.
DarkCount ==
  /\ dark \in Nat
  /\ retracing = 0 => dark = 0
  /\ retracing = 1 /\ dark < LineLength =>
       \/ h_idx >= h_display + h_back /\ dark = h_idx - (h_display + h_back) + 1
       \/ dark = LineLength + h_idx - (h_display + h_back) + 1

\* The vertical pulse begins with the second column of a line; since then both
\* counters have gone on.
PulseLines == v_idx - (v_max - v_sync)
FrameCounts ==
  /\ vsync = 0 <=> PulseLines > 0 \/ (PulseLines = 0 /\ h_idx > 0)
  /\ low_v = IF vsync = 0 THEN PulseLines * LineLength + h_idx ELSE 0

\* The divider's counter never runs ahead of the time its level has been kept.
PhaseCount == settled \in Nat /\ settled >= i

HistoryInv == LineCounts /\ DarkCount /\ FrameCounts /\ PhaseCount

\* What an edge of the pixel clock does to the histories, and one of the
\* board's or a reset
PixelCounts == /\ low_h'  = Counted(hsync' = 0, low_h)
               /\ low_v'  = Counted(vsync' = 0, low_v)
               /\ dark'   = IF dark >= LineLength /\ retracing' = 1 THEN dark
                            ELSE Counted(retracing' = 1, dark)
               /\ high_h' = Counted(hsync' = 1, high_h)
BoardCount  == settled' = IF pulse' # pulse THEN 0 ELSE IF rst' # rst THEN settled
                          ELSE IF settled = ticks THEN settled ELSE settled + 1

\* The sizes of a line and a frame, and the ranges of the counters
LEMMA Sizes ==
  /\ h_sync \in Nat /\ h_sync >= 1 /\ h_back \in Nat /\ h_back >= 1
  /\ h_front \in Nat /\ h_display \in Nat /\ h_display >= 1
  /\ h_max \in Nat /\ h_max = h_front + h_sync + h_back + h_display - 1
  /\ v_sync \in Nat /\ v_max \in Nat /\ v_max - v_sync >= 1
  /\ LineLength = h_max + 1
BY TimingAssumption DEF h_max, v_max, LineLength

LEMMA LineCountsStep ==
  ASSUME SyncInv, LineCounts, SyncEdge, PixelCounts
  PROVE  LineCounts'
<1>1. h_idx \in 0 .. h_max /\ hsync \in {0, 1}
  BY DEF SyncInv, SyncTypeOK
<1>2. /\ hsync' = IF h_idx = h_max THEN 1 ELSE IF h_idx >= h_max - h_sync THEN 0 ELSE hsync
      /\ h_idx' = IF h_idx = h_max THEN 0 ELSE h_idx + 1
      /\ low_h' = IF hsync' = 0 THEN low_h + 1 ELSE 0
      /\ high_h' = IF hsync' = 1 THEN high_h + 1 ELSE 0
  BY DEF SyncEdge, Pulses, Counters, EndOfLine, PixelCounts, Counted
<1>3. (h_max - h_sync)' = h_max - h_sync
  BY DEF h_max
<1>4. QED
  BY <1>1, <1>2, <1>3, Sizes DEF LineCounts

LEMMA DarkCountStep ==
  ASSUME SyncInv, DarkCount, SyncEdge, PixelCounts
  PROVE  DarkCount'
<1>1. /\ h_idx \in 0 .. h_max /\ retracing \in {0, 1} /\ dark \in Nat
      /\ retracing' = IF InRetrace THEN 1 ELSE 0
      /\ h_idx' = IF h_idx = h_max THEN 0 ELSE h_idx + 1
      /\ dark' = IF dark >= LineLength /\ retracing' = 1 THEN dark
                 ELSE IF retracing' = 1 THEN dark + 1 ELSE 0
  BY DEF SyncInv, SyncTypeOK, DarkCount, SyncEdge, Position, Counters, EndOfLine, PixelCounts,
         Counted
<1>2. LineLength' = LineLength
  BY DEF LineLength, h_max
<1>3. CASE ~InRetrace
  BY <1>1, <1>2, <1>3 DEF DarkCount
<1>4. CASE InRetrace /\ retracing = 0
  <2>1. h_idx = h_display + h_back - 1
    BY <1>4, Sizes, TimingAssumption
       DEF InRetrace, SyncInv, SyncTypeOK, LitInv, InRows, BeforeRow, AfterRow, v_max
  <2>2. dark = 0
    BY <1>4 DEF DarkCount
  <2>3. QED
    BY <1>1, <1>2, <1>4, <2>1, <2>2, Sizes DEF DarkCount
<1>5. CASE InRetrace /\ retracing = 1
  BY <1>1, <1>2, <1>5, Sizes DEF DarkCount
<1>6. QED
  BY <1>1, <1>3, <1>4, <1>5

LEMMA FrameCountsStep ==
  ASSUME SyncInv, FrameCounts, SyncEdge, PixelCounts
  PROVE  FrameCounts'
<1>1. /\ h_idx \in 0 .. h_max /\ v_idx \in 0 .. v_max /\ vsync \in {0, 1}
      /\ vsync' = IF h_idx = h_max /\ v_idx = v_max THEN 1
                  ELSE IF v_idx >= v_max - v_sync THEN 0 ELSE vsync
      /\ h_idx' = IF h_idx = h_max THEN 0 ELSE h_idx + 1
      /\ v_idx' = IF h_idx = h_max /\ v_idx = v_max THEN 0
                  ELSE IF h_idx = h_max THEN v_idx + 1 ELSE v_idx
      /\ low_v' = IF vsync' = 0 THEN low_v + 1 ELSE 0
  BY DEF SyncInv, SyncTypeOK, SyncEdge, Pulses, Counters, EndOfLine, EndOfFrame, PixelCounts,
         Counted
<1>2. LineLength' = LineLength /\ (v_max - v_sync)' = v_max - v_sync
  BY DEF LineLength, h_max, v_max
<1>3. PulseLines' = v_idx' - (v_max - v_sync) /\ PulseLines \in Int
  BY <1>1, Sizes DEF PulseLines, v_max
<1>4. vsync' = 0 <=> PulseLines' > 0 \/ (PulseLines' = 0 /\ h_idx' > 0)
  BY <1>1, <1>3, Sizes DEF FrameCounts, PulseLines
<1>5. ASSUME vsync' = 0 PROVE low_v' = PulseLines' * LineLength + h_idx'
  <2>1. low_v = PulseLines * LineLength + h_idx
    <3>1. CASE vsync = 0
      BY <3>1 DEF FrameCounts
    <3>2. CASE vsync = 1
      <4>1. low_v = 0
        BY <3>2 DEF FrameCounts
      <4>2. PulseLines = 0 /\ h_idx = 0
        BY <3>2, <1>1, <1>3, <1>5, Sizes DEF FrameCounts, PulseLines
      <4>3. QED
        BY <4>1, <4>2, Sizes
    <3>3. QED
      BY <1>1, <3>1, <3>2
  <2>2. CASE h_idx = h_max
    <3>1. PulseLines' = PulseLines + 1 /\ h_idx' = 0
      BY <1>1, <1>3, <1>5, <2>2, Sizes DEF PulseLines
    <3>2. (PulseLines + 1) * LineLength = PulseLines * LineLength + h_max + 1
      BY <1>3, Sizes
    <3>3. low_v' = PulseLines * LineLength + h_max + 1
      BY <1>1, <1>5, <2>1, <2>2
    <3>4. QED
      BY <3>1, <3>2, <3>3, Sizes
  <2>3. CASE h_idx # h_max
    <3>1. PulseLines' = PulseLines /\ h_idx' = h_idx + 1
      BY <1>1, <1>3, <2>3, Sizes DEF PulseLines
    <3>2. PulseLines * LineLength \in Int
      BY <1>3, Sizes
    <3>3. QED
      BY <1>1, <1>5, <2>1, <3>1, <3>2
  <2>4. QED
    BY <2>2, <2>3
<1>6. vsync' \in {0, 1} /\ (vsync' # 0 => low_v' = 0)
  BY <1>1
<1>7. QED
  BY <1>2, <1>4, <1>5, <1>6 DEF FrameCounts

\* The divider's side
LEMMA PhaseCountStep ==
  ASSUME DividerTypeOK, PhaseCount, Divide \/ MoveReset, BoardCount
  PROVE  PhaseCount'
BY TicksAssumption DEF DividerTypeOK, PhaseCount, Divide, MoveReset, BoardCount

\* A step of the composition is one of one side.
LEMMA MCStep ==
  ASSUME [MCNext]_mcVars
  PROVE  /\ [VgaNext]_vgaVars
         /\ \/ SyncEdge /\ PixelCounts /\ UNCHANGED <<dividerVars, settled>>
            \/ (Divide \/ MoveReset) /\ BoardCount
                 /\ UNCHANGED <<syncVars, low_h, low_v, dark, high_h>>
            \/ UNCHANGED <<syncVars, dividerVars, counters>>
BY DEF MCNext, mcVars, VgaNext, PixelEdge, BoardEdge, ResetMoves, PixelCounts, BoardCount, vgaVars

\* The histories follow the counters, whatever the interleaving of the clocks.
LEMMA HistoryInvariant == MCSpec => [](SyncInv /\ DividerTypeOK /\ HistoryInv)
<1>1. MCInit => HistoryInv
  <2> SUFFICES ASSUME MCInit PROVE HistoryInv
    OBVIOUS
  <2>1. /\ h_idx = 0 /\ v_idx = 0 /\ hsync = 1 /\ vsync = 1 /\ retracing = 1 /\ i = 0
        /\ low_h = 0 /\ low_v = 0 /\ dark = LineLength /\ high_h = 1 /\ settled = 0
    BY DEF MCInit, VgaInit, SyncInit, DividerInit
  <2>2. LineCounts /\ DarkCount /\ PhaseCount
    BY <2>1, Sizes DEF LineCounts, DarkCount, PhaseCount
  <2>3. FrameCounts
    BY <2>1, Sizes DEF FrameCounts, PulseLines
  <2>4. QED
    BY <2>2, <2>3 DEF HistoryInv
<1>2. SyncInv /\ DividerTypeOK /\ HistoryInv /\ [MCNext]_mcVars => HistoryInv'
  <2> SUFFICES ASSUME SyncInv, DividerTypeOK, HistoryInv, [MCNext]_mcVars PROVE HistoryInv'
    OBVIOUS
  <2>1. CASE SyncEdge /\ PixelCounts /\ UNCHANGED <<dividerVars, settled>>
    <3>1. LineCounts' /\ DarkCount' /\ FrameCounts'
      BY <2>1, LineCountsStep, DarkCountStep, FrameCountsStep DEF HistoryInv
    <3>2. PhaseCount'
      BY <2>1 DEF HistoryInv, PhaseCount, dividerVars
    <3>3. QED
      BY <3>1, <3>2 DEF HistoryInv
  <2>2. CASE /\ (Divide \/ MoveReset) /\ BoardCount
             /\ UNCHANGED <<syncVars, low_h, low_v, dark, high_h>>
    <3>1. PhaseCount'
      BY <2>2, PhaseCountStep DEF HistoryInv
    <3>2. LineCounts' /\ DarkCount' /\ FrameCounts'
      BY <2>2 DEF HistoryInv, LineCounts, DarkCount, FrameCounts, PulseLines, syncVars, h_max,
                  v_max, LineLength
    <3>3. QED
      BY <3>1, <3>2 DEF HistoryInv
  <2>3. CASE UNCHANGED <<syncVars, dividerVars, counters>>
    BY <2>3 DEF HistoryInv, LineCounts, DarkCount, FrameCounts, PhaseCount, PulseLines, syncVars,
                dividerVars, counters, h_max, v_max, LineLength
  <2>4. QED
    BY <2>1, <2>2, <2>3, MCStep
<1>3. MCSpec => VgaSpec
  <2>1. MCInit => VgaInit
    BY DEF MCInit
  <2>2. [MCNext]_mcVars => [VgaNext]_vgaVars
    BY MCStep
  <2>3. QED
    BY <2>1, <2>2, PTL DEF MCSpec, VgaSpec
<1>4. VgaTypeOK => DividerTypeOK
  BY DEF VgaTypeOK
<1>5. QED
  BY <1>1, <1>2, <1>3, <1>4, VgaRunsSync, SyncInvariant, VgaTypeCorrect, PTL DEF MCSpec

\* For every resolution the horizontal pulse and its porches last as long as
\* declared, and the vertical pulse v_sync + 1 lines less a clock, nearly a line
\* more than declared; in every line and frame, from power-on, whatever the core
\* does meanwhile (sync.vhdl:42-60: registers set by compares of counters that
\* wrap).
THEOREM PulseWidthsHold == MCSpec => PulseWidths
<1>1. SyncInv /\ DividerTypeOK /\ HistoryInv /\ [MCNext]_mcVars
        => [/\ Rises(hsync, hsync') => low_h = h_sync
            /\ Falls(hsync, hsync') /\ dark < LineLength => dark = h_front
            /\ Falls(retracing, retracing') => high_h = h_back
            /\ Rises(vsync, vsync') => low_v = (v_sync + 1) * LineLength - 1]_mcVars
  <2> SUFFICES ASSUME SyncInv, HistoryInv, SyncEdge
               PROVE  /\ Rises(hsync, hsync') => low_h = h_sync
                      /\ Falls(hsync, hsync') /\ dark < LineLength => dark = h_front
                      /\ Falls(retracing, retracing') => high_h = h_back
                      /\ Rises(vsync, vsync') => low_v = (v_sync + 1) * LineLength - 1
    BY MCStep DEF Rises, Falls, syncVars
  <2>1. /\ h_idx \in 0 .. h_max /\ v_idx \in 0 .. v_max
        /\ hsync \in {0, 1} /\ vsync \in {0, 1} /\ retracing \in {0, 1}
        /\ hsync' = IF h_idx = h_max THEN 1 ELSE IF h_idx >= h_max - h_sync THEN 0 ELSE hsync
        /\ vsync' = IF h_idx = h_max /\ v_idx = v_max THEN 1
                    ELSE IF v_idx >= v_max - v_sync THEN 0 ELSE vsync
    BY DEF SyncInv, SyncTypeOK, SyncEdge, Pulses, EndOfLine, EndOfFrame
  <2>2. ASSUME Rises(hsync, hsync') PROVE low_h = h_sync
    <3>1. h_idx = h_max /\ low_h = h_idx - (h_max - h_sync)
      BY <2>1, <2>2 DEF Rises, HistoryInv, LineCounts
    <3>2. QED
      BY <3>1, Sizes
  <2>3. ASSUME Falls(hsync, hsync'), dark < LineLength PROVE dark = h_front
    <3>1. h_idx = h_max - h_sync
      BY <2>1, <2>3, Sizes DEF Falls, HistoryInv, LineCounts
    <3>2. CASE retracing = 1
      BY <2>3, <3>1, <3>2, Sizes DEF HistoryInv, DarkCount
    <3>3. CASE retracing = 0
      BY <3>1, <3>3, Sizes DEF HistoryInv, DarkCount, SyncInv, LitInv, BeforeRow, AfterRow
    <3>4. QED
      BY <2>1, <3>2, <3>3
  <2>4. ASSUME Falls(retracing, retracing') PROVE high_h = h_back
    <3>1. ~InRetrace
      BY <2>4 DEF Falls, SyncEdge, Position
    <3>2. h_idx = h_back - 1
      BY <2>1, <2>4, <3>1, VisibleEdge, Sizes
         DEF Falls, SyncInv, DarkInv, InRows, BeforeRow, AfterRow
    <3>3. QED
      BY <2>1, <3>2, Sizes DEF HistoryInv, LineCounts
  <2>5. ASSUME Rises(vsync, vsync') PROVE low_v = (v_sync + 1) * LineLength - 1
    <3>1. h_idx = h_max /\ v_idx = v_max /\ low_v = PulseLines * LineLength + h_idx
      BY <2>1, <2>5 DEF Rises, HistoryInv, FrameCounts
    <3>2. PulseLines = v_sync
      BY <3>1, Sizes DEF PulseLines
    <3>3. (v_sync + 1) * LineLength - 1 = v_sync * LineLength + h_max
      BY Sizes
    <3>4. QED
      BY <3>1, <3>2, <3>3
  <2>6. QED
    BY <2>2, <2>3, <2>4, <2>5
<1>2. QED
  BY <1>1, HistoryInvariant, PTL DEF MCSpec, PulseWidths

\* For every divisor the core's clock keeps each level for its whole phase while no
\* reset is active; a high phase that a reset cuts short is exempt
\* (clkdivider.vhdl:23-32: a counter and a level with an asynchronous clear).
THEOREM PhasesWholeHolds == MCSpec => PhasesWhole
<1>1. SyncInv /\ DividerTypeOK /\ HistoryInv /\ [MCNext]_mcVars
        => [pulse' # pulse => settled >= ticks - 1 \/ rst' = 1]_mcVars
  <2> SUFFICES ASSUME DividerTypeOK, PhaseCount, Divide \/ MoveReset, pulse' # pulse, rst' # 1
               PROVE  settled >= ticks - 1
    BY MCStep DEF HistoryInv, dividerVars
  <2>1. i + 1 >= ticks
    BY DEF DividerTypeOK, Divide, MoveReset
  <2>2. QED
    BY <2>1, TicksAssumption DEF DividerTypeOK, PhaseCount
<1>2. QED
  BY <1>1, HistoryInvariant, PTL DEF MCSpec, PhasesWhole

=============================================================================
