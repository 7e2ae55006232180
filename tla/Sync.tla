-------------------------------- MODULE Sync --------------------------------
(***************************************************************************)
(* The video timing, io/vga/sync.vhdl, for any resolution: two counters on *)
(* the pixel clock, and the registers for the sync pulses, the blanking    *)
(* and the pixel that are derived from them.  vga_controller.vhdl ties the *)
(* enable to one.                                                          *)
(***************************************************************************)
EXTENDS Integers

CONSTANTS h_display, h_front, h_sync, h_back,
          v_display, v_front, v_sync, v_back,
          AllOnes      \* what col and row hold before the first pixel

\* The front porch of the columns must hold the line by which the vertical
\* pulse is early; the code has 14 lines there.
ASSUME TimingAssumption ==
  /\ {h_display, v_display, h_back, v_front, h_sync} \subseteq Nat \ {0}
  /\ {h_front, v_sync, v_back} \subseteq Nat
  /\ AllOnes \in Nat /\ AllOnes >= h_display /\ AllOnes >= v_display

VARIABLES h_idx, v_idx, hsync, vsync, retracing, col, row

syncVars == <<h_idx, v_idx, hsync, vsync, retracing, col, row>>

h_max == h_front + h_sync + h_back + h_display - 1
v_max == v_front + v_sync + v_back + v_display - 1

-----------------------------------------------------------------------------

\* Variant for mutation testing: the columns start a clock late.
InRetraceLate == \/ h_idx < h_back \/ h_idx > h_display + h_back - 2
                 \/ v_idx < v_back \/ v_idx > v_display + v_back - 1

InRetrace == \/ h_idx < h_back - 1 \/ h_idx > h_display + h_back - 2
             \/ v_idx < v_back \/ v_idx > v_display + v_back - 1

SyncInit == /\ h_idx = 0 /\ v_idx = 0
            /\ hsync = 1 /\ vsync = 1 /\ retracing = 1
            /\ col = AllOnes /\ row = AllOnes

EndOfLine  == h_idx = h_max
EndOfFrame == EndOfLine /\ v_idx = v_max

\* Variant for mutation testing: the horizontal compare is strict.
PulsesStrict ==
  /\ hsync' = IF EndOfLine THEN 1 ELSE IF h_idx > h_max - h_sync THEN 0 ELSE hsync
  /\ vsync' = IF EndOfFrame THEN 1 ELSE IF v_idx >= v_max - v_sync THEN 0 ELSE vsync

\* A pulse ends with its counter's wrap, the assignment that comes last.
Pulses == /\ hsync' = IF EndOfLine THEN 1
                      ELSE IF h_idx >= h_max - h_sync THEN 0 ELSE hsync
          /\ vsync' = IF EndOfFrame THEN 1
                      ELSE IF v_idx >= v_max - v_sync THEN 0 ELSE vsync

Position == /\ retracing' = IF InRetrace THEN 1 ELSE 0
            /\ col' = IF InRetrace THEN col ELSE h_idx - h_back + 1
            /\ row' = IF InRetrace THEN row ELSE v_idx - v_back

Counters == /\ h_idx' = IF EndOfLine THEN 0 ELSE h_idx + 1
            /\ v_idx' = IF EndOfFrame THEN 0 ELSE IF EndOfLine THEN v_idx + 1 ELSE v_idx

\* A rising edge of the pixel clock
SyncEdge == Pulses /\ Position /\ Counters

SyncSpec == SyncInit /\ [][SyncEdge]_syncVars

-----------------------------------------------------------------------------

SyncTypeOK == /\ h_idx \in 0 .. h_max /\ v_idx \in 0 .. v_max
              /\ {hsync, vsync, retracing} \subseteq {0, 1}
              /\ col \in 0 .. h_display - 1 \/ col = AllOnes
              /\ row \in 0 .. v_display - 1 \/ row = AllOnes

\* The monitor's beam is off while a pulse tells it to return: neither pulse
\* overlaps a visible pixel, although the vertical one starts a line early
\* (sync.vhdl's compares against the assignment of retracing).
DarkDuringPulses == hsync = 0 \/ vsync = 0 => retracing = 1

\* The visible pixels appear in the order of the raster, each once in a frame,
\* with the line dark in between, over all wraps of both counters (sync.vhdl's
\* in_retrace against the arithmetic of row and col).
R == INSTANCE Raster WITH Width <- h_display, Height <- v_display,
                          lit <- retracing = 0,
                          x <- IF col < h_display THEN col ELSE h_display - 1,
                          y <- IF row < v_display THEN row ELSE v_display - 1
ImplementsRaster == R!Spec

=============================================================================
