-------------------------------- MODULE MCVga --------------------------------
(***************************************************************************)
(* An instance of Vga for TLC, with histories that count clocks.           *)
(***************************************************************************)
EXTENDS Vga

VARIABLES low_h, low_v,   \* pixel clocks a pulse has lasted
          dark,           \* pixel clocks since the last visible pixel, counted within a line
          high_h,         \* pixel clocks since the last horizontal pulse, the wrap included
          settled         \* board clocks the divided clock has kept its level

counters == <<low_h, low_v, dark, high_h, settled>>
mcVars   == <<vgaVars, counters>>

Counted(level, n) == IF level THEN n + 1 ELSE 0
LineLength == h_max + 1

MCInit == /\ VgaInit
          /\ low_h = 0 /\ low_v = 0 /\ dark = LineLength /\ high_h = 1 /\ settled = 0

MCNext ==
  \/ /\ PixelEdge
     /\ low_h'  = Counted(hsync' = 0, low_h)
     /\ low_v'  = Counted(vsync' = 0, low_v)
     /\ dark'   = IF dark >= LineLength /\ retracing' = 1 THEN dark
                 ELSE Counted(retracing' = 1, dark)
     /\ high_h' = Counted(hsync' = 1, high_h)
     /\ UNCHANGED settled
  \/ /\ BoardEdge \/ ResetMoves
     /\ settled' = IF pulse' # pulse THEN 0 ELSE IF rst' # rst THEN settled
                   ELSE IF settled = ticks THEN settled ELSE settled + 1
     /\ UNCHANGED <<low_h, low_v, dark, high_h>>

MCSpec == /\ MCInit /\ [][MCNext]_mcVars
          /\ WF_syncVars(SyncEdge) /\ WF_dividerVars(Divide)

-----------------------------------------------------------------------------

\* The widths a monitor synchronises to, in pixel clocks between changes of the
\* registered outputs: the horizontal pulse and both its porches are as
\* declared; the vertical pulse is a line less one clock longer than v_sync
\* lines, since it starts with the compare of v_idx against v_max - v_sync and
\* ends with the wrap (sync.vhdl:42-60).
Rises(s, t) == s = 0 /\ t = 1
Falls(s, t) == s = 1 /\ t = 0
PulseWidths ==
  [][/\ Rises(hsync, hsync') => low_h = h_sync
     /\ Falls(hsync, hsync') /\ dark < LineLength => dark = h_front
     /\ Falls(retracing, retracing') => high_h = h_back
     /\ Rises(vsync, vsync') => low_v = (v_sync + 1) * LineLength - 1]_mcVars

\* While no reset is active the divided clock changes only after `ticks' edges at
\* one level, the low one a reset left it with included: the core never sees a
\* rising edge too soon after a falling one.  The high phase a reset cuts short is
\* exempt (clkdivider.vhdl:23-32).
PhasesWhole == [][pulse' # pulse => settled >= ticks - 1 \/ rst' = 1]_mcVars

=============================================================================
