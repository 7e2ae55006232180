--------------------------------- MODULE Vga ---------------------------------
(***************************************************************************)
(* The pixel side of the VGA, io/vga_controller.vhdl with io/vga/sync.vhdl *)
(* and io/vga/vram.vhdl, and the two clocks it lives between: the pixel    *)
(* clock of the beam, and the divided clock of the bus, on which the core  *)
(* stores to the cells that are being displayed.  How a store gets as far  *)
(* as the VRAM is the subject of SysBus; here any store may come with any  *)
(* edge of the bus.                                                        *)
(***************************************************************************)
EXTENDS Sync, ClkDivider

CONSTANTS PIXEL_SIZE,     \* a cell is a square of so many pixels
          Bytes,          \* what is stored
          MaxStores       \* a bound on the stores

ASSUME CellAssumption ==
  /\ PIXEL_SIZE \in Nat \ {0}
  /\ h_display % PIXEL_SIZE = 0 /\ v_display % PIXEL_SIZE = 0
ASSUME StoreAssumption == Bytes \subseteq 0 .. 255 /\ MaxStores \in Nat

VARIABLES mem,        \* the cells
          colour,     \* r, g, b
          stores,     \* the number of stores so far
          stale       \* a history: a store has come since the last pixel edge

vgaVars == <<syncVars, dividerVars, mem, colour, stores, stale>>

-----------------------------------------------------------------------------

Rgb(r, g, b) == [r |-> r, g |-> g, b |-> b]
BLACK == Rgb(0, 0, 0)
WHITE == Rgb(15, 15, 15)

\* Three bits of red, three of green, two of blue, each at the top of a nibble
OfByte(w) == Rgb((w \div 32) * 2, ((w \div 4) % 8) * 2, (w % 4) * 4)

x_pixels == h_display \div PIXEL_SIZE
y_pixels == v_display \div PIXEL_SIZE

\* Variant for mutation testing: the rows of cells are y_pixels apart.
CellByHeight(x, y) == (x \div PIXEL_SIZE) + (y \div PIXEL_SIZE) * y_pixels

Cell(x, y) == (x \div PIXEL_SIZE) + (y \div PIXEL_SIZE) * x_pixels
Cells      == 0 .. x_pixels * y_pixels - 1

OnBorder(x, y) == x \in {0, h_display - 1} \/ y \in {0, v_display - 1}

\* The process of vram that makes the colour
Colour(m, x, y, dark) == IF dark = 1 THEN BLACK
                         ELSE IF OnBorder(x, y) THEN WHITE
                         ELSE OfByte(m[Cell(x, y)])

-----------------------------------------------------------------------------

VgaInit == /\ SyncInit /\ DividerInit
           /\ mem \in [Cells -> {0}]
           /\ colour = BLACK
           /\ stores = 0 /\ stale = FALSE

\* Variant for mutation testing: the lookup runs only when the cell changes.
LookUpNewCell ==
  colour' = IF retracing' # retracing \/ Cell(col', row') # Cell(col, row)
            THEN Colour(mem', col', row', retracing') ELSE colour

\* The lookup runs when the position or the blanking changes.
LookUp == colour' = IF <<col', row', retracing'>> # <<col, row, retracing>>
                    THEN Colour(mem', col', row', retracing') ELSE colour

\* A rising edge of vgaclk; the lookup follows the registers.
PixelEdge == /\ SyncEdge
             /\ stale' = FALSE
             /\ UNCHANGED <<dividerVars, mem, stores>>
             /\ LookUp

\* The bus stores a byte.  The lookup is not sensitive to the memory: what is
\* synthesised follows at once, a simulation waits for the next pixel.
Store(c, w) == /\ stores < MaxStores
               /\ stores' = stores + 1
               /\ mem' = [mem EXCEPT ![c] = w]
               /\ stale' = TRUE
               /\ colour' \in {colour, Colour(mem', col, row, retracing)}

\* An edge of the board's clock; with every rising edge of the divided clock
\* the bus may store.
BoardEdge == /\ Divide
             /\ \/ Rising /\ \E c \in Cells, w \in Bytes : Store(c, w)
                \/ UNCHANGED <<mem, colour, stores, stale>>
             /\ UNCHANGED syncVars

\* rst does not reach the VGA.
ResetMoves == MoveReset /\ UNCHANGED <<syncVars, mem, colour, stores, stale>>

VgaNext == PixelEdge \/ BoardEdge \/ ResetMoves

\* Both oscillators keep running.
VgaSpec == /\ VgaInit /\ [][VgaNext]_vgaVars
           /\ WF_syncVars(SyncEdge) /\ WF_dividerVars(Divide)

-----------------------------------------------------------------------------

VgaTypeOK == /\ SyncTypeOK /\ DividerTypeOK
             /\ mem \in [Cells -> Bytes \cup {0}]
             /\ stores \in 0 .. MaxStores /\ stale \in BOOLEAN

\* What is on the screen is the cell under the beam as it was when the pixel
\* began: a store takes at most until the next pixel to be seen, and no stale
\* or foreign cell is ever shown (the sensitivity list of vram.vhdl's lookup,
\* which names position and blanking and not the memory).
ShownIsStored == ~stale => colour = Colour(mem, col, row, retracing)

\* A byte that stays in its cell comes to be seen, in a frame that is
\* displayed while the core goes on storing to other cells and is reset.
StoredIsSeen ==
  \A c \in Cells, w \in Bytes :
    mem[c] = w ~> \/ mem[c] # w
                  \/ retracing = 0 /\ Cell(col, row) = c /\ colour = OfByte(w)

\* Once the reset is let go for good the core has a clock that keeps changing,
\* however often and whenever it was pressed before: what FairSpec of Cpu
\* assumes (clkdivider.vhdl's counter against its asynchronous clear).
ClockGoesOn == <>[](rst = 0) => []<>(pulse = 0) /\ []<>(pulse = 1)

=============================================================================
