-------------------------------- MODULE Demo --------------------------------
(***************************************************************************)
(* The picture of bios/vga-demo.c: the palette, a Sierpinski carpet        *)
(* shaded pixel by pixel, and a colour scale drawn over its first rows.    *)
(***************************************************************************)
EXTENDS Integers

CONSTANTS WIDTH, HEIGHT, Uninitialised

\* The scale takes the first seven rows, and no pixel's index leaves 32 bits.
ASSUME PictureAssumption == /\ WIDTH \in Nat /\ 1 <= WIDTH /\ WIDTH <= 65536
                            /\ HEIGHT \in Nat /\ 7 <= HEIGHT /\ HEIGHT <= 65536

Entries == 0 .. 255
Pixels  == 0 .. WIDTH * HEIGHT - 1

VARIABLES painting,         \* the loop demo() is in
          x, y, palette, image

demoVars == <<painting, x, y, palette, image>>

-----------------------------------------------------------------------------

\* Both static arrays are in .bss; the values are of no interest until written.
DemoInit == /\ painting = "idle" /\ x = 0 /\ y = 0
            /\ palette = [i \in Entries |-> Uninitialised]
            /\ image = [p \in Pixels |-> Uninitialised]

\* Variant for mutation testing: the smallest squares are not looked at.
sierpinskiDividesFirst(px, py) ==
  LET shade[at \in (0 .. px) \X (0 .. py)] ==
        IF at = <<0, 0>> THEN 255
        ELSE IF (at[1] \div 3) % 3 = 1 /\ (at[2] \div 3) % 3 = 1 THEN 0
        ELSE shade[<<at[1] \div 3, at[2] \div 3>>]
  IN  shade[<<px, py>>]

\* 0 for a pixel in the centre of a square of some level, 255 for the others
sierpinski(px, py) ==
  LET shade[at \in (0 .. px) \X (0 .. py)] ==
        IF at = <<0, 0>> THEN 255
        ELSE IF at[1] % 3 = 1 /\ at[2] % 3 = 1 THEN 0
        ELSE shade[<<at[1] \div 3, at[2] \div 3>>]
  IN  shade[<<px, py>>]

prepare_palette == /\ painting = "idle"
                   /\ palette' = [i \in Entries |-> <<i, (i * i) \div 255, i \div 255>>]
                   /\ painting' = "shade" /\ x' = 0 /\ y' = 0
                   /\ UNCHANGED image

\* The next pixel of the row, or the first of the next row
Shade == /\ painting = "shade"
         /\ image' = [image EXCEPT ![y * WIDTH + x] = sierpinski(x, y)]
         /\ IF x + 1 < WIDTH THEN x' = x + 1 /\ UNCHANGED <<y, painting>>
            ELSE /\ x' = 0 /\ y' = y + 1
                 /\ painting' = IF y' < HEIGHT THEN "shade" ELSE "scale"
         /\ UNCHANGED palette

\* A column of the scale; q is stored in a byte.
Scale == /\ painting = "scale"
         /\ LET q == ((256 * x) \div WIDTH) % 256
            IN  image' = [p \in Pixels |->
                            IF p % WIDTH # x \/ p >= 7 * WIDTH THEN image[p]
                            ELSE IF p \div WIDTH \in {0, 6} THEN 0 ELSE q]
         /\ x' = x + 1
         /\ painting' = IF x' < WIDTH THEN "scale" ELSE "shown"
         /\ UNCHANGED <<y, palette>>

DemoNext == prepare_palette \/ Shade \/ Scale
DemoSpec == DemoInit /\ [][DemoNext]_demoVars

-----------------------------------------------------------------------------

DemoTypeOK == /\ painting \in {"idle", "shade", "scale", "shown"}
              /\ x \in 0 .. WIDTH /\ y \in 0 .. HEIGHT
              /\ DOMAIN image = Pixels /\ DOMAIN palette = Entries

\* A point is left out of the carpet when its coordinates, written to the base
\* of three, have a one at the same place (3^11 is more than 65536).
Hole(px, py) == \E place \in 0 .. 10 : /\ 3^place <= px /\ 3^place <= py
                                      /\ (px \div 3^place) % 3 = 1
                                      /\ (py \div 3^place) % 3 = 1

\* The picture that is shown has a colour in every pixel: a scale that rises
\* from the left to the right without a step of more than one column's share,
\* framed in black, and below it the carpet (vga-demo.c:33-70).
PictureDrawn ==
  painting = "shown" =>
    \A px \in 0 .. WIDTH - 1, py \in 0 .. HEIGHT - 1 :
      LET shown == image[py * WIDTH + px] IN
      CASE py \in {0, 6}  -> shown = 0
        [] py \in 1 .. 5  -> shown * WIDTH <= 256 * px /\ 256 * px < (shown + 1) * WIDTH
        [] OTHER          -> shown = IF Hole(px, py) THEN 0 ELSE 255

=============================================================================
