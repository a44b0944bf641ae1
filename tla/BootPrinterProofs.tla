-------------------------- MODULE BootPrinterProofs --------------------------
(***************************************************************************)
(* What the bootloader's Printer and the kernel's Writer put on the        *)
(* screen, for every size of the screen and of a character, every message  *)
(* of a panic and every text of the kernel.                                *)
(*                                                                         *)
(* PInv keeps the next position on the grid of characters, at most one row *)
(* below the screen and, after a panic of the Printer, at most one column  *)
(* right of it.                                                            *)
(*                                                                         *)
(* RInv adds what makes a message readable: the text message fills the     *)
(* cells up to current_offset, and the characters drawn since the screen   *)
(* was cleared lie on the grid, before the next position in reading order. *)
(*                                                                         *)
(* SInv adds to ScreenShowsTail that the column is the length of the last  *)
(* line modulo the width, except that it waits at the end of a full row.   *)
(* A step moves every cell's bytes up by the rows it adds, then fills one. *)
(***************************************************************************)
EXTENDS BootPrinter, FiniteSetTheorems, TLAPS

OnGrid(p) == \E i \in Nat : p = i * GLYPH

Position ==
    /\ x_pos \in Nat /\ OnGrid(x_pos) /\ x_pos <= SCREEN_WIDTH
    /\ y_pos \in Nat /\ OnGrid(y_pos) /\ y_pos <= SCREEN_HEIGHT
    /\ nested \/ x_pos < SCREEN_WIDTH

Drawn(g) ==
    /\ g.x \in Nat /\ g.x <= SCREEN_WIDTH
    /\ g.y \in Nat /\ g.y <= SCREEN_HEIGHT

PInv ==
    /\ nested \in BOOLEAN
    /\ feature = "text" \/ running = "boot" \/ Position
    /\ \A g \in glyphs : Drawn(g)

Sizes ==
    /\ GLYPH \in Nat \ {0}
    /\ SCREEN_WIDTH \in Nat \ {0} /\ OnGrid(SCREEN_WIDTH)
    /\ SCREEN_HEIGHT \in Nat \ {0} /\ OnGrid(SCREEN_HEIGHT)

(* The sides of the screen lie on the grid. *)
LEMMA SizesAre == Sizes
<1>1. ASSUME NEW a \in Nat, NEW g \in Nat \ {0}, a % g = 0
      PROVE  a \div g \in Nat /\ a = (a \div g) * g
  BY <1>1
<1> QED
  BY <1>1, ScreenAssumption DEF Sizes, OnGrid

(* The next point of the grid, and none between the two. *)
LEMMA NextOnGrid ==
    ASSUME NEW p \in Nat, NEW q \in Nat, OnGrid(p), OnGrid(q), p < q
    PROVE  OnGrid(p + GLYPH) /\ p + GLYPH <= q
<1>1. GLYPH \in Nat \ {0}
  BY SizesAre DEF Sizes
<1>2. PICK i \in Nat : p = i * GLYPH
  BY DEF OnGrid
<1>3. PICK j \in Nat : q = j * GLYPH
  BY DEF OnGrid
<1>4. (i + 1) * GLYPH = p + GLYPH /\ i + 1 \in Nat
  BY <1>1, <1>2
<1>5. ASSUME NEW a \in Nat, NEW b \in Nat, NEW g \in Nat, a <= b
      PROVE  a * g <= b * g
  <2>1. (b - a) * g \in Nat /\ (b - a) * g = b * g - a * g /\ a * g \in Nat /\ b * g \in Nat
    BY <1>5
  <2> QED
    BY <2>1
<1>6. i + 1 <= j
  <2>1. CASE j <= i
    BY <1>1, <1>2, <1>3, <1>5, <2>1
  <2> QED
    BY <2>1
<1>7. (i + 1) * GLYPH <= j * GLYPH
  BY <1>1, <1>4, <1>5, <1>6
<1> QED
  BY <1>3, <1>4, <1>7 DEF OnGrid

(* The left and upper edges are on the grid. *)
LEMMA ZeroOnGrid == OnGrid(0)
<1>1. GLYPH \in Nat \ {0}
  BY SizesAre DEF Sizes
<1> QED
  BY <1>1 DEF OnGrid

-----------------------------------------------------------------------------

(* newline goes to the row below the last one at most. *)
LEMMA NewlineStep ==
    ASSUME PInv, Position, NEW drawn, \A g \in drawn : Drawn(g), newline(drawn),
           nested' \in BOOLEAN
    PROVE  Position' /\ \A g \in glyphs' : Drawn(g)
<1>1. SCREEN_WIDTH \in Nat \ {0} /\ SCREEN_HEIGHT \in Nat \ {0} /\ OnGrid(SCREEN_HEIGHT)
      /\ GLYPH \in Nat
  BY SizesAre DEF Sizes
<1>2. x_pos' = 0 /\ OnGrid(x_pos')
  BY ZeroOnGrid DEF newline
<1>3. y_pos' \in Nat /\ OnGrid(y_pos') /\ y_pos' <= SCREEN_HEIGHT
  <2>1. CASE y_pos >= SCREEN_HEIGHT
    BY <1>1, <2>1, ZeroOnGrid DEF newline
  <2>2. CASE y_pos < SCREEN_HEIGHT
    <3>1. OnGrid(y_pos + GLYPH) /\ y_pos + GLYPH <= SCREEN_HEIGHT
      BY <1>1, <2>2, NextOnGrid DEF Position
    <3>2. y_pos' = y_pos + GLYPH
      BY <1>1, <2>2 DEF newline, Position
    <3> QED
      BY <1>1, <3>1, <3>2 DEF Position
  <2> QED
    BY <1>1, <2>1, <2>2 DEF Position
<1>4. \A g \in glyphs' : Drawn(g)
  BY DEF newline
<1>5. OnGrid(x_pos)' /\ OnGrid(y_pos)'
  BY <1>2, <1>3 DEF OnGrid
<1>6. x_pos' \in Nat /\ x_pos' <= SCREEN_WIDTH /\ x_pos' < SCREEN_WIDTH
  BY <1>1, <1>2
<1> QED
  BY <1>3, <1>4, <1>5, <1>6 DEF Position

(* A character, its row ended or not. *)
LEMMA WrapStep ==
    ASSUME PInv, Position, NEW drawn, \A g \in drawn : Drawn(g), wrap(drawn),
           nested' \in BOOLEAN
    PROVE  Position' /\ \A g \in glyphs' : Drawn(g)
<1>1. SCREEN_WIDTH \in Nat \ {0} /\ OnGrid(SCREEN_WIDTH) /\ GLYPH \in Nat \ {0} /\ x_pos \in Nat
  BY SizesAre DEF Sizes, Position
<1>2. CASE x_pos + GLYPH >= SCREEN_WIDTH
  BY <1>2, NewlineStep DEF wrap
<1>3. CASE x_pos + GLYPH < SCREEN_WIDTH
  <2>1. ~ (x_pos + GLYPH >= SCREEN_WIDTH)
    BY <1>1, <1>3
  <2>2. x_pos' = x_pos + GLYPH /\ y_pos' = y_pos /\ glyphs' = drawn
    BY <2>1 DEF wrap
  <2>3. x_pos < SCREEN_WIDTH
    BY <1>1, <1>3
  <2>4. OnGrid(x_pos + GLYPH)
    BY <1>1, <2>3, NextOnGrid DEF Position
  <2>5. OnGrid(x_pos)' /\ OnGrid(y_pos)'
    BY <2>2, <2>4 DEF OnGrid, Position
  <2>6. x_pos' \in Nat /\ x_pos' <= SCREEN_WIDTH /\ x_pos' < SCREEN_WIDTH
    BY <1>1, <1>3, <2>2
  <2> QED
    BY <2>2, <2>5, <2>6 DEF Position
<1> QED
  BY <1>1, <1>2, <1>3

(* Whatever the character is. *)
LEMMA CharStep ==
    ASSUME PInv, Position, NEW c \in Bytes, write_char(c), c \in Other => ~ nested
    PROVE  nested' \in BOOLEAN /\ Position' /\ \A g \in glyphs' : Drawn(g)
<1>1. nested' \in BOOLEAN /\ (c \in Other => nested')
  BY DEF write_char, PInv
<1>2. CASE c = LF
  <2>1. newline(glyphs)
    BY <1>2 DEF write_char
  <2> QED
    BY <1>1, <2>1, NewlineStep DEF PInv
<1>3. CASE c # LF /\ c \in Other
  <2>1. x_pos' = x_pos + GLYPH /\ y_pos' = y_pos /\ glyphs' = glyphs /\ nested' /\ ~ nested
    BY <1>1, <1>3 DEF write_char
  <2>2. SCREEN_WIDTH \in Nat /\ OnGrid(SCREEN_WIDTH) /\ GLYPH \in Nat /\ x_pos \in Nat
        /\ x_pos < SCREEN_WIDTH
    BY <2>1, SizesAre DEF Sizes, Position
  <2>3. OnGrid(x_pos + GLYPH) /\ x_pos + GLYPH <= SCREEN_WIDTH
    BY <2>2, NextOnGrid DEF Position
  <2>4. OnGrid(x_pos)' /\ OnGrid(y_pos)'
    BY <2>1, <2>3 DEF OnGrid, Position
  <2>5. x_pos' \in Nat /\ x_pos' <= SCREEN_WIDTH
    BY <2>1, <2>2, <2>3
  <2> QED
    BY <1>1, <2>1, <2>4, <2>5 DEF Position, PInv
<1>4. CASE c # LF /\ c \notin Other
  <2>1. wrap(glyphs \cup {Draw})
    BY <1>4 DEF write_char
  <2>2. Drawn(Draw)
    BY DEF Drawn, Draw, Position
  <2>3. \A g \in glyphs \cup {Draw} : Drawn(g)
    BY <2>2 DEF PInv
  <2> QED
    BY <1>1, <2>1, <2>3, WrapStep
<1> QED
  BY <1>2, <1>3, <1>4

(* Every step keeps the invariant. *)
LEMMA StepPInv == PInv /\ [ScreenNext]_screenVars => PInv'
<1> SUFFICES ASSUME PInv, [ScreenNext]_screenVars PROVE PInv'
  OBVIOUS
<1> USE DEF OnGrid
<1>1. CASE clear_screen
  <2>1. nested' = nested /\ feature' = feature
    BY <1>1 DEF clear_screen
  <2>2. CASE feature = "text"
    BY <1>1, <2>1, <2>2 DEF clear_screen, PInv
  <2>3. CASE feature # "text"
    <3>1. x_pos' = 0 /\ y_pos' = 0 /\ glyphs' = {}
      BY <1>1, <2>3 DEF clear_screen
    <3>2. SCREEN_WIDTH \in Nat \ {0} /\ SCREEN_HEIGHT \in Nat \ {0}
      BY SizesAre DEF Sizes
    <3>3. OnGrid(x_pos)' /\ OnGrid(y_pos)'
      BY <3>1, ZeroOnGrid
    <3>4. x_pos' \in Nat /\ x_pos' < SCREEN_WIDTH /\ x_pos' <= SCREEN_WIDTH
          /\ y_pos' \in Nat /\ y_pos' <= SCREEN_HEIGHT
      BY <3>1, <3>2
    <3>5. Position'
      BY <3>3, <3>4 DEF Position
    <3> QED
      BY <2>1, <3>1, <3>5 DEF PInv
  <2> QED
    BY <2>2, <2>3
<1>2. ASSUME NEW c \in Bytes, panic(c) PROVE PInv'
  <2>1. feature' = feature /\ running # "boot" /\ (c \in Other => ~ nested)
    BY <1>2 DEF panic
  <2>2. CASE feature = "text"
    BY <1>2, <2>1, <2>2 DEF panic, PInv
  <2>3. CASE feature # "text"
    <3>1. Position /\ write_char(c)
      BY <1>2, <2>1, <2>3 DEF panic, PInv
    <3> QED
      BY <2>1, <3>1, CharStep DEF PInv
  <2> QED
    BY <2>2, <2>3
<1>3. CASE start_kernel
  BY <1>3 DEF start_kernel, PInv
<1>4. ASSUME NEW byte \in Bytes, kernel_writes(byte) PROVE PInv'
  BY <1>4 DEF kernel_writes, printerVars, PInv, Position
<1>5. CASE UNCHANGED screenVars
  BY <1>5 DEF screenVars, printerVars, PInv, Position
<1> QED
  BY <1>1, <1>2, <1>3, <1>4, <1>5 DEF ScreenNext

(* A character in the row below the screen, one column right of it, still  *)
(* ends in the frame buffer.                                               *)
LEMMA DrawnInside ==
    ASSUME NEW g, Drawn(g)
    PROVE  Pixels(g) \subseteq 0 .. FrameBufferSize - 1
<1>1. /\ GLYPH \in Nat \ {0} /\ SCREEN_WIDTH \in Nat \ {0} /\ SCREEN_HEIGHT \in Nat
      /\ FrameBufferSize \in Nat
      /\ (SCREEN_HEIGHT + GLYPH) * SCREEN_WIDTH + GLYPH <= FrameBufferSize
  BY ScreenAssumption
<1> SUFFICES ASSUME NEW x \in 0 .. GLYPH - 1, NEW y \in 0 .. GLYPH - 1
             PROVE  (g.y + y) * SCREEN_WIDTH + g.x + x \in 0 .. FrameBufferSize - 1
  BY DEF Pixels
<1> DEFINE row == g.y + y
           rows == SCREEN_HEIGHT + GLYPH
<1>2. row \in Nat /\ rows \in Nat /\ row + 1 <= rows /\ g.x \in Nat /\ g.x <= SCREEN_WIDTH
  BY <1>1 DEF Drawn
<1>3. ASSUME NEW a \in Nat, NEW b \in Nat, NEW w \in Nat, a + 1 <= b
      PROVE  a * w \in Nat /\ b * w \in Nat /\ a * w + w <= b * w
  <2>1. (b - (a + 1)) * w \in Nat
    BY <1>3
  <2>2. (b - (a + 1)) * w = b * w - (a * w + w) /\ a * w \in Nat /\ b * w \in Nat
    BY <1>3
  <2> QED
    BY <2>1, <2>2
<1> HIDE DEF row, rows
<1>4. /\ row * SCREEN_WIDTH \in Nat /\ rows * SCREEN_WIDTH \in Nat
      /\ row * SCREEN_WIDTH + SCREEN_WIDTH <= rows * SCREEN_WIDTH
  BY <1>1, <1>2, <1>3
<1>5. rows * SCREEN_WIDTH + GLYPH <= FrameBufferSize
  BY <1>1 DEF rows
<1>6. row * SCREEN_WIDTH + g.x + x \in 0 .. FrameBufferSize - 1
  BY <1>1, <1>2, <1>4, <1>5
<1> QED
  BY <1>6 DEF row

(* Whatever a panic of the bootloader prints, on a screen of any size, the *)
(* Printer writes to the frame buffer that stage 3 mapped and nowhere else *)
(* (write_char and newline of vga_320x200.rs).                             *)
THEOREM PixelsInFrameBufferHolds == ScreenSpec => []PixelsInFrameBuffer
<1>1. ScreenInit => PInv
  BY DEF ScreenInit, PInv
<1>2. PInv => PixelsInFrameBuffer
  BY DrawnInside DEF PInv, PixelsInFrameBuffer
<1> QED
  BY <1>1, <1>2, StepPInv, PTL DEF ScreenSpec

-----------------------------------------------------------------------------
(* The message of a panic.  Its characters are drawn from left to right    *)
(* and from top to bottom, so no two of them at the same place.            *)

Behind(g) == g.y < y_pos \/ (g.y = y_pos /\ g.x < x_pos)

Apart ==
    /\ \A g \in glyphs :
          /\ g.x \in Nat /\ OnGrid(g.x) /\ g.x < SCREEN_WIDTH
          /\ g.y \in Nat /\ OnGrid(g.y)
          /\ Behind(g)
    /\ \A g, h \in glyphs : g # h => g.x # h.x \/ g.y # h.y

Shown ==
    \A row \in Rows, col \in Cols :
        Cell(row, col) < Len(message) => chars[row][col] = message[Cell(row, col) + 1]

RInv ==
    /\ message \in Seq(Bytes)
    /\ running \in {"boot", "cleared"} => message = <<>>
    /\ feature = "text" => glyphs = {}
    /\ feature = "text" /\ running \in {"cleared", "panic"} =>
          current_offset = 2 * Len(message) /\ Shown
    /\ ~ nested => Apart

(* A multiple of a longer side is at least one side longer. *)
LEMMA Multiples ==
    ASSUME NEW a \in Nat, NEW b \in Nat, NEW w \in Nat, a < b
    PROVE  a * w \in Nat /\ b * w \in Nat /\ a * w + w <= b * w
<1>1. (b - (a + 1)) * w \in Nat
  OBVIOUS
<1>2. (b - (a + 1)) * w = b * w - (a * w + w) /\ a * w \in Nat /\ b * w \in Nat
  OBVIOUS
<1> QED
  BY <1>1, <1>2

(* A number has one quotient and one remainder. *)
LEMMA Division ==
    ASSUME NEW w \in Nat, NEW a \in Nat, NEW b \in Nat,
           NEW c \in 0 .. w - 1, NEW d \in 0 .. w - 1, a * w + c = b * w + d
    PROVE  a = b /\ c = d
<1>1. a * w \in Nat /\ b * w \in Nat
  OBVIOUS
<1>2. ~ (a < b)
  <2> SUFFICES ASSUME a < b PROVE FALSE
    OBVIOUS
  <2>1. a * w + w <= b * w
    BY Multiples
  <2> QED
    BY <1>1, <2>1
<1>3. ~ (b < a)
  <2> SUFFICES ASSUME b < a PROVE FALSE
    OBVIOUS
  <2>1. b * w + w <= a * w
    BY Multiples
  <2> QED
    BY <1>1, <2>1
<1>4. a = b
  BY <1>2, <1>3
<1> QED
  BY <1>1, <1>4

(* Characters at different places of the grid share no pixel. *)
LEMMA GridApart ==
    ASSUME NEW g, NEW h,
           g.x \in Nat, OnGrid(g.x), g.x < SCREEN_WIDTH, g.y \in Nat, OnGrid(g.y),
           h.x \in Nat, OnGrid(h.x), h.x < SCREEN_WIDTH, h.y \in Nat, OnGrid(h.y),
           g.x # h.x \/ g.y # h.y
    PROVE  Pixels(g) \cap Pixels(h) = {}
<1>1. GLYPH \in Nat \ {0} /\ SCREEN_WIDTH \in Nat \ {0} /\ OnGrid(SCREEN_WIDTH)
  BY SizesAre DEF Sizes
<1>2. g.x + GLYPH <= SCREEN_WIDTH /\ h.x + GLYPH <= SCREEN_WIDTH
  BY <1>1, NextOnGrid
<1>3. ASSUME NEW x \in 0 .. GLYPH - 1, NEW y \in 0 .. GLYPH - 1,
             NEW u \in 0 .. GLYPH - 1, NEW v \in 0 .. GLYPH - 1,
             (g.y + y) * SCREEN_WIDTH + g.x + x = (h.y + v) * SCREEN_WIDTH + h.x + u
      PROVE  FALSE
  <2> DEFINE a == g.y + y
             b == h.y + v
             c == g.x + x
             d == h.x + u
  <2>1. /\ a \in Nat /\ b \in Nat
        /\ c \in 0 .. SCREEN_WIDTH - 1 /\ d \in 0 .. SCREEN_WIDTH - 1
    BY <1>1, <1>2
  <2>2. a * SCREEN_WIDTH + c = b * SCREEN_WIDTH + d
    <3>1. a * SCREEN_WIDTH \in Nat /\ b * SCREEN_WIDTH \in Nat
      BY <1>1, <2>1
    <3>2. a * SCREEN_WIDTH + g.x + x = b * SCREEN_WIDTH + h.x + u
      BY <1>3
    <3> HIDE DEF a, b
    <3> QED
      BY <1>1, <3>1, <3>2
  <2>3. a = b /\ c = d
    <3> HIDE DEF a, b, c, d
    <3> QED
      BY <1>1, <2>1, <2>2, Division
  <2>4. ASSUME NEW p \in Nat, NEW q \in Nat, OnGrid(p), OnGrid(q),
               NEW i \in 0 .. GLYPH - 1, NEW j \in 0 .. GLYPH - 1, p + i = q + j
        PROVE  p = q
    <3>1. p < q => p + GLYPH <= q
      BY <2>4, NextOnGrid
    <3>2. q < p => q + GLYPH <= p
      BY <2>4, NextOnGrid
    <3> QED
      BY <1>1, <2>4, <3>1, <3>2
  <2>5. g.y = h.y /\ g.x = h.x
    BY <2>3, <2>4
  <2> QED
    BY <2>5
<1> QED
  BY <1>3 DEF Pixels
(* newline leaves every character behind it, or clears the screen. *)
LEMMA NewlineApart ==
    ASSUME Position, NEW drawn, newline(drawn),
           \A g \in drawn :
              /\ g.x \in Nat /\ OnGrid(g.x) /\ g.x < SCREEN_WIDTH
              /\ g.y \in Nat /\ OnGrid(g.y) /\ g.y <= y_pos,
           \A g, h \in drawn : g # h => g.x # h.x \/ g.y # h.y
    PROVE  Apart'
<1>1. GLYPH \in Nat \ {0} /\ SCREEN_HEIGHT \in Nat /\ y_pos \in Nat
  BY SizesAre DEF Sizes, Position
<1>2. CASE y_pos >= SCREEN_HEIGHT
  BY <1>2 DEF newline, Apart
<1>3. CASE ~ (y_pos >= SCREEN_HEIGHT)
  <2>1. glyphs' = drawn /\ y_pos' = y_pos + GLYPH
    BY <1>3 DEF newline
  <2>2. \A g \in drawn : g.y < y_pos'
    BY <1>1, <2>1
  <2> QED
    BY <2>1, <2>2 DEF Apart, Behind, OnGrid
<1> QED
  BY <1>2, <1>3

(* A character is drawn to the right of the others of its row, or below    *)
(* them.                                                                   *)
LEMMA CharApart ==
    ASSUME RInv, PInv, Position, ~ nested, NEW c \in Bytes, c \notin Other, write_char(c)
    PROVE  Apart'
<1>1. Apart /\ GLYPH \in Nat \ {0} /\ x_pos \in Nat /\ y_pos \in Nat /\ x_pos < SCREEN_WIDTH
  BY SizesAre DEF RInv, Sizes, Position
<1>2. \A g \in glyphs :
         /\ g.x \in Nat /\ OnGrid(g.x) /\ g.x < SCREEN_WIDTH
         /\ g.y \in Nat /\ OnGrid(g.y) /\ g.y <= y_pos
         /\ g.y < y_pos \/ (g.y = y_pos /\ g.x < x_pos)
  BY <1>1 DEF Apart, Behind
<1>3. \A g, h \in glyphs : g # h => g.x # h.x \/ g.y # h.y
  BY <1>1 DEF Apart
<1>4. CASE c = LF
  BY <1>2, <1>3, <1>4, NewlineApart DEF write_char
<1>5. CASE c # LF
  <2> DEFINE drawn == glyphs \cup {Draw}
  <2>1. wrap(drawn)
    BY <1>5 DEF write_char
  <2>2. Draw.x = x_pos /\ Draw.y = y_pos
    BY DEF Draw
  <2>3. ASSUME NEW g \in drawn
        PROVE  /\ g.x \in Nat /\ OnGrid(g.x) /\ g.x < SCREEN_WIDTH
               /\ g.y \in Nat /\ OnGrid(g.y) /\ g.y <= y_pos
               /\ g.y < y_pos \/ (g.y = y_pos /\ g.x <= x_pos)
    <3>1. CASE g \in glyphs
      BY <1>1, <1>2, <3>1
    <3>2. CASE g = Draw
      BY <1>1, <2>2, <3>2 DEF Position
    <3> QED
      BY <3>1, <3>2
  <2>4. ASSUME NEW g \in drawn, NEW h \in drawn, g # h
        PROVE  g.x # h.x \/ g.y # h.y
    <3>1. ASSUME NEW k \in glyphs PROVE k.x # x_pos \/ k.y # y_pos
      BY <1>1, <1>2, <3>1
    <3> QED
      BY <1>3, <2>2, <2>4, <3>1
  <2> HIDE DEF drawn
  <2>5. CASE x_pos + GLYPH >= SCREEN_WIDTH
    <3>1. newline(drawn)
      BY <2>1, <2>5 DEF wrap
    <3> QED
      BY <2>3, <2>4, <3>1, NewlineApart
  <2>6. CASE ~ (x_pos + GLYPH >= SCREEN_WIDTH)
    <3>1. x_pos' = x_pos + GLYPH /\ y_pos' = y_pos /\ glyphs' = drawn
      BY <2>1, <2>6 DEF wrap
    <3>2. \A g \in drawn : g.y < y_pos' \/ (g.y = y_pos' /\ g.x < x_pos')
      BY <1>1, <2>3, <3>1
    <3> QED
      BY <2>3, <2>4, <3>1, <3>2 DEF Apart, Behind, OnGrid
  <2> QED
    BY <2>5, <2>6
<1> QED
  BY <1>4, <1>5

(* The next character of a text message goes to the next cell. *)
LEMMA TextShown ==
    ASSUME message \in Seq(Bytes), current_offset = 2 * Len(message), Shown,
           NEW c \in Bytes, text_write_byte(c), message' = Append(message, c)
    PROVE  current_offset' = 2 * Len(message') /\ Shown'
<1>1. /\ Len(message) \in Nat /\ Len(message') = Len(message) + 1
      /\ \A i \in 1 .. Len(message) : message'[i] = message[i]
      /\ message'[Len(message) + 1] = c
  OBVIOUS
<1>2. current_offset' = 2 * Len(message')
  BY <1>1 DEF text_write_byte
<1>3. ASSUME NEW row \in Rows, NEW col \in Cols, Cell(row, col) < Len(message')
      PROVE  chars'[row][col] = message'[Cell(row, col) + 1]
  <2>1. Cell(row, col) \in Nat
    <3>1. row \in Nat /\ col \in Nat /\ BUFFER_WIDTH \in Nat
      BY SizeAssumption DEF Rows, Cols
    <3>2. row * BUFFER_WIDTH \in Nat
      BY <3>1
    <3> QED
      BY <3>1, <3>2 DEF Cell
  <2>2. chars'[row][col] = IF 2 * Cell(row, col) = current_offset THEN c ELSE chars[row][col]
    BY DEF text_write_byte
  <2>3. CASE Cell(row, col) = Len(message)
    BY <1>1, <2>2, <2>3
  <2>4. CASE Cell(row, col) # Len(message)
    <3>1. Cell(row, col) < Len(message) /\ 2 * Cell(row, col) # current_offset
      BY <1>1, <1>3, <2>1, <2>4
    <3>2. chars[row][col] = message[Cell(row, col) + 1]
      BY <3>1 DEF Shown
    <3>3. Cell(row, col) + 1 \in 1 .. Len(message)
      BY <1>1, <2>1, <3>1
    <3> QED
      BY <1>1, <2>2, <3>1, <3>2, <3>3
  <2> QED
    BY <2>3, <2>4
<1> QED
  BY <1>2, <1>3 DEF Shown, Cell

(* Every step keeps the message readable. *)
LEMMA StepRInv == PInv /\ RInv /\ [ScreenNext]_screenVars => RInv'
<1> SUFFICES ASSUME PInv, RInv, [ScreenNext]_screenVars PROVE RInv'
  OBVIOUS
<1>1. CASE clear_screen
  <2>1. /\ running = "boot" /\ running' = "cleared"
        /\ UNCHANGED <<feature, message, nested>> /\ message = <<>>
    BY <1>1 DEF clear_screen, RInv
  <2>2. Shown'
    <3>1. ASSUME NEW row \in Rows, NEW col \in Cols PROVE ~ (Cell(row, col) < 0)
      <4>1. row \in Nat /\ col \in Nat /\ BUFFER_WIDTH \in Nat
        BY SizeAssumption DEF Rows, Cols
      <4>2. row * BUFFER_WIDTH \in Nat
        BY <4>1
      <4> QED
        BY <4>1, <4>2 DEF Cell
    <3>2. Len(message') = 0
      BY <2>1
    <3> QED
      BY <3>1, <3>2 DEF Shown, Cell
  <2>3. CASE feature = "text"
    <3>1. current_offset' = 0 /\ glyphs' = glyphs /\ glyphs = {}
      BY <1>1, <2>3 DEF clear_screen, clear_text, RInv
    <3> QED
      BY <2>1, <2>2, <3>1 DEF RInv, Apart
  <2>4. CASE feature # "text"
    <3>1. glyphs' = {}
      BY <1>1, <2>4 DEF clear_screen
    <3> QED
      BY <2>1, <2>4, <3>1 DEF RInv, Apart
  <2> QED
    BY <2>3, <2>4
<1>2. ASSUME NEW c \in Bytes, panic(c) PROVE RInv'
  <2>1. /\ running \in {"cleared", "panic"} /\ running' = "panic" /\ feature' = feature
        /\ message' = Append(message, c) /\ message' \in Seq(Bytes)
    BY <1>2 DEF panic, RInv
  <2>2. CASE feature = "text"
    <3>1. text_write_byte(c) /\ UNCHANGED <<x_pos, y_pos, glyphs, nested>>
      BY <1>2, <2>2 DEF panic
    <3>2. current_offset' = 2 * Len(message') /\ Shown'
      BY <2>1, <2>2, <3>1, TextShown DEF RInv
    <3> QED
      BY <2>1, <2>2, <3>1, <3>2 DEF RInv, Apart
  <2>3. CASE feature # "text"
    <3>1. Position /\ write_char(c)
      BY <1>2, <2>1, <2>3 DEF panic, PInv
    <3>2. ASSUME ~ nested' PROVE Apart'
      <4>1. ~ nested /\ c \notin Other
        BY <3>1, <3>2 DEF write_char
      <4> QED
        BY <3>1, <4>1, CharApart
    <3> QED
      BY <2>1, <2>3, <3>2 DEF RInv
  <2> QED
    BY <2>2, <2>3
<1>3. CASE start_kernel
  BY <1>3 DEF start_kernel, RInv, Apart, Behind
<1>4. ASSUME NEW byte \in Bytes, kernel_writes(byte) PROVE RInv'
  BY <1>4 DEF kernel_writes, printerVars, RInv, Apart, Behind
<1>5. CASE UNCHANGED screenVars
  BY <1>5 DEF screenVars, printerVars, vars, RInv, Apart, Behind, Shown, Cell
<1> QED
  BY <1>1, <1>2, <1>3, <1>4, <1>5 DEF ScreenNext

(* A panic of the bootloader can be read on a screen of any size: its text *)
(* fills the cells one after the other although clear_screen left half of  *)
(* the screen as it was, and the characters of the graphics mode do not    *)
(* cover each other.                                                       *)
THEOREM MessageReadableHolds == ScreenSpec => []MessageReadable
<1>1. ScreenInit => PInv /\ RInv
  <2> SUFFICES ASSUME ScreenInit PROVE PInv /\ RInv
    OBVIOUS
  <2>1. glyphs = {} /\ running = "boot" /\ message = <<>> /\ nested = FALSE
    BY DEF ScreenInit
  <2>2. PInv
    BY <2>1 DEF PInv
  <2>3. message \in Seq(Bytes)
    BY <2>1
  <2>4. Apart
    BY <2>1 DEF Apart
  <2> QED
    BY <2>1, <2>2, <2>3, <2>4 DEF RInv
<1>2. PInv /\ RInv => MessageReadable
  <2> SUFFICES ASSUME RInv, running = "panic" PROVE MessageReadable
    BY DEF MessageReadable
  <2>1. ASSUME ~ nested, NEW g \in glyphs, NEW h \in glyphs, g # h
        PROVE  Pixels(g) \cap Pixels(h) = {}
    <3>1. Apart
      BY <2>1 DEF RInv
    <3>2. /\ g.x \in Nat /\ OnGrid(g.x) /\ g.x < SCREEN_WIDTH /\ g.y \in Nat /\ OnGrid(g.y)
          /\ h.x \in Nat /\ OnGrid(h.x) /\ h.x < SCREEN_WIDTH /\ h.y \in Nat /\ OnGrid(h.y)
          /\ g.x # h.x \/ g.y # h.y
      BY <2>1, <3>1 DEF Apart
    <3> QED
      BY <3>2, GridApart
  <2> QED
    BY <2>1 DEF RInv, Shown, MessageReadable
<1> QED
  BY <1>1, <1>2, StepPInv, StepRInv, PTL DEF ScreenSpec

-----------------------------------------------------------------------------
(* The kernel's Writer.  Here are the bytes ScreenShowsTail looks for in a *)
(* cell, Last is the length of the last line.                              *)

Here(r, c) ==
    {i \in DOMAIN text \ Breaks : RowOf(i) + (BUFFER_HEIGHT - 1 - r) = LastRow /\ ColOf(i) = c}

Bottom == {i \in DOMAIN text \ Breaks : RowOf(i) = LastRow}

Last == Offset(Len(text) + 1)

HasMax(S) == \E m \in S : \A y \in S : m >= y

Full == Last > 0 /\ Last % BUFFER_WIDTH = 0

(* The screen is a full grid, and the column is the length of the last     *)
(* line, counted from its last wrap.                                       *)
SInv ==
    /\ text \in Seq(Bytes)
    /\ chars = [row \in Rows |-> [col \in Cols |-> chars[row][col]]]
    /\ running # "kernel" => text = <<>> /\ before = chars /\ column_position = 0
    /\ HasMax({0} \cup Breaks)
    /\ column_position \in 0 .. BUFFER_WIDTH
    /\ \E q \in Nat : Last = q * BUFFER_WIDTH + column_position
    /\ Last = 0 <=> column_position = 0
    /\ \A r \in Rows, c \in Cols : Here(r, c) # {} => HasMax(Here(r, c))
    /\ ScreenShowsTail

(* Max of a set with a greatest element is that element. *)
LEMMA MaxIs ==
    ASSUME NEW S \in SUBSET Nat, NEW m \in S, \A y \in S : m >= y
    PROVE  Max(S) = m
<1>1. Max(S) \in S /\ \A y \in S : Max(S) >= y
  BY DEF Max
<1>2. Max(S) >= m /\ m >= Max(S) /\ m \in Nat /\ Max(S) \in Nat
  BY <1>1
<1> QED
  BY <1>2

(* Max of a set with a greatest element lies in it. *)
LEMMA MaxIn ==
    ASSUME NEW S, HasMax(S)
    PROVE  Max(S) \in S /\ \A y \in S : Max(S) >= y
BY DEF HasMax, Max

(* What was written stays, and one byte is added. *)
LEMMA TextGrows ==
    ASSUME text \in Seq(Bytes), NEW byte \in Bytes, text' = Append(text, byte)
    PROVE  /\ Len(text) \in Nat /\ Len(text') = Len(text) + 1
           /\ DOMAIN text = 1 .. Len(text) /\ DOMAIN text' = 1 .. Len(text) + 1
           /\ \A i \in 1 .. Len(text) : text'[i] = text[i]
           /\ text'[Len(text) + 1] = byte
           /\ Breaks \subseteq 1 .. Len(text) /\ Wraps \subseteq 1 .. Len(text)
           /\ Breaks' = IF byte = LF THEN Breaks \cup {Len(text) + 1} ELSE Breaks
<1>1. /\ Len(text) \in Nat /\ Len(text') = Len(text) + 1
      /\ DOMAIN text = 1 .. Len(text) /\ DOMAIN text' = 1 .. Len(text) + 1
      /\ \A i \in 1 .. Len(text) : text'[i] = text[i]
      /\ text'[Len(text) + 1] = byte
  OBVIOUS
<1>2. Breaks \subseteq 1 .. Len(text) /\ Wraps \subseteq 1 .. Len(text)
  BY <1>1 DEF Breaks, Wraps
<1>3. 1 .. Len(text) + 1 = (1 .. Len(text)) \cup {Len(text) + 1} /\ Len(text) + 1 \notin 1 .. Len(text)
  BY <1>1
<1>4. ASSUME NEW i PROVE i \in Breaks' <=> i \in Breaks \/ (i = Len(text) + 1 /\ byte = LF)
  BY <1>1, <1>3 DEF Breaks
<1>5. Breaks' = IF byte = LF THEN Breaks \cup {Len(text) + 1} ELSE Breaks
  BY <1>4
<1> QED
  BY <1>1, <1>2, <1>5

(* A byte's place on its line depends on the bytes before it only. *)
LEMMA OffsetKept ==
    ASSUME text \in Seq(Bytes), NEW byte \in Bytes, text' = Append(text, byte)
    PROVE  /\ \A i \in 1 .. Len(text) + 1 :
                 {j \in Breaks' : j < i} = {j \in Breaks : j < i} /\ Offset(i)' = Offset(i)
           /\ Wraps' = IF byte # LF /\ Full THEN Wraps \cup {Len(text) + 1} ELSE Wraps
<1> DEFINE n == Len(text)
<1>1. n \in Nat /\ Breaks \subseteq 1 .. n /\ (Breaks' = IF byte = LF THEN Breaks \cup {n + 1} ELSE Breaks)
  BY TextGrows
<1>2. ASSUME NEW i \in 1 .. n + 1
      PROVE  {j \in Breaks' : j < i} = {j \in Breaks : j < i} /\ Offset(i)' = Offset(i)
  <2>1. ~ (n + 1 < i)
    BY <1>1
  <2>2. ASSUME NEW j PROVE (j \in Breaks' /\ j < i) <=> (j \in Breaks /\ j < i)
    BY <1>1, <2>1
  <2>3. {j \in Breaks' : j < i} = {j \in Breaks : j < i}
    BY <2>2
  <2> QED
    BY <2>3 DEF Offset
<1>3. ASSUME NEW k, k = n + 1 PROVE Offset(k)' = Last
  <2>1. k \in 1 .. n + 1
    BY <1>1, <1>3
  <2> QED
    BY <1>2, <1>3, <2>1 DEF Last
<1>4. ASSUME NEW i PROVE i \in Wraps' <=> i \in Wraps \/ (i = n + 1 /\ byte # LF /\ Full)
  <2>1. CASE i \in 1 .. n
    <3>1. Offset(i)' = Offset(i) /\ i # n + 1 /\ i \in 1 .. n + 1
      BY <1>1, <1>2, <2>1
    <3>2. (i \in DOMAIN text' \ Breaks') <=> (i \in DOMAIN text \ Breaks)
      BY <1>1, <2>1, <3>1, TextGrows
    <3> QED
      BY <3>1, <3>2 DEF Wraps
  <2>2. CASE i = n + 1
    <3>1. i \notin DOMAIN text /\ ((i \in DOMAIN text' \ Breaks') <=> byte # LF)
      BY <1>1, <2>2, TextGrows
    <3> QED
      BY <1>3, <2>2, <3>1 DEF Wraps, Full
  <2>3. CASE i \notin 1 .. n /\ i # n + 1
    <3>1. i \notin DOMAIN text /\ i \notin DOMAIN text'
      BY <1>1, <2>3, TextGrows
    <3> QED
      BY <2>3, <3>1 DEF Wraps
  <2> QED
    BY <2>1, <2>2, <2>3
<1>5. Wraps' = IF byte # LF /\ Full THEN Wraps \cup {n + 1} ELSE Wraps
  BY <1>4
<1> QED
  BY <1>2, <1>5

(* The rows of the bytes written so far stay, and the row of a new byte is *)
(* the last one: it is the next row after a full one.                      *)
LEMMA RowsGrow ==
    ASSUME text \in Seq(Bytes), NEW byte \in Bytes, text' = Append(text, byte)
    PROVE  /\ LastRow \in Nat
           /\ LastRow' = IF byte = LF \/ Full THEN LastRow + 1 ELSE LastRow
           /\ \A i \in 1 .. Len(text) :
                 RowOf(i) \in Nat /\ RowOf(i) <= LastRow /\ RowOf(i)' = RowOf(i) /\ ColOf(i)' = ColOf(i)
           /\ \A k : k = Len(text) + 1 /\ byte # LF =>
                 RowOf(k)' = LastRow' /\ ColOf(k)' = Last % BUFFER_WIDTH
<1> DEFINE n == Len(text)
           S == Breaks \cup Wraps
<1>1. /\ n \in Nat /\ Breaks \subseteq 1 .. n /\ Wraps \subseteq 1 .. n
      /\ Breaks' = IF byte = LF THEN Breaks \cup {n + 1} ELSE Breaks
      /\ Wraps' = IF byte # LF /\ Full THEN Wraps \cup {n + 1} ELSE Wraps
  BY TextGrows, OffsetKept
<1>2. IsFiniteSet(S) /\ Cardinality(S) \in Nat /\ LastRow = Cardinality(S) /\ n + 1 \notin S
  <2>1. IsFiniteSet(1 .. n)
    BY <1>1, FS_Interval
  <2>2. S \in SUBSET (1 .. n) /\ n + 1 \notin 1 .. n
    BY <1>1
  <2>3. IsFiniteSet(S)
    BY <2>1, <2>2, FS_Subset
  <2> QED
    BY <2>2, <2>3, FS_CardinalityType DEF LastRow
<1>3. LastRow' = IF byte = LF \/ Full THEN LastRow + 1 ELSE LastRow
  <2>1. Cardinality(S \cup {n + 1}) = Cardinality(S) + 1
    BY <1>2, FS_AddElement
  <2>2. (Breaks \cup Wraps)' = IF byte = LF \/ Full THEN S \cup {n + 1} ELSE S
    BY <1>1
  <2> QED
    BY <1>2, <2>1, <2>2 DEF LastRow
<1>4. ASSUME NEW i \in 1 .. n
      PROVE  RowOf(i) \in Nat /\ RowOf(i) <= LastRow /\ RowOf(i)' = RowOf(i) /\ ColOf(i)' = ColOf(i)
  <2>1. i \in 1 .. n + 1 /\ ~ (n + 1 <= i)
    BY <1>1
  <2>2. {j \in Breaks' : j < i} = {j \in Breaks : j < i} /\ Offset(i)' = Offset(i)
    BY <2>1, OffsetKept
  <2>3. {j \in Wraps' : j <= i} = {j \in Wraps : j <= i}
    <3>1. ASSUME NEW j PROVE (j \in Wraps' /\ j <= i) <=> (j \in Wraps /\ j <= i)
      BY <1>1, <2>1
    <3> QED
      BY <3>1
  <2> DEFINE R == {j \in Breaks : j < i} \cup {j \in Wraps : j <= i}
  <2>4. R \in SUBSET S /\ RowOf(i) = Cardinality(R) /\ RowOf(i)' = Cardinality(R)
    BY <2>2, <2>3 DEF RowOf
  <2>5. IsFiniteSet(R) /\ Cardinality(R) <= Cardinality(S)
    BY <1>2, <2>4, FS_Subset
  <2>6. Cardinality(R) \in Nat
    BY <2>5, FS_CardinalityType
  <2> QED
    BY <1>2, <2>2, <2>4, <2>5, <2>6 DEF ColOf
<1>5. ASSUME NEW k, k = n + 1, byte # LF
      PROVE  RowOf(k)' = LastRow' /\ ColOf(k)' = Last % BUFFER_WIDTH
  <2>1. k \in 1 .. n + 1 /\ \A j \in 1 .. n + 1 : j <= k /\ (j \in 1 .. n => j < k)
    BY <1>1, <1>5
  <2>2. {j \in Breaks' : j < k} = Breaks' /\ {j \in Wraps' : j <= k} = Wraps'
    <3>2. 1 .. n \subseteq 1 .. n + 1 /\ n + 1 \in 1 .. n + 1
      BY <1>1
    <3> HIDE DEF n
    <3>1. Breaks' \subseteq 1 .. n /\ Wraps' \subseteq 1 .. n + 1
      BY <1>1, <1>5, <3>2
    <3> QED
      BY <2>1, <3>1, <3>2
  <2>3. RowOf(k)' = LastRow'
    BY <2>2 DEF RowOf, LastRow
  <2>4. Offset(k)' = Last
    BY <1>5, <2>1, OffsetKept DEF Last
  <2> QED
    BY <2>3, <2>4 DEF ColOf
<1> QED
  BY <1>2, <1>3, <1>4, <1>5

(* Last as the distance from the last line break, here and after a step. *)
LEMMA LastIs ==
    /\ Last = (Len(text) + 1) - Max({0} \cup {j \in Breaks : j < Len(text) + 1}) - 1
    /\ Last' = (Len(text') + 1) - Max({0} \cup {j \in Breaks' : j < Len(text') + 1}) - 1
<1>1. Last = (Len(text) + 1) - Max({0} \cup {j \in Breaks : j < Len(text) + 1}) - 1
  BY DEF Last, Offset
<1>2. Last' = (Len(text') + 1) - Max({0} \cup {j \in Breaks' : j < Len(text') + 1}) - 1
  BY DEF Last, Offset
<1> QED
  BY <1>1, <1>2

(* The last line is empty after a line break and grows by each other byte. *)
LEMMA LineGrows ==
    ASSUME text \in Seq(Bytes), NEW byte \in Bytes, text' = Append(text, byte),
           HasMax({0} \cup Breaks)
    PROVE  /\ HasMax({0} \cup Breaks)'
           /\ Last \in Nat
           /\ Last' = IF byte = LF THEN 0 ELSE Last + 1
<1> DEFINE n == Len(text)
<1>1. /\ n \in Nat /\ Len(text') = n + 1 /\ Breaks \subseteq 1 .. n
      /\ Breaks' = IF byte = LF THEN Breaks \cup {n + 1} ELSE Breaks
  BY TextGrows
<1>2. PICK m \in {0} \cup Breaks : \A y \in {0} \cup Breaks : m >= y
  BY DEF HasMax
<1>3. /\ Last = (n + 1) - Max({0} \cup {j \in Breaks : j < n + 1}) - 1
      /\ Last' = (Len(text') + 1) - Max({0} \cup {j \in Breaks' : j < Len(text') + 1}) - 1
  BY LastIs
<1> HIDE DEF n
<1>4. m \in 0 .. n /\ {0} \cup Breaks \in SUBSET Nat /\ {0} \cup Breaks' \in SUBSET Nat
  BY <1>1, <1>2
<1>5. Last = n - m /\ Last \in Nat
  <2>1. {j \in Breaks : j < n + 1} = Breaks
    <3>1. \A j \in 1 .. n : j < n + 1
      BY <1>1
    <3> QED
      BY <1>1, <3>1
  <2>2. Max({0} \cup Breaks) = m
    BY <1>2, <1>4, MaxIs
  <2>3. Last = (n + 1) - m - 1
    BY <1>3, <2>1, <2>2
  <2> QED
    BY <1>1, <1>4, <2>3
<1>6. {j \in Breaks' : j < Len(text') + 1} = Breaks'
  <2>1. \A j \in 1 .. n + 1 : j < n + 1 + 1
    BY <1>1
  <2>2. Breaks' \subseteq 1 .. n + 1
    BY <1>1
  <2> QED
    BY <1>1, <2>1, <2>2
<1>7. Last' = (n + 2) - Max({0} \cup Breaks') - 1
  <2>1. Len(text') + 1 = n + 2
    BY <1>1
  <2>2. Last' = (Len(text') + 1) - Max({0} \cup Breaks') - 1
    BY <1>6, <1>3
  <2> QED
    BY <2>1, <2>2
<1>8. CASE byte = LF
  <2>1. n + 1 \in {0} \cup Breaks' /\ \A y \in {0} \cup Breaks' : n + 1 >= y
    BY <1>1, <1>8
  <2>2. Max({0} \cup Breaks') = n + 1
    BY <1>4, <2>1, MaxIs
  <2>3. HasMax({0} \cup Breaks)'
    BY <2>1 DEF HasMax
  <2> QED
    BY <1>1, <1>5, <1>7, <1>8, <2>2, <2>3
<1>9. CASE byte # LF
  <2>1. Breaks' = Breaks
    BY <1>1, <1>9
  <2>2. Max({0} \cup Breaks') = m
    BY <1>2, <1>4, <2>1, MaxIs
  <2>3. HasMax({0} \cup Breaks)'
    BY <2>1 DEF HasMax
  <2> QED
    BY <1>1, <1>4, <1>5, <1>7, <1>9, <2>2, <2>3
<1> QED
  BY <1>8, <1>9

(* The remainder of a length that is a number of full rows and a rest. *)
LEMMA Remainder ==
    ASSUME NEW w \in Nat \ {0}, NEW q \in Nat, NEW c \in 0 .. w - 1
    PROVE  (q * w + c) % w = c
<1> DEFINE o == q * w + c
           p == o \div w
           d == o % w
<1>1. o \in Nat
  OBVIOUS
<1> HIDE DEF o
<1>2. p \in Nat /\ d \in 0 .. w - 1 /\ o = w * p + d
  BY <1>1
<1> HIDE DEF p, d
<1>3. w * p = p * w
  BY <1>2
<1>4. q * w + c = p * w + d
  BY <1>2, <1>3 DEF o
<1>5. c = d
  BY <1>2, <1>4, Division
<1> QED
  BY <1>5 DEF d, o

(* The row is full when the column has reached its end, and otherwise the  *)
(* column is where the next byte belongs.                                  *)
LEMMA ColumnIs ==
    ASSUME column_position \in 0 .. BUFFER_WIDTH,
           NEW q \in Nat, Last = q * BUFFER_WIDTH + column_position,
           Last = 0 <=> column_position = 0
    PROVE  /\ Full <=> column_position = BUFFER_WIDTH
           /\ Last % BUFFER_WIDTH =
                 IF column_position >= BUFFER_WIDTH THEN 0 ELSE column_position
<1> DEFINE w == BUFFER_WIDTH
           c == column_position
<1>1. w \in Nat \ {0} /\ c \in 0 .. w
  BY SizeAssumption
<1>2. CASE c = w
  <2>1. Last = (q + 1) * w + 0 /\ q + 1 \in Nat /\ 0 \in 0 .. w - 1
    BY <1>1, <1>2
  <2>2. Last % w = 0
    BY <1>1, <2>1, Remainder
  <2>3. Last > 0
    <3>1. q * w \in Nat
      BY <1>1
    <3> QED
      BY <1>1, <1>2, <3>1
  <2> QED
    BY <1>1, <1>2, <2>2, <2>3 DEF Full
<1>3. CASE c # w
  <2>1. c \in 0 .. w - 1
    BY <1>1, <1>3
  <2>2. Last % w = c
    BY <1>1, <2>1, Remainder
  <2> QED
    BY <1>1, <1>3, <2>1, <2>2 DEF Full
<1> QED
  BY <1>2, <1>3

(* What a cell shows, from Here. *)
Shows(r, c) ==
    IF Here(r, c) # {} THEN glyph(text[Max(Here(r, c))])
    ELSE IF BUFFER_HEIGHT - 1 - r < LastRow THEN Blank
    ELSE before[r + LastRow][c]

(* The property says of each cell what it shows. *)
LEMMA TailIs ==
    ScreenShowsTail <=>
        /\ \A r \in Rows, c \in Cols : chars[r][c] = Shows(r, c)
        /\ column_position = Cardinality(Bottom)
BY DEF ScreenShowsTail, Shows, Here, Bottom

(* The bytes of a cell after a step. *)
LEMMA HereGrows ==
    ASSUME text \in Seq(Bytes), NEW byte \in Bytes, text' = Append(text, byte),
           NEW r \in Rows, NEW c
    PROVE  Here(r, c)' =
              {i \in (1 .. Len(text)) \ Breaks :
                  RowOf(i) + (BUFFER_HEIGHT - 1 - r) = LastRow' /\ ColOf(i) = c}
              \cup {i \in {Len(text) + 1} :
                       byte # LF /\ r = BUFFER_HEIGHT - 1 /\ c = Last % BUFFER_WIDTH}
<1> DEFINE n == Len(text)
           up == BUFFER_HEIGHT - 1 - r
<1>1. /\ n \in Nat /\ DOMAIN text' = 1 .. n + 1
      /\ Breaks' = IF byte = LF THEN Breaks \cup {n + 1} ELSE Breaks
      /\ Breaks \subseteq 1 .. n
  BY TextGrows
<1>2. /\ LastRow \in Nat /\ LastRow' \in Nat
      /\ \A i \in 1 .. n : RowOf(i)' = RowOf(i) /\ ColOf(i)' = ColOf(i)
      /\ \A k : k = n + 1 /\ byte # LF => RowOf(k)' = LastRow' /\ ColOf(k)' = Last % BUFFER_WIDTH
  BY RowsGrow
<1>3. up \in Nat /\ (up = 0 <=> r = BUFFER_HEIGHT - 1)
  BY SizeAssumption DEF Rows
<1>4. \A i : i \in Here(r, c)' <=>
                i \in 1 .. n + 1 /\ i \notin Breaks' /\ RowOf(i)' + up = LastRow' /\ ColOf(i)' = c
  BY <1>1 DEF Here
<1> HIDE DEF n, up
<1>5. ASSUME NEW i \in 1 .. n
      PROVE  i \in Here(r, c)' <=> i \notin Breaks /\ RowOf(i) + up = LastRow' /\ ColOf(i) = c
  <2>1. i \in 1 .. n + 1 /\ (i \in Breaks' <=> i \in Breaks)
    BY <1>1
  <2> QED
    BY <1>2, <1>4, <2>1
<1>6. ASSUME NEW k, k = n + 1
      PROVE  k \in Here(r, c)' <=> byte # LF /\ up = 0 /\ c = Last % BUFFER_WIDTH
  <2>1. k \in 1 .. n + 1 /\ (k \in Breaks' <=> byte = LF)
    BY <1>1, <1>6
  <2>2. ASSUME byte # LF PROVE (RowOf(k)' + up = LastRow') <=> up = 0
    BY <1>2, <1>3, <1>6, <2>2
  <2> QED
    BY <1>2, <1>4, <1>6, <2>1, <2>2
<1>7. ASSUME NEW i, i \notin 1 .. n, i # n + 1 PROVE i \notin Here(r, c)'
  BY <1>1, <1>4, <1>7
<1>8. ASSUME NEW i
      PROVE  i \in Here(r, c)' <=>
                \/ i \in (1 .. n) \ Breaks /\ RowOf(i) + up = LastRow' /\ ColOf(i) = c
                \/ i = n + 1 /\ byte # LF /\ r = BUFFER_HEIGHT - 1 /\ c = Last % BUFFER_WIDTH
  <2>1. n + 1 \notin 1 .. n
    BY <1>1
  <2> QED
    BY <1>3, <1>5, <1>6, <1>7, <2>1
<1> QED
  BY <1>8 DEF n, up

(* The bytes of the bottom row after a step. *)
LEMMA BottomGrows ==
    ASSUME text \in Seq(Bytes), NEW byte \in Bytes, text' = Append(text, byte)
    PROVE  Bottom' = {i \in (1 .. Len(text)) \ Breaks : RowOf(i) = LastRow'}
                     \cup {i \in {Len(text) + 1} : byte # LF}
<1> DEFINE n == Len(text)
<1>1. /\ n \in Nat /\ DOMAIN text' = 1 .. n + 1
      /\ Breaks' = IF byte = LF THEN Breaks \cup {n + 1} ELSE Breaks
      /\ Breaks \subseteq 1 .. n
  BY TextGrows
<1>2. /\ \A i \in 1 .. n : RowOf(i)' = RowOf(i)
      /\ \A k : k = n + 1 /\ byte # LF => RowOf(k)' = LastRow'
  BY RowsGrow
<1>3. \A i : i \in Bottom' <=> i \in 1 .. n + 1 /\ i \notin Breaks' /\ RowOf(i)' = LastRow'
  BY <1>1 DEF Bottom
<1> HIDE DEF n
<1>4. 1 .. n + 1 = (1 .. n) \cup {n + 1} /\ n + 1 \notin 1 .. n
  BY <1>1
<1>5. ASSUME NEW i
      PROVE  i \in Bottom' <=> \/ i \in (1 .. n) \ Breaks /\ RowOf(i) = LastRow'
                               \/ i = n + 1 /\ byte # LF
  BY <1>1, <1>2, <1>3, <1>4
<1> QED
  BY <1>5 DEF n

(* A cell that the step does not write shows the same bytes, here or one   *)
(* row higher.                                                             *)
LEMMA CellKept ==
    ASSUME text \in Seq(Bytes), NEW byte \in Bytes, text' = Append(text, byte),
           before' = before, NEW r \in Rows, NEW s \in Rows, NEW c \in Cols,
           s + LastRow = r + LastRow',
           byte = LF \/ r # BUFFER_HEIGHT - 1 \/ c # Last % BUFFER_WIDTH,
           Here(s, c) # {} => HasMax(Here(s, c))
    PROVE  Here(r, c)' = Here(s, c) /\ Shows(r, c)' = Shows(s, c)
<1> DEFINE n == Len(text)
<1>1. LastRow \in Nat /\ LastRow' \in Nat /\ \A i \in 1 .. n : RowOf(i) \in Nat
  BY RowsGrow
<1>2. n \in Nat /\ DOMAIN text = 1 .. n /\ \A i \in 1 .. n : text'[i] = text[i]
  BY TextGrows
<1>3. r \in Nat /\ s \in Nat /\ BUFFER_HEIGHT \in Nat
  BY SizeAssumption DEF Rows
<1>4. Here(r, c)' =
         {i \in (1 .. n) \ Breaks :
             RowOf(i) + (BUFFER_HEIGHT - 1 - r) = LastRow' /\ ColOf(i) = c}
  BY HereGrows
<1>5. Here(s, c) =
         {i \in (1 .. n) \ Breaks :
             RowOf(i) + (BUFFER_HEIGHT - 1 - s) = LastRow /\ ColOf(i) = c}
  BY <1>2 DEF Here
<1> HIDE DEF n
<1>6. \A h, a, b, x, y \in Nat : y + a = x + b =>
          /\ \A k \in Nat : k + (h - 1 - x) = b <=> k + (h - 1 - y) = a
          /\ h - 1 - x < b <=> h - 1 - y < a
  OBVIOUS
<1>7. /\ \A k \in Nat : k + (BUFFER_HEIGHT - 1 - r) = LastRow' <=>
                            k + (BUFFER_HEIGHT - 1 - s) = LastRow
      /\ BUFFER_HEIGHT - 1 - r < LastRow' <=> BUFFER_HEIGHT - 1 - s < LastRow
  BY <1>1, <1>3, <1>6, Zenon
<1>8. ASSUME NEW i \in 1 .. n
      PROVE  RowOf(i) + (BUFFER_HEIGHT - 1 - r) = LastRow' <=>
                RowOf(i) + (BUFFER_HEIGHT - 1 - s) = LastRow
  BY <1>1, <1>7, Zenon
<1>9. Here(r, c)' = Here(s, c)
  BY <1>4, <1>5, <1>8
<1>10. /\ BUFFER_HEIGHT - 1 - r < LastRow' <=> BUFFER_HEIGHT - 1 - s < LastRow
       /\ r + LastRow' = s + LastRow
  BY <1>7, Zenon
<1>11. Shows(r, c)' =
         IF Here(r, c)' # {} THEN glyph(text'[Max(Here(r, c)')])
         ELSE IF BUFFER_HEIGHT - 1 - r < LastRow' THEN Blank
         ELSE before[r + LastRow'][c]
  BY DEF Shows, glyph
<1>12. CASE Here(s, c) # {}
  <2>1. Max(Here(s, c)) \in Here(s, c)
    BY <1>12, MaxIn
  <2>2. text'[Max(Here(s, c))] = text[Max(Here(s, c))]
    BY <1>2, <1>5, <2>1
  <2> QED
    BY <1>9, <1>11, <1>12, <2>2 DEF Shows
<1>13. CASE Here(s, c) = {}
  BY <1>9, <1>10, <1>11, <1>13 DEF Shows
<1> QED
  BY <1>9, <1>12, <1>13

(* The cell a byte is written to shows it. *)
LEMMA CellWritten ==
    ASSUME text \in Seq(Bytes), NEW byte \in Bytes, text' = Append(text, byte),
           byte # LF, NEW r \in Rows, r = BUFFER_HEIGHT - 1,
           NEW c \in Cols, c = Last % BUFFER_WIDTH
    PROVE  HasMax(Here(r, c))' /\ Shows(r, c)' = glyph(byte)
<1> DEFINE n == Len(text)
<1>1. n \in Nat /\ text'[n + 1] = byte
  BY TextGrows
<1>2. n + 1 \in Here(r, c)' /\ Here(r, c)' \subseteq (1 .. n) \cup {n + 1}
  BY HereGrows
<1> HIDE DEF n
<1>3. Here(r, c)' \in SUBSET Nat /\ \A y \in Here(r, c)' : n + 1 >= y
  BY <1>1, <1>2
<1>4. HasMax(Here(r, c)')
  BY <1>2, <1>3 DEF HasMax
<1>5. Max(Here(r, c)') = n + 1
  BY <1>2, <1>3, MaxIs
<1>6. Here(r, c)' # {} => Shows(r, c)' = glyph(text'[Max(Here(r, c)')])
  BY DEF Shows, glyph
<1>7. HasMax(Here(r, c))'
  BY <1>4 DEF HasMax
<1> QED
  BY <1>1, <1>2, <1>5, <1>6, <1>7

(* The cells of a fresh bottom row are blank. *)
LEMMA CellCleared ==
    ASSUME text \in Seq(Bytes), NEW byte \in Bytes, text' = Append(text, byte),
           LastRow' = LastRow + 1, NEW r \in Rows, r = BUFFER_HEIGHT - 1,
           NEW c \in Cols, byte = LF \/ c # Last % BUFFER_WIDTH
    PROVE  Here(r, c)' = {} /\ Shows(r, c)' = Blank
<1>1. LastRow \in Nat /\ \A i \in 1 .. Len(text) : RowOf(i) \in Nat /\ RowOf(i) <= LastRow
  BY RowsGrow
<1>2. BUFFER_HEIGHT - 1 - r = 0
  BY SizeAssumption DEF Rows
<1>3. \A i \in 1 .. Len(text) : RowOf(i) + 0 # LastRow'
  BY <1>1
<1>4. Here(r, c)' = {}
  BY <1>2, <1>3, HereGrows
<1>5. Here(r, c)' = {} => Shows(r, c)' = IF BUFFER_HEIGHT - 1 - r < LastRow' THEN Blank
                                         ELSE before'[r + LastRow'][c]
  BY DEF Shows, Blank
<1>6. 0 < LastRow'
  BY <1>1
<1> QED
  BY <1>2, <1>4, <1>5, <1>6

(* The screen after new_line, cell by cell. *)
LEMMA ScrolledIs ==
    ASSUME chars = [row \in Rows |-> [col \in Cols |-> chars[row][col]]]
    PROVE  scrolled(chars) =
              [row \in Rows |-> [col \in Cols |->
                  IF row < BUFFER_HEIGHT - 1 THEN chars[row + 1][col] ELSE Blank]]
<1>1. ASSUME NEW row \in Rows
      PROVE  (IF row < BUFFER_HEIGHT - 1 THEN chars[row + 1] ELSE BlankRow) =
                [col \in Cols |-> IF row < BUFFER_HEIGHT - 1 THEN chars[row + 1][col] ELSE Blank]
  <2>1. CASE row < BUFFER_HEIGHT - 1
    <3>1. row + 1 \in Rows
      BY <2>1, SizeAssumption DEF Rows
    <3>2. chars[row + 1] = [col \in Cols |-> chars[row + 1][col]]
      BY <3>1
    <3> QED
      BY <2>1, <3>2
  <2>2. CASE ~ (row < BUFFER_HEIGHT - 1)
    BY <2>2 DEF BlankRow
  <2> QED
    BY <2>1, <2>2
<1> QED
  BY <1>1 DEF scrolled

(* The screen after put, cell by cell. *)
LEMMA PutIs ==
    ASSUME chars = [row \in Rows |-> [col \in Cols |-> chars[row][col]]],
           NEW byte, put(byte), column_position \in 0 .. BUFFER_WIDTH
    PROVE  LET full == column_position >= BUFFER_WIDTH
               place == IF full THEN 0 ELSE column_position
           IN  /\ place \in Cols /\ column_position' = place + 1
               /\ chars' =
                     [row \in Rows |-> [col \in Cols |->
                         IF row = BUFFER_HEIGHT - 1 /\ col = place THEN glyph(byte)
                         ELSE IF full
                         THEN IF row < BUFFER_HEIGHT - 1 THEN chars[row + 1][col] ELSE Blank
                         ELSE chars[row][col]]]
<1> DEFINE full == column_position >= BUFFER_WIDTH
           place == IF full THEN 0 ELSE column_position
           Cleared(row, col) ==
               IF full
               THEN IF row < BUFFER_HEIGHT - 1 THEN chars[row + 1][col] ELSE Blank
               ELSE chars[row][col]
           buffer == IF full THEN scrolled(chars) ELSE chars
           last == BUFFER_HEIGHT - 1
<1>1. place \in Cols /\ last \in Rows
  BY SizeAssumption DEF Rows, Cols
<1>2. buffer = [row \in Rows |-> [col \in Cols |-> Cleared(row, col)]]
  <2>1. CASE full
    BY <2>1, ScrolledIs
  <2>2. CASE ~ full
    BY <2>2
  <2> QED
    BY <2>1, <2>2
<1>3. chars' = [buffer EXCEPT ![last][place] = glyph(byte)] /\ column_position' = place + 1
  BY DEF put
<1> HIDE DEF full, place, buffer, last, Cleared
<1>4. [buffer EXCEPT ![last][place] = glyph(byte)] =
         [row \in Rows |-> [col \in Cols |->
             IF row = last /\ col = place THEN glyph(byte) ELSE Cleared(row, col)]]
  BY <1>1, <1>2
<1> QED
  BY <1>1, <1>3, <1>4 DEF full, place, last, Cleared

(* A line break shows the tail of the longer text. *)
LEMMA LineBreakShows ==
    ASSUME SInv, NEW byte, byte = LF, write_byte(byte)
    PROVE  /\ chars' = [row \in Rows |-> [col \in Cols |-> chars'[row][col]]]
           /\ \A r \in Rows, c \in Cols : (Here(r, c) # {} => HasMax(Here(r, c)))'
           /\ ScreenShowsTail'
<1>1. /\ text \in Seq(Bytes) /\ byte \in Bytes /\ text' = Append(text, byte) /\ before' = before
      /\ chars' = scrolled(chars) /\ column_position' = 0
      /\ chars = [row \in Rows |-> [col \in Cols |-> chars[row][col]]]
  BY DEF SInv, write_byte, new_line, Bytes
<1>2. \A r \in Rows, c \in Cols : chars[r][c] = Shows(r, c)
  BY TailIs DEF SInv
<1>3. \A r \in Rows, c \in Cols : Here(r, c) # {} => HasMax(Here(r, c))
  BY DEF SInv
<1>4. LastRow \in Nat /\ LastRow' = LastRow + 1
  BY <1>1, RowsGrow
<1>5. chars' = [row \in Rows |-> [col \in Cols |->
                  IF row < BUFFER_HEIGHT - 1 THEN chars[row + 1][col] ELSE Blank]]
  BY <1>1, ScrolledIs
<1>6. chars' = [row \in Rows |-> [col \in Cols |-> chars'[row][col]]]
  BY <1>5
<1>7. ASSUME NEW r \in Rows, NEW c \in Cols
      PROVE  (Here(r, c)' # {} => HasMax(Here(r, c))') /\ chars'[r][c] = Shows(r, c)'
  <2>1. CASE r < BUFFER_HEIGHT - 1
    <3>1. PICK s \in Rows : s = r + 1
      BY <2>1, SizeAssumption DEF Rows
    <3>2. s + LastRow = r + LastRow'
      BY <1>4, <3>1 DEF Rows
    <3>3. Here(r, c)' = Here(s, c) /\ Shows(r, c)' = Shows(s, c)
      BY <1>1, <1>3, <3>2, CellKept
    <3>4. chars'[r][c] = chars[s][c]
      BY <1>5, <2>1, <3>1
    <3> QED
      BY <1>2, <1>3, <3>3, <3>4 DEF HasMax
  <2>2. CASE ~ (r < BUFFER_HEIGHT - 1)
    <3>1. r = BUFFER_HEIGHT - 1
      BY <2>2, SizeAssumption DEF Rows
    <3>2. Here(r, c)' = {} /\ Shows(r, c)' = Blank
      BY <1>1, <1>4, <3>1, CellCleared
    <3> QED
      BY <1>5, <2>2, <3>2
  <2> QED
    BY <2>1, <2>2
<1>8. column_position' = Cardinality(Bottom')
  <2>1. \A i \in 1 .. Len(text) : RowOf(i) \in Nat /\ RowOf(i) <= LastRow
    BY <1>1, RowsGrow
  <2>2. \A i \in 1 .. Len(text) : RowOf(i) # LastRow'
    BY <1>4, <2>1
  <2>3. Bottom' = {}
    BY <1>1, <2>2, BottomGrows
  <2> QED
    BY <1>1, <2>3, FS_EmptySet
<1>9. ScreenShowsTail'
  <2>1. \A r \in Rows, c \in Cols : (chars[r][c] = Shows(r, c))'
    BY <1>7
  <2>2. (/\ \A r \in Rows, c \in Cols : chars[r][c] = Shows(r, c)
         /\ column_position = Cardinality(Bottom))'
    BY <1>8, <2>1
  <2> QED
    BY <2>2, TailIs, PTL
<1> QED
  BY <1>6, <1>7, <1>9

(* A byte that is not a line break shows the tail of the longer text: it   *)
(* goes to the place of the text alone, below a row that is full.          *)
LEMMA PutShows ==
    ASSUME SInv, NEW byte \in Bytes, byte # LF, write_byte(byte)
    PROVE  /\ chars' = [row \in Rows |-> [col \in Cols |-> chars'[row][col]]]
           /\ \A r \in Rows, c \in Cols : (Here(r, c) # {} => HasMax(Here(r, c)))'
           /\ ScreenShowsTail'
<1> DEFINE full == column_position >= BUFFER_WIDTH
           place == IF full THEN 0 ELSE column_position
<1>1. /\ text \in Seq(Bytes) /\ text' = Append(text, byte) /\ before' = before /\ put(byte)
      /\ chars = [row \in Rows |-> [col \in Cols |-> chars[row][col]]]
      /\ column_position \in 0 .. BUFFER_WIDTH
  BY DEF SInv, write_byte
<1>2. \A r \in Rows, c \in Cols : chars[r][c] = Shows(r, c)
  BY TailIs DEF SInv
<1>3. \A r \in Rows, c \in Cols : Here(r, c) # {} => HasMax(Here(r, c))
  BY DEF SInv
<1>4. Last % BUFFER_WIDTH = place /\ (Full <=> column_position = BUFFER_WIDTH)
  BY ColumnIs DEF SInv
<1>5. LastRow \in Nat /\ (LastRow' = IF full THEN LastRow + 1 ELSE LastRow)
  <2>1. Full <=> full
    BY <1>1, <1>4, SizeAssumption
  <2> QED
    BY <1>1, <2>1, RowsGrow
<1>6. /\ place \in Cols /\ column_position' = place + 1
      /\ chars' =
            [row \in Rows |-> [col \in Cols |->
                IF row = BUFFER_HEIGHT - 1 /\ col = place THEN glyph(byte)
                ELSE IF full
                THEN IF row < BUFFER_HEIGHT - 1 THEN chars[row + 1][col] ELSE Blank
                ELSE chars[row][col]]]
  BY <1>1, PutIs
<1> HIDE DEF full, place
<1>7. chars' = [row \in Rows |-> [col \in Cols |-> chars'[row][col]]]
  BY <1>6
<1>8. ASSUME NEW r \in Rows, NEW c \in Cols
      PROVE  (Here(r, c)' # {} => HasMax(Here(r, c))') /\ chars'[r][c] = Shows(r, c)'
  <2>1. CASE r = BUFFER_HEIGHT - 1 /\ c = place
    <3>1. HasMax(Here(r, c))' /\ Shows(r, c)' = glyph(byte)
      BY <1>1, <1>4, <2>1, CellWritten
    <3> QED
      BY <1>6, <2>1, <3>1
  <2>2. CASE ~ (r = BUFFER_HEIGHT - 1 /\ c = place) /\ ~ full
    <3>1. r + LastRow = r + LastRow'
      BY <1>5, <2>2
    <3>2. Here(r, c)' = Here(r, c) /\ Shows(r, c)' = Shows(r, c)
      BY <1>1, <1>3, <1>4, <2>2, <3>1, CellKept
    <3>3. chars'[r][c] = chars[r][c]
      BY <1>6, <2>2
    <3> QED
      BY <1>2, <1>3, <3>2, <3>3 DEF HasMax
  <2>3. CASE full /\ r < BUFFER_HEIGHT - 1
    <3>1. PICK s \in Rows : s = r + 1
      BY <2>3, SizeAssumption DEF Rows
    <3>2. s + LastRow = r + LastRow' /\ r # BUFFER_HEIGHT - 1
      BY <1>5, <2>3, <3>1, SizeAssumption DEF Rows
    <3>3. Here(r, c)' = Here(s, c) /\ Shows(r, c)' = Shows(s, c)
      BY <1>1, <1>3, <3>2, CellKept
    <3>4. chars'[r][c] = chars[s][c]
      BY <1>6, <2>3, <3>1, <3>2
    <3> QED
      BY <1>2, <1>3, <3>3, <3>4 DEF HasMax
  <2>4. CASE full /\ r = BUFFER_HEIGHT - 1 /\ c # place
    <3>1. LastRow' = LastRow + 1 /\ c # Last % BUFFER_WIDTH
      BY <1>4, <1>5, <2>4
    <3>2. Here(r, c)' = {} /\ Shows(r, c)' = Blank
      BY <1>1, <2>4, <3>1, CellCleared
    <3>3. ~ (r < BUFFER_HEIGHT - 1)
      BY <2>4, SizeAssumption
    <3> QED
      BY <1>6, <2>4, <3>2, <3>3
  <2>5. r < BUFFER_HEIGHT - 1 \/ r = BUFFER_HEIGHT - 1
    BY SizeAssumption DEF Rows
  <2> QED
    BY <2>1, <2>2, <2>3, <2>4, <2>5
<1>9. column_position' = Cardinality(Bottom')
  <2>1. \A i \in 1 .. Len(text) : RowOf(i) \in Nat /\ RowOf(i) <= LastRow
    BY <1>1, RowsGrow
  <2>2. Len(text) \in Nat /\ DOMAIN text = 1 .. Len(text)
    BY <1>1
  <2>3. CASE full
    <3>1. \A i \in 1 .. Len(text) : RowOf(i) # LastRow'
      BY <1>5, <2>1, <2>3
    <3>2. Bottom' = {Len(text) + 1}
      BY <1>1, <3>1, BottomGrows
    <3>3. column_position' = 1
      BY <1>6, <2>3 DEF place
    <3> QED
      BY <3>2, <3>3, FS_Singleton
  <2>4. CASE ~ full
    <3>1. LastRow' = LastRow
      BY <1>5, <2>4
    <3>2. Bottom' = Bottom \cup {Len(text) + 1}
      BY <1>1, <2>2, <3>1, BottomGrows DEF Bottom
    <3>3. IsFiniteSet(Bottom) /\ Len(text) + 1 \notin Bottom
      <4>1. Bottom \in SUBSET (1 .. Len(text)) /\ Len(text) + 1 \notin 1 .. Len(text)
        BY <2>2 DEF Bottom
      <4>2. IsFiniteSet(1 .. Len(text))
        BY <2>2, FS_Interval
      <4> QED
        BY <4>1, <4>2, FS_Subset
    <3>4. Cardinality(Bottom \cup {Len(text) + 1}) = Cardinality(Bottom) + 1
      BY <3>3, FS_AddElement
    <3>5. column_position = Cardinality(Bottom)
      BY TailIs DEF SInv
    <3>6. column_position' = column_position + 1
      BY <1>6, <2>4 DEF place
    <3> QED
      BY <3>2, <3>4, <3>5, <3>6
  <2> QED
    BY <2>3, <2>4
<1>10. ScreenShowsTail'
  <2>1. \A r \in Rows, c \in Cols : (chars[r][c] = Shows(r, c))'
    BY <1>8
  <2>2. (/\ \A r \in Rows, c \in Cols : chars[r][c] = Shows(r, c)
         /\ column_position = Cardinality(Bottom))'
    BY <1>9, <2>1
  <2> QED
    BY <2>2, TailIs, PTL
<1> QED
  BY <1>7, <1>8, <1>10

(* The screen before the kernel writes. *)
Untouched ==
    /\ text = <<>> /\ before = chars /\ column_position = 0
    /\ chars = [row \in Rows |-> [col \in Cols |-> chars[row][col]]]

(* Before the kernel writes, the screen shows what was there before. *)
LEMMA NothingWritten == Untouched => SInv
<1> SUFFICES ASSUME Untouched PROVE SInv
  OBVIOUS
<1> USE DEF Untouched
<1>1. /\ text \in Seq(Bytes) /\ Len(text) = 0 /\ DOMAIN text = {}
  OBVIOUS
<1>2. Breaks = {} /\ Wraps = {}
  BY <1>1 DEF Breaks, Wraps
<1>3. LastRow = 0
  BY <1>2, FS_EmptySet DEF LastRow
<1>4. Bottom = {} /\ \A r, c : Here(r, c) = {}
  BY <1>1 DEF Bottom, Here
<1>5. HasMax({0} \cup Breaks)
  BY <1>2 DEF HasMax
<1>6. Last = 0
  <2>1. {0} \cup {j \in Breaks : j < Len(text) + 1} = {0}
    BY <1>2
  <2>2. Max({0}) = 0
    BY MaxIs
  <2>3. Last = (0 + 1) - 0 - 1
    BY <1>1, <2>1, <2>2 DEF Last, Offset
  <2> QED
    BY <2>3
<1>7. ASSUME NEW r \in Rows, NEW c \in Cols PROVE chars[r][c] = Shows(r, c)
  <2>1. ~ (BUFFER_HEIGHT - 1 - r < 0) /\ r + 0 = r
    BY SizeAssumption DEF Rows
  <2> QED
    BY <1>3, <1>4, <2>1 DEF Shows
<1>8. ScreenShowsTail
  BY <1>4, <1>7, TailIs, FS_EmptySet
<1>9. BUFFER_WIDTH \in Nat /\ 0 * BUFFER_WIDTH + 0 = 0 /\ 0 \in 0 .. BUFFER_WIDTH
  BY SizeAssumption
<1>10. \E q \in Nat : Last = q * BUFFER_WIDTH + column_position
  BY <1>6, <1>9
<1> QED
  BY <1>1, <1>4, <1>5, <1>6, <1>8, <1>9, <1>10 DEF SInv

(* Every step of the kernel's Writer keeps SInv. *)
LEMMA StepWriter ==
    ASSUME SInv, NEW byte \in Bytes, write_byte(byte), running' = "kernel"
    PROVE  SInv'
<1>1. text \in Seq(Bytes) /\ text' = Append(text, byte) /\ text' \in Seq(Bytes)
  BY DEF SInv, write_byte
<1>2. /\ HasMax({0} \cup Breaks)' /\ Last \in Nat
      /\ Last' = IF byte = LF THEN 0 ELSE Last + 1
  BY <1>1, LineGrows DEF SInv
<1>3. /\ chars' = [row \in Rows |-> [col \in Cols |-> chars'[row][col]]]
      /\ \A r \in Rows, c \in Cols : (Here(r, c) # {} => HasMax(Here(r, c)))'
      /\ ScreenShowsTail'
  BY LineBreakShows, PutShows
<1>4. /\ column_position' \in 0 .. BUFFER_WIDTH
      /\ \E q \in Nat : Last' = q * BUFFER_WIDTH + column_position'
      /\ Last' = 0 <=> column_position' = 0
  <2>1. BUFFER_WIDTH \in Nat \ {0} /\ column_position \in 0 .. BUFFER_WIDTH
    BY SizeAssumption DEF SInv
  <2>2. CASE byte = LF
    <3>1. column_position' = 0 /\ Last' = 0
      BY <1>2, <2>2 DEF write_byte, new_line
    <3>2. 0 * BUFFER_WIDTH + 0 = 0 /\ 0 \in 0 .. BUFFER_WIDTH
      BY <2>1
    <3> QED
      BY <3>1, <3>2
  <2>3. CASE byte # LF
    <3>1. PICK q \in Nat : Last = q * BUFFER_WIDTH + column_position
      BY DEF SInv
    <3>2. column_position' = (IF column_position >= BUFFER_WIDTH THEN 0 ELSE column_position) + 1
      BY <2>3 DEF write_byte, put
    <3>3. q * BUFFER_WIDTH \in Nat /\ (q + 1) * BUFFER_WIDTH = q * BUFFER_WIDTH + BUFFER_WIDTH
      BY <2>1
    <3>4. CASE column_position >= BUFFER_WIDTH
      <4>1. column_position' = 1 /\ column_position = BUFFER_WIDTH
        BY <2>1, <3>2, <3>4
      <4>2. Last' = (q + 1) * BUFFER_WIDTH + column_position' /\ Last' # 0
        BY <1>2, <2>1, <2>3, <3>1, <3>3, <4>1
      <4> QED
        BY <2>1, <4>1, <4>2
    <3>5. CASE ~ (column_position >= BUFFER_WIDTH)
      <4>1. column_position' = column_position + 1
        BY <3>2, <3>5
      <4>2. Last' = q * BUFFER_WIDTH + column_position' /\ Last' # 0
        BY <1>2, <2>1, <2>3, <3>1, <3>3, <4>1
      <4> QED
        BY <2>1, <3>5, <4>1, <4>2
    <3> QED
      BY <3>4, <3>5
  <2> QED
    BY <2>2, <2>3
<1> QED
  BY <1>1, <1>2, <1>3, <1>4 DEF SInv

(* Every step keeps SInv: the bootloader draws before the kernel writes. *)
LEMMA StepSInv == SInv /\ [ScreenNext]_screenVars => SInv'
<1> SUFFICES ASSUME SInv, [ScreenNext]_screenVars PROVE SInv'
  OBVIOUS
<1>1. Untouched' => SInv'
  BY NothingWritten, PTL
<1>2. CASE clear_screen
  <2>1. text' = <<>> /\ before' = chars' /\ column_position' = 0
    BY <1>2 DEF clear_screen, SInv
  <2>2. chars' = [row \in Rows |-> [col \in Cols |-> chars'[row][col]]]
    BY <1>2 DEF clear_screen, clear_text, SInv
  <2> QED
    BY <1>1, <2>1, <2>2 DEF Untouched
<1>3. ASSUME NEW c \in Bytes, panic(c) PROVE SInv'
  <2>1. text' = <<>> /\ before' = chars' /\ column_position' = 0
    BY <1>3 DEF panic, SInv
  <2>2. chars' = [row \in Rows |-> [col \in Cols |-> chars'[row][col]]]
    BY <1>3 DEF panic, text_write_byte, SInv
  <2> QED
    BY <1>1, <2>1, <2>2 DEF Untouched
<1>4. CASE start_kernel
  <2>1. running # "kernel" /\ UNCHANGED vars
    BY <1>4 DEF start_kernel
  <2>2. text' = <<>> /\ before' = chars' /\ column_position' = 0
    BY <2>1 DEF vars, SInv
  <2>3. chars' = [row \in Rows |-> [col \in Cols |-> chars'[row][col]]]
    BY <2>1 DEF vars, SInv
  <2> QED
    BY <1>1, <2>2, <2>3 DEF Untouched
<1>5. ASSUME NEW byte \in Bytes, kernel_writes(byte) PROVE SInv'
  <2>1. write_byte(byte) /\ running' = "kernel"
    BY <1>5 DEF kernel_writes, printerVars
  <2> QED
    BY <2>1, StepWriter
<1>6. CASE UNCHANGED screenVars
  <2>1. UNCHANGED <<chars, column_position, text, before, running>>
    BY <1>6 DEF screenVars, vars, printerVars
  <2>2. Breaks' = Breaks
    BY <2>1 DEF Breaks
  <2>3. \A i : Offset(i)' = Offset(i)
    BY <2>2 DEF Offset
  <2>4. Wraps' = Wraps
    BY <2>1, <2>2, <2>3 DEF Wraps
  <2>5. LastRow' = LastRow /\ \A i : RowOf(i)' = RowOf(i) /\ ColOf(i)' = ColOf(i)
    BY <2>2, <2>3, <2>4 DEF LastRow, RowOf, ColOf
  <2>6. Bottom' = Bottom /\ \A r, c : Here(r, c)' = Here(r, c)
    BY <2>1, <2>2, <2>5 DEF Bottom, Here
  <2>7. Last' = Last
    BY <2>1, <2>2 DEF Last, Offset
  <2>8. \A r, c : Shows(r, c)' = Shows(r, c)
    BY <2>1, <2>5, <2>6 DEF Shows, glyph
  <2>9. ScreenShowsTail'
    <3>1. (/\ \A r \in Rows, c \in Cols : chars[r][c] = Shows(r, c)
           /\ column_position = Cardinality(Bottom))'
      BY <2>1, <2>6, <2>8, TailIs DEF SInv
    <3> QED
      BY <3>1, TailIs, PTL
  <2> QED
    BY <2>1, <2>2, <2>6, <2>7, <2>9 DEF SInv, HasMax
<1> QED
  BY <1>2, <1>3, <1>4, <1>5, <1>6 DEF ScreenNext

(* The kernel's screen shows the last rows of everything it has written,   *)
(* for every size of the screen and every text: no byte is lost at a full  *)
(* row, no cell keeps what was scrolled away, and what the bootloader left *)
(* moves up with the rest.                                                 *)
THEOREM ScreenShowsTailHolds == ScreenSpec => []ScreenShowsTail
<1>1. ScreenInit => SInv
  <2> SUFFICES ASSUME ScreenInit PROVE SInv
    OBVIOUS
  <2>1. /\ text = <<>> /\ before = chars /\ column_position = 0
        /\ chars = [row \in Rows |-> [col \in Cols |-> Old(row, col)]]
    BY DEF ScreenInit, Init
  <2>2. chars = [row \in Rows |-> [col \in Cols |-> chars[row][col]]]
    BY <2>1
  <2> QED
    BY <2>1, <2>2, NothingWritten DEF Untouched
<1>2. SInv => ScreenShowsTail
  BY DEF SInv
<1> QED
  BY <1>1, <1>2, StepSInv, PTL DEF ScreenSpec
==============================================================================
