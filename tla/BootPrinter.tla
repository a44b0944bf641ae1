----------------------------- MODULE BootPrinter -----------------------------
(***************************************************************************)
(* The screen before and after the kernel takes it over.  bootloader_main  *)
(* clears it and, if it panics, prints with the Printer of the mode it was *)
(* built for: vga_text_80x25.rs or vga_320x200.rs of src/bootloader/src/   *)
(* printer.  Otherwise the kernel's Writer (VgaWriter) goes on with the    *)
(* text buffer as it finds it.                                             *)
(*                                                                         *)
(* Indexes count bytes from 0xa0000, where the frame buffer starts that    *)
(* stage 3 maps.                                                           *)
(***************************************************************************)
EXTENDS VgaWriter

CONSTANTS
    SCREEN_WIDTH, SCREEN_HEIGHT,   \* pixels, 320 and 200
    GLYPH,                         \* pixels of a character each way, 8
    FrameBufferSize,               \* bytes, 0x20000
    MaxMessage                     \* bound: characters a panic prints

(* The screen holds whole characters; the frame buffer has room for a row  *)
(* of characters and one character more than the screen.                   *)
ASSUME ScreenAssumption ==
    /\ GLYPH \in Nat \ {0} /\ SCREEN_WIDTH \in Nat \ {0} /\ SCREEN_HEIGHT \in Nat \ {0}
    /\ FrameBufferSize \in Nat
    /\ SCREEN_WIDTH % GLYPH = 0 /\ SCREEN_HEIGHT % GLYPH = 0
    /\ (SCREEN_HEIGHT + GLYPH) * SCREEN_WIDTH + GLYPH <= FrameBufferSize

VARIABLES
    feature,           \* "text" or "vga_320x200"
    running,           \* "boot", "cleared", "panic" or "kernel"
    message,           \* history: what the panic has printed
    nested,            \* has the Printer panicked?
    current_offset,
    x_pos, y_pos,
    glyphs             \* characters drawn since the screen was cleared

printerVars == <<feature, running, message, nested, current_offset, x_pos, y_pos, glyphs>>
screenVars == <<vars, printerVars>>

NUL == "0x00"

(* The screen shows what the firmware wrote. *)
ScreenInit ==
    /\ Init
    /\ feature \in {"text", "vga_320x200"}
    /\ running = "boot"
    /\ message = <<>>
    /\ nested = FALSE
    /\ current_offset = 160
    /\ x_pos = 1 /\ y_pos = 1
    /\ glyphs = {}

-----------------------------------------------------------------------------
(* vga_text_80x25.  SCREEN_SIZE counts the characters of the screen and is *)
(* used for its bytes, two for each: the lower half is not cleared.        *)
Cell(row, col) == row * BUFFER_WIDTH + col
SCREEN_SIZE == BUFFER_WIDTH * BUFFER_HEIGHT

clear_text ==
    /\ chars' = [row \in Rows |-> [col \in Cols |->
                    IF 2 * Cell(row, col) < SCREEN_SIZE THEN NUL ELSE chars[row][col]]]
    /\ current_offset' = 0

text_write_byte(byte) ==
    /\ chars' = [row \in Rows |-> [col \in Cols |->
                    IF 2 * Cell(row, col) = current_offset THEN byte ELSE chars[row][col]]]
    /\ current_offset' = current_offset + 2

-----------------------------------------------------------------------------
(* vga_320x200. *)
Draw == [n |-> Len(message) + 1, x |-> x_pos, y |-> y_pos]

Pixels(g) == {(g.y + y) * SCREEN_WIDTH + g.x + x : x, y \in 0 .. GLYPH - 1}

(* newline: the row it leaves, not the one it enters, decides whether the  *)
(* screen is cleared.                                                      *)
newline_keeps_screen(drawn) ==
    /\ y_pos' = y_pos + GLYPH
    /\ x_pos' = 0
    /\ glyphs' = drawn
newline(drawn) ==
    /\ y_pos' = IF y_pos >= SCREEN_HEIGHT THEN 0 ELSE y_pos + GLYPH
    /\ x_pos' = 0
    /\ glyphs' = IF y_pos >= SCREEN_HEIGHT THEN {} ELSE drawn

wrap_after_width(drawn) ==
    IF x_pos >= SCREEN_WIDTH THEN newline(drawn)
    ELSE x_pos' = x_pos + GLYPH /\ y_pos' = y_pos /\ glyphs' = drawn
wrap(drawn) ==
    IF x_pos + GLYPH >= SCREEN_WIDTH THEN newline(drawn)
    ELSE x_pos' = x_pos + GLYPH /\ y_pos' = y_pos /\ glyphs' = drawn

(* write_char.  One that cannot be printed panics after x_pos was moved,   *)
(* and the message of that panic goes on from there.                       *)
write_char(c) ==
    /\ nested' = (nested \/ c \in Other)
    /\ IF c = LF THEN newline(glyphs)
       ELSE IF c \in Other
       THEN x_pos' = x_pos + GLYPH /\ UNCHANGED <<y_pos, glyphs>>
       ELSE wrap(glyphs \cup {Draw})

-----------------------------------------------------------------------------
(* bootloader_main. *)

clear_screen ==
    /\ running = "boot"
    /\ running' = "cleared"
    /\ IF feature = "text"
       THEN clear_text /\ UNCHANGED <<x_pos, y_pos, glyphs>>
       ELSE x_pos' = 0 /\ y_pos' = 0 /\ glyphs' = {} /\ UNCHANGED <<chars, current_offset>>
    /\ before' = chars'
    /\ UNCHANGED <<column_position, text, feature, message, nested>>

(* The panic handler prints a character of its message, then loops.  The   *)
(* message of a panic of the Printer is printable.                         *)
panic(c) ==
    /\ running \in {"cleared", "panic"}
    /\ Len(message) < MaxMessage
    /\ c \in Other => ~ nested
    /\ running' = "panic"
    /\ message' = Append(message, c)
    /\ IF feature = "text"
       THEN text_write_byte(c) /\ UNCHANGED <<x_pos, y_pos, glyphs, nested>>
       ELSE write_char(c) /\ UNCHANGED <<chars, current_offset>>
    /\ before' = chars'
    /\ UNCHANGED <<column_position, text, feature>>

(* The kernel uses the text mode. *)
start_kernel ==
    /\ running = "cleared"
    /\ feature = "text"
    /\ running' = "kernel"
    /\ UNCHANGED <<vars, feature, message, nested, current_offset, x_pos, y_pos, glyphs>>

kernel_writes(byte) ==
    /\ running = "kernel"
    /\ write_byte(byte)
    /\ UNCHANGED printerVars

ScreenNext ==
    \/ clear_screen
    \/ \E c \in Bytes : panic(c)
    \/ start_kernel
    \/ \E byte \in Bytes : kernel_writes(byte)

ScreenSpec == ScreenInit /\ [][ScreenNext]_screenVars

-----------------------------------------------------------------------------
(* A panic message can be read: in text mode its characters follow each    *)
(* other from the first cell on, whatever the firmware left in the half    *)
(* that is not cleared; in graphics mode no character is drawn over        *)
(* another one that was drawn since the screen was cleared, unless the     *)
(* Printer panicked at the end of a row.                                   *)
MessageReadable ==
    running = "panic" =>
        /\ feature = "text" =>
              \A row \in Rows, col \in Cols :
                  Cell(row, col) < Len(message) =>
                      chars[row][col] = message[Cell(row, col) + 1]
        /\ ~ nested =>
              \A g, h \in glyphs : g # h => Pixels(g) \cap Pixels(h) = {}

(* The row below the screen is drawn before the screen is cleared, and a   *)
(* character that follows a panic of the Printer may start right of the    *)
(* last column: all pixels still lie in the frame buffer stage 3 mapped.   *)
PixelsInFrameBuffer ==
    \A g \in glyphs : Pixels(g) \subseteq 0 .. FrameBufferSize - 1
=============================================================================
