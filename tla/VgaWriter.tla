------------------------------ MODULE VgaWriter ------------------------------
(***************************************************************************)
(* The text-mode screen, Writer of src/src/vga_buffer.rs.  A byte of a     *)
(* string is one step: it is written to the bottom row, after the screen   *)
(* was scrolled if that row is full, or it is a line break and scrolls.    *)
(*                                                                         *)
(* Rows and columns count from 0.  The buffer is not cleared at start: it  *)
(* shows what was there before, initially Old(row, col).  Colours are left *)
(* out, the kernel uses one.                                               *)
(***************************************************************************)
EXTENDS Naturals, Sequences, FiniteSets, FiniteSetsExt

CONSTANTS
    BUFFER_HEIGHT, BUFFER_WIDTH,
    Printable,    \* bytes 0x20 to 0x7e
    Other,        \* bytes outside that range, except the line break
    MaxBytes      \* bound: bytes written in a behaviour

ASSUME SizeAssumption ==
    BUFFER_HEIGHT \in Nat \ {0} /\ BUFFER_WIDTH \in Nat \ {0}

VARIABLES
    chars,             \* the buffer
    column_position,
    text,              \* history: the bytes written
    before             \* history: the screen before the first of them

vars == <<chars, column_position, text, before>>

LF == "LF"
Blank == "blank"
Placeholder == "0xfe"
Old(row, col) == <<row, col>>

Rows == 0 .. BUFFER_HEIGHT - 1
Cols == 0 .. BUFFER_WIDTH - 1
Bytes == Printable \cup Other \cup {LF}

Init ==
    /\ chars = [row \in Rows |-> [col \in Cols |-> Old(row, col)]]
    /\ column_position = 0
    /\ text = <<>>
    /\ before = chars

(* clear_row of the bottom row. *)
BlankRow == [col \in Cols |-> Blank]

(* new_line: every row moves up, the bottom row is cleared. *)
scrolled_without_clear(buffer) ==
    [row \in Rows |-> IF row < BUFFER_HEIGHT - 1 THEN buffer[row + 1]
                      ELSE buffer[row]]
scrolled(buffer) ==
    [row \in Rows |-> IF row < BUFFER_HEIGHT - 1 THEN buffer[row + 1]
                      ELSE BlankRow]

new_line ==
    /\ chars' = scrolled(chars)
    /\ column_position' = 0

(* write_string shows a placeholder for what is not printable. *)
glyph(byte) == IF byte \in Printable THEN byte ELSE Placeholder

(* write_byte of a byte that is not a line break. *)
put(byte) ==
    LET full == column_position >= BUFFER_WIDTH
        buffer == IF full THEN scrolled(chars) ELSE chars
        col == IF full THEN 0 ELSE column_position
    IN  /\ chars' = [buffer EXCEPT ![BUFFER_HEIGHT - 1][col] = glyph(byte)]
        /\ column_position' = col + 1

write_byte(byte) ==
    /\ Len(text) < MaxBytes
    /\ text' = Append(text, byte)
    /\ UNCHANGED before
    /\ IF byte = LF THEN new_line ELSE put(byte)

Next == \E byte \in Bytes : write_byte(byte)

Spec == Init /\ [][Next]_vars

-----------------------------------------------------------------------------
(* Where each byte of the text belongs, computed from the text alone. *)

Breaks == {i \in DOMAIN text : text[i] = LF}

(* The distance of byte i from the start of its line. *)
Offset(i) == i - Max({0} \cup {j \in Breaks : j < i}) - 1

(* The bytes that start a new row because the one above is full. *)
Wraps == {i \in DOMAIN text \ Breaks : Offset(i) > 0 /\ Offset(i) % BUFFER_WIDTH = 0}

RowOf(i) == Cardinality({j \in Breaks : j < i} \cup {j \in Wraps : j <= i})
ColOf(i) == Offset(i) % BUFFER_WIDTH
LastRow == Cardinality(Breaks \cup Wraps)

(* The screen shows the last rows of the text, broken at line breaks and   *)
(* after BUFFER_WIDTH characters, its last row at the bottom: a full row   *)
(* followed by a line break gives no empty row, nothing of a row that was  *)
(* scrolled shows in the next, and what the screen showed before the first *)
(* byte moves up with the rest.                                            *)
ScreenShowsTail ==
    /\ \A r \in Rows, c \in Cols :
          LET up == BUFFER_HEIGHT - 1 - r
              here == {i \in DOMAIN text \ Breaks :
                          RowOf(i) + up = LastRow /\ ColOf(i) = c}
          IN  chars[r][c] =
                 IF here # {} THEN glyph(text[Max(here)])
                 ELSE IF up < LastRow THEN Blank
                 ELSE before[r + LastRow][c]
    /\ column_position =
          Cardinality({i \in DOMAIN text \ Breaks : RowOf(i) = LastRow})
=============================================================================
