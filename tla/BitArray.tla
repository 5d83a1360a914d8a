------------------------------- MODULE BitArray -------------------------------
(***************************************************************************)
(* What the accessors of the unsigned types promise: the object is a row   *)
(* of bits, the lowest first, and a slice of w bits at a multiple of w can *)
(* be written and read.  Bits past the end do not exist: writing them does *)
(* nothing and they read as zero.  An index is not checked: it turns round *)
(* where the unsigned type that counts bits does, after more bits for a    *)
(* reader than for a writer, and then names a slice of the row again.      *)
(***************************************************************************)
EXTENDS Integers

CONSTANTS
  Bits,      \* number of bits of the object
  Reach,     \* slices start below this bit
  Width,     \* the widths of the slices
  Index,     \* the numbers a slice can be asked for by
  ReadTurn,  \* the bits after which the index of a reader turns round
  WriteTurn  \* the bits after which the index of a writer turns round

VARIABLES
  ones,      \* the bits that are set
  out,       \* what the last reader got: the positions set in its slice
  asked      \* the index and the width asked for last, and the bits to write

Bit == 0 .. Bits - 1

Init == ones \in SUBSET Bit /\ out = {} /\ asked = <<>>

Write(from, w, v) ==
  /\ ones' = {b \in Bit : IF b \in from .. from + w - 1 THEN b - from \in v ELSE b \in ones}
  /\ UNCHANGED out

Read(from, w) ==
  /\ out' = {k \in 0 .. w - 1 : from + k \in ones}
  /\ UNCHANGED ones

WriteAt(i, w, v) ==
  LET from == (i * w) % WriteTurn IN from < Reach /\ Write(from, w, v)

ReadAt(i, w) ==
  LET from == (i * w) % ReadTurn IN from < Reach /\ Read(from, w)

Next ==
  \E w \in Width, i \in Index :
    \/ \E v \in SUBSET (0 .. w - 1) : WriteAt(i, w, v) /\ asked' = <<i, w, v>>
    \/ ReadAt(i, w) /\ asked' = <<i, w>>

Spec == Init /\ [][Next]_<<ones, out, asked>>
===============================================================================
