------------------------------ MODULE UintAccess ------------------------------
(***************************************************************************)
(* piece, setPiece, byte, setByte, bit and setBit of Uint8 .. Uint64.      *)
(*                                                                         *)
(* A value is the set of its one bits, so that & is \cap, | is \cup and ~  *)
(* is complement.  Operations on a type narrower than int are done with    *)
(* IntBits bits and cut to the type when they are stored.  No index is     *)
(* checked.  C++ defines a shift by less than the width of its operand,    *)
(* and the count of piece and setPiece is a product that wraps, after the  *)
(* index was truncated in the case of setPiece: a large index may come     *)
(* back to a low shift.  byte and setByte address memory and exist within  *)
(* the object only.                                                        *)
(***************************************************************************)
EXTENDS Integers

CONSTANTS
  Bits,      \* bits of the object
  IntBits,   \* bits of int
  ByteBits,  \* bits of a byte
  PieceBits, \* widths of the pieces the type offers
  SizeRange, \* the number of values of std::size_t, the type of an index
  ShiftRange \* the same of the unsigned type in which setPiece counts its shift

ASSUME AccessAssumption ==
  /\ Bits \in Nat \ {0} /\ IntBits \in Nat \ {0} /\ ByteBits \in Nat \ {0}
  /\ PieceBits \subseteq Nat \ {0}
  /\ SizeRange \in Nat /\ ShiftRange \in Nat /\ ShiftRange <= SizeRange
  /\ Bits <= ShiftRange /\ IntBits <= ShiftRange

VARIABLES
  data,      \* data_
  out,       \* the out parameter of the last reader
  asked      \* history: the index and the width of the last call, and for a
             \* writer the bits it was given

accessVars == <<data, out, asked>>

Ones(w) == 0 .. w - 1            \* the bits of the literal 0xFF.., w of them
Word == IF Bits < IntBits THEN IntBits ELSE Bits   \* where operators work
\* Mutation: the int is kept as it is.
StoreUncut(s) == s
Store(s) == s \intersect Ones(Bits)
ShiftUp(s, n) == {b + n : b \in s} \intersect Ones(Word)
ShiftDown(s, n) == {b - n : b \in {c \in s : c >= n}}
Not(s) == Ones(Word) \ s

AccessTypeOK == data \subseteq Ones(Bits) /\ out \subseteq Ones(Bits)

AccessInit == data \in SUBSET Ones(Bits) /\ out = {} /\ asked = <<>>

\* i * 8u in std::size_t.
PieceShift(w, i) == (i * w) % SizeRange

piece(w, i) ==
  /\ out' = ShiftDown(data, PieceShift(w, i)) \intersect Ones(w)
  /\ UNCHANGED data

\* static_cast<unsigned int>(i) * 8u (unsigned long long in Uint64).
SetPieceShift(w, i) == ((i % ShiftRange) * w) % ShiftRange

\* Mutation: the bits that were there are not cleared.
setPieceMerges(w, v, i) ==
  /\ data' = Store(data \union ShiftUp(v, SetPieceShift(w, i)))
  /\ UNCHANGED out

setPiece(w, v, i) ==
  LET shift == SetPieceShift(w, i) IN
  /\ data' = Store((data \intersect Not(ShiftUp(Ones(w), shift))) \union ShiftUp(v, shift))
  /\ UNCHANGED out

\* The i-th byte in memory of a little-endian machine.
ByteAt(i) == {b \in Ones(Bits) : i * ByteBits <= b /\ b < (i + 1) * ByteBits}

byte(i) ==
  /\ out' = {b - i * ByteBits : b \in data \intersect ByteAt(i)}
  /\ UNCHANGED data

setByte(v, i) ==
  /\ data' = (data \ ByteAt(i)) \union {b + i * ByteBits : b \in v}
  /\ UNCHANGED out

bit(i) ==
  /\ out' = ShiftDown(data, i) \intersect {0}
  /\ UNCHANGED data

setBit(v, i) ==
  /\ data' = IF v THEN Store(data \union ShiftUp({0}, i))
                  ELSE Store(data \intersect Not(ShiftUp({0}, i)))
  /\ UNCHANGED out

InByte(i) == Bits > ByteBits /\ (i + 1) * ByteBits <= Bits

AccessNext ==
  \E i \in 0 .. SizeRange - 1 :
    \/ i < Word /\ bit(i) /\ asked' = <<i, 1>>
    \/ i < Word /\ \E v \in BOOLEAN :
         setBit(v, i) /\ asked' = <<i, 1, IF v THEN {0} ELSE {}>>
    \/ InByte(i) /\ byte(i) /\ asked' = <<i, ByteBits>>
    \/ InByte(i) /\ \E v \in SUBSET Ones(ByteBits) :
         setByte(v, i) /\ asked' = <<i, ByteBits, v>>
    \/ \E w \in PieceBits : PieceShift(w, i) < Word /\ piece(w, i) /\ asked' = <<i, w>>
    \/ \E w \in PieceBits : SetPieceShift(w, i) < Word /\ \E v \in SUBSET Ones(w) :
         setPiece(w, v, i) /\ asked' = <<i, w, v>>

AccessSpec == AccessInit /\ [][AccessNext]_accessVars

(* The accessors as views of one row of bits.                              *)

Row == INSTANCE BitArray WITH
  Bits <- Bits, Reach <- Word, Width <- PieceBits \union {1, ByteBits},
  Index <- 0 .. SizeRange - 1, ReadTurn <- SizeRange, WriteTurn <- ShiftRange,
  ones <- data, out <- out, asked <- asked

\* Pieces of any width, bytes and bits are views of one row of bits, the lowest
\* first: whatever mix of them is written, each reader gets the bits written
\* last and a writer touches no bit beside its own slice
\* (uint_access_test.cpp, the round trips and "setBit touches only its bit").
\* An index past the object neither writes nor reads anything, unless it is so
\* large that the count of bits turns round: then setPiece overwrites, and
\* piece reads, the slice at what is left of the count, setPiece already where
\* the type of its shift ends (Uint32: index 2^29 is piece 0 again), piece only
\* where std::size_t does.
ImplementsBitArray == Row!Spec
===============================================================================
