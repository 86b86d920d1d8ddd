------------------------------ MODULE QrBitmap ------------------------------
(***************************************************************************)
(* GreateQRCode::saveBmp (GreateQRCodeRequestHandler.h): where the modules *)
(* of a QR code go in the data of the bitmap.  The code has size modules   *)
(* in a row, border of them on each side are left white, and a module is a *)
(* square of scale pixels of three bytes.                                  *)
(*                                                                         *)
(* run hands over an integer as the float scale, whose products are exact  *)
(* up to 2^24.  The rest is done in 32-bit integers.  What saveBmp tests   *)
(* before it begins bounds the modules of a row and not the bytes: those   *)
(* of a bitmap wider than MaxWidth are more than an int can count, and the *)
(* data is then too short for the pixels, or its size negative.            *)
(* AlgorithmProofs has the theorems, about every size, border and scale up *)
(* to that width, so that there is nothing for TLC to check.               *)
(***************************************************************************)
EXTENDS Integers

Half     == 2048 * 1024 * 1024   \* 2^31
MaxWidth == 26754                \* pixels: times the bytes of a line, less than 2^31

\* What is left of n in an int.
Int32(n) == ((n + Half) % (2 * Half)) - Half

Width(size, border, scale) == Int32((size + border * 2) * scale)   \* unWidth, unHeight

LineByteCnt(width) == ((Int32(width * 24) \div 8 + 3) \div 4) * 4

DataBytes(width) == Int32(width * LineByteCnt(width))

\* The modules that are drawn: x and y of the two loops, less those that are
\* skipped because one of them is negative.
Drawn(size, border) == 0 .. size + border - 1

ByteAt(line, row, col) == row * line + col * 3

\* pos: the first byte of pixel (i, j) of module (x, y).
Pos(line, border, scale, x, y, i, j) ==
    Int32(ByteAt(line, (y + border) * scale + i, (x + border) * scale + j))
=============================================================================
