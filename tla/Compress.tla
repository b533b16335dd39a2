------------------------------ MODULE Compress ------------------------------
(* compress.c: how the contents of a region are laid out in the dump.  Plain  *)
(* contents are written as they are; LZ4 and ZSTD write the length of the     *)
(* compressed data, here one byte, and then the data.                         *)
(*                                                                            *)
(* g tells what meaningless bytes turn out to be: g.clen as a length, and     *)
(* g.luck as input of a decompressor or as padding of a cipher.               *)
EXTENDS DumpIO

CONSTANTS MAX_DATA_SIZE     \* bound of the compressed data

\* The contents of region i, and their compressed form of c bytes.
Data(i, len) == [j \in 1 .. len |-> <<"data", i, j>>]
Packed(i, len, c) == [j \in 1 .. c |-> <<"packed", i, len, j, c>>]

plain_write(layer, f, src) ==
  [dump_write(layer, f, src) EXCEPT !.ret = IF @ = Len(src) THEN @ ELSE -1]

plain_read(layer, f, pos, len, g) ==
  [dump_read(layer, f, pos, len, g.luck) EXCEPT !.ret = IF @ = len THEN len ELSE -1]

-----------------------------------------------------------------------------
(* lz4_write and zstd_write, lz4_read and zstd_read.                          *)

\* After the length was written with the result w: the compressed data.  Here
\* the result of the second write is not compared with the length.
WriteDstTrusting(layer, w, src, dst) ==
  IF w.ret # 1 THEN [f |-> w.f, ret |-> -1]
  ELSE [dump_write(layer, w.f, dst) EXCEPT !.ret = Len(src)]

WriteDst(layer, w, src, dst) ==
  IF w.ret # 1 THEN [f |-> w.f, ret |-> -1]
  ELSE [dump_write(layer, w.f, dst) EXCEPT !.ret = IF @ # Len(dst) THEN -1 ELSE Len(src)]

PackedWrite(layer, f, src, dst) ==
  WriteDst(layer, dump_write(layer, f, << <<"clen", Len(dst)>> >>), src, dst)

\* What the decompressor makes of src in a buffer of len bytes: an error, or
\* contents that need not fill the buffer.
Unpack(src, len, g) ==
  LET k == src[1]
      whole == src # <<>> /\ k[1] = "packed" /\ src = Packed(k[2], k[3], k[5])
  IN  IF whole /\ k[3] <= len
      THEN [ok |-> TRUE, buf |-> Data(k[2], k[3]) \o Repeat(Stale, len - k[3])]
      ELSE [ok |-> ~whole /\ g.luck, buf |-> Repeat(IF src = <<>> THEN Stale ELSE Noise, len)]

failed(pos) == [ret |-> -1, buf |-> <<>>, pos |-> pos]

\* b is what reading the compressed data gave, u what it is when decompressed.
Unpacked(u, b, len) == IF u.ok THEN [ret |-> len, buf |-> u.buf, pos |-> b.pos] ELSE failed(b.pos)

Decompress(b, src_len, len, g) ==
  IF b.ret # src_len THEN failed(b.pos) ELSE Unpacked(Unpack(b.buf, len, g), b, len)

ReadSrc(layer, f, pos, src_len, len, g) ==
  IF src_len > MAX_DATA_SIZE THEN failed(pos)
  ELSE Decompress(dump_read(layer, f, pos, src_len, g.luck), src_len, len, g)

\* The length that the byte b is.
Length(b, g) == IF b[1] = "clen" THEN b[2] ELSE g.clen

\* After the length was read with the result a: the compressed data.
ReadLength(layer, f, a, len, g) ==
  IF a.ret # 1 THEN failed(a.pos) ELSE ReadSrc(layer, f, a.pos, Length(a.buf[1], g), len, g)

PackedRead(layer, f, pos, len, g) ==
  ReadLength(layer, f, dump_read(layer, f, pos, 1, g.luck), len, g)

-----------------------------------------------------------------------------

\* The functions that select_algorithm installs.
compress_write(opts, f, i, len, c) ==
  IF opts.compress THEN PackedWrite(opts.layer, f, Data(i, len), Packed(i, len, c))
  ELSE plain_write(opts.layer, f, Data(i, len))

compress_read(opts, f, pos, len, g) ==
  IF opts.compress THEN PackedRead(opts.layer, f, pos, len, g)
  ELSE plain_read(opts.layer, f, pos, len, g)
=============================================================================
