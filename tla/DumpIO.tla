------------------------------- MODULE DumpIO -------------------------------
(* How memcr reads and writes pages-<pid>.img: through __read and __write, or *)
(* through libencrypt when that is preloaded, which encrypts every single     *)
(* write on its own, in chunks of IO_SIZE, and pads it to whole blocks.       *)
(*                                                                            *)
(* Bytes are tuples <<kind, ...>>.  A file is [data, room, freed]: its bytes, *)
(* how many more of them the disk takes, and whether there is room again once *)
(* it was short.  An operator that reads or writes returns ret, as its        *)
(* function does, and the file or the bytes.                                  *)
EXTENDS Integers, FiniteSetsExt, SequencesExt

CONSTANTS IO_SIZE, block_size,
          Plenty      \* room that is never used up

ASSUME SizeAssumption ==
  block_size \in Nat \ {0} /\ IO_SIZE \in Nat \ {0} /\ IO_SIZE % block_size = 0

\* A byte that means nothing, and one that was never written into a buffer.
Noise == <<"noise">>
Stale == <<"stale">>

Repeat(b, n) == [i \in 1 .. n |-> b]

-----------------------------------------------------------------------------
(* The kernel.                                                                *)

\* write(): a short count when the disk fills up, then ENOSPC.
Written(f, bytes, n) ==
  [f |-> [f EXCEPT !.data = @ \o SubSeq(bytes, 1, n),
                   !.room = IF n < Len(bytes) /\ f.freed THEN Plenty ELSE @ - n],
   ret |-> IF n = 0 /\ bytes # <<>> THEN -1 ELSE n]

Write(f, bytes) == Written(f, bytes, Min({Len(bytes), f.room}))

\* read() at position pos: what is there, but no more than count bytes.
Bytes(f, pos, count) == SubSeq(f.data, pos + 1, Min({pos + count, Len(f.data)}))

Got(got, pos, count) ==
  [ret |-> Len(got), buf |-> got \o Repeat(Stale, count - Len(got)), pos |-> pos + Len(got)]

Read(f, pos, count) == Got(Bytes(f, pos, count), pos, count)

-----------------------------------------------------------------------------
(* memcr.c without a library: the loops go on after a short count, and a file *)
(* that ends too early reads as its end.                                      *)

\* One turn of the loop, with v the result of write() and w that of the turns
\* before, n the bytes written.
Turn(w, v) == [f |-> v.f, ret |-> v.ret, n |-> w.n + Max({v.ret, 0})]

WriteLoop(w, bytes) ==
  IF w.ret < 0 \/ w.n = Len(bytes) THEN w
  ELSE Turn(w, Write(w.f, SubSeq(bytes, w.n + 1, Len(bytes))))

\* All or nothing.
Result(w, count) == [f |-> w.f, ret |-> IF w.ret < 0 THEN -1 ELSE count]

__write(f, bytes) ==
  Result(FoldLeft(LAMBDA w, b : WriteLoop(w, bytes), [f |-> f, ret |-> 0, n |-> 0], bytes), Len(bytes))

\* assert(count != 0) counts as a failure.
__read(f, pos, count) ==
  [Read(f, pos, count) EXCEPT !.ret = IF count = 0 THEN -1 ELSE IF @ = count THEN count ELSE 0]

-----------------------------------------------------------------------------
(* libcrypto: a byte of ciphertext is known by its plain byte and its place   *)
(* in the stream that starts with the IV.  Update and Final keep what does    *)
(* not fill a block; decryption also keeps a last full block, whose padding   *)
(* only Final can see.                                                        *)

Cipher(bytes, from) == [i \in DOMAIN bytes |-> <<"enc", bytes[i], from + i>>]

Whole(n) == n - (n % block_size)

\* c.held are plain bytes that were not put out yet, c.out how many were.
Encrypted(all, n, out) ==
  [held |-> SubSeq(all, n + 1, Len(all)), out |-> out + n, put |-> Cipher(SubSeq(all, 1, n), out)]

EncryptUpdate(c, bytes) == Encrypted(c.held \o bytes, Whole(Len(c.held) + Len(bytes)), c.out)

EncryptFinal(c) ==
  Cipher(c.held \o Repeat(<<"pad">>, block_size - Len(c.held)), c.out)

\* Decryption of the stream s.  A byte is right if its block and the one before
\* are intact and where they belong.
Intact(s, i) ==
  LET b == Whole(i - 1)
  IN  \A j \in Max({b - block_size, 0}) + 1 .. b + block_size : s[j][1] = "enc" /\ s[j][3] = j

Plain(s) == [i \in 1 .. Whole(Len(s)) |-> IF Intact(s, i) THEN s[i][2] ELSE Noise]

\* How much of n bytes fed to it DecryptUpdate has put out, and what Final adds:
\* the last block without its padding, nothing at all (ret -1), or, if the padding
\* is noise or the block was not the last, whatever luck makes of it.
Updated(n) == IF n % block_size = 0 /\ n > 0 THEN n - block_size ELSE Whole(n)

DecryptFinal(last, luck) ==
  LET padded == last # <<>> /\ last[Len(last)] = <<"pad">>
  IN  [ok |-> last # <<>> /\ (padded \/ luck),
       put |-> IF padded THEN SelectSeq(last, LAMBDA b : b # <<"pad">>) ELSE <<>>]

-----------------------------------------------------------------------------
(* libencrypt.c with a cipher.                                                *)

ROUND_UP(n, m) == Whole(n + m)

\* The chunks of lib__write's loop; p is where one begins.
Chunk(bytes, p, size) == SubSeq(bytes, p + 1, p + size)

Chunks(bytes) ==
  [i \in 1 .. (Len(bytes) + IO_SIZE - 1) \div IO_SIZE |->
     Chunk(bytes, (i - 1) * IO_SIZE,
           IF (i - 1) * IO_SIZE > Len(bytes) - IO_SIZE THEN Len(bytes) % IO_SIZE ELSE IO_SIZE)]

\* A short count of write() is not noticed.
Put(v, c) == [f |-> v.f, ret |-> v.ret, c |-> c]
PutUpdate(file, c) == Put(Write(file, c.put), c)

WriteChunk(w, chunk) == IF w.ret < 0 THEN w ELSE PutUpdate(w.f, EncryptUpdate(w.c, chunk))

WriteFinal(w) == IF w.ret < 0 THEN w ELSE Write(w.f, EncryptFinal(w.c))

lib__write(f, bytes) ==
  Result(WriteFinal(FoldLeft(WriteChunk, [f |-> f, ret |-> 0, c |-> [held |-> <<>>, out |-> 0]],
                             Chunks(bytes))),
         Len(bytes))

\* One turn of lib__read's loop; s is the stream read so far.  At the end of the
\* file a turn gets nothing, and so would any further one.
ReadChunk(s, f, pos, count) ==
  IF Updated(Len(s)) >= count THEN s
  ELSE s \o Bytes(f, pos + Len(s), Min({ROUND_UP(count, block_size) - Len(s), IO_SIZE}))

Padded(plain, count) == SubSeq(plain \o Repeat(Stale, count - Len(plain)), 1, count)

\* n bytes were read, all of them are out but those of the last block.
Finished(out, fin, n, pos, count) ==
  [ret |-> IF n = 0 THEN 0 ELSE IF fin.ok THEN count ELSE -1,
   buf |-> Padded(out \o fin.put, count),
   pos |-> pos + n]

Decrypted(plain, n, pos, count, luck) ==
  Finished(SubSeq(plain, 1, Updated(n)),
           DecryptFinal(SubSeq(plain, Updated(n) + 1, Whole(n)), luck), n, pos, count)

DecryptStream(s, pos, count, luck) == Decrypted(Plain(s), Len(s), pos, count, luck)

lib__read(f, pos, count, luck) ==
  DecryptStream(FoldLeft(LAMBDA s, b : ReadChunk(s, f, pos, count), <<>>,
                         Repeat(0, count \div IO_SIZE + 3)),
                pos, count, luck)

-----------------------------------------------------------------------------
(* The three ways: no library, the library without a cipher, with a cipher.   *)

Layers == {"file", "lib", "cipher"}

dump_write(layer, f, bytes) ==
  CASE layer = "file"   -> __write(f, bytes)
    [] layer = "lib"    -> Write(f, bytes)
    [] layer = "cipher" -> lib__write(f, bytes)

dump_read(layer, f, pos, count, luck) ==
  CASE layer = "file"   -> __read(f, pos, count)
    [] layer = "lib"    -> Read(f, pos, count)
    [] layer = "cipher" -> lib__read(f, pos, count, luck)
=============================================================================
