-------------------------------- MODULE Dump --------------------------------
(* pages-<pid>.img from the worker's side: cmd_checkpoint writes the regions  *)
(* it gets, cmd_restore reads them back and sends them to the parasite.       *)
(* Between the two the file may be cut or a byte of it overwritten, as        *)
(* tests/run_corrupt_test.sh does.  The talk with the parasite is in Session. *)
EXTENDS Compress

CONSTANTS page_size,
          NrRegions,   \* how many regions the target has at most
          CSizes,      \* sizes that a region may be compressed to
          Rooms,       \* bytes the disk may have left
          Damages      \* out of {"cut", "byte"}

\* struct vm_region: an address and a length.
sizeof_vm_region == 2

\* Addresses are the numbers of the regions, or one of another page, or one that
\* is not of a page.
Wild == 0
Odd == -1

Lens == {page_size, 2 * page_size}

\* What meaningless bytes may be read as: an address off a page; a length of
\* nothing, of no whole page, one that fits, one that is too large; a compressed
\* length of nothing, one that fits, one that is too large.  read_vm_region
\* compares a length with dumped_vm_size and not with MAX_VM_REGION_SIZE, the size
\* of buf; a wrong length between the two is undefined behaviour in the code, and
\* is not among the guesses.
Guess(addr, len, clen) == [addr : {addr}, len : {len}, clen : {clen}, luck : BOOLEAN]
Garbage == UNION {Guess(Odd, page_size, 0), Guess(Wild, 0, 2), Guess(Wild, 1, 2),
                  Guess(Wild, page_size, MAX_DATA_SIZE + 1), Guess(Wild, 9 * page_size, 2)}

VARIABLES opts,             \* how the dump is written, chosen on the command line
          regions,          \* the regions of the target, with their compressed sizes
          k,                \* regions written
          f, pos,           \* the file and the position in it
          dumped_vm_size,
          md5_checkpoint, md5_restore,   \* what went into the digests
          sent,             \* regions sent to the parasite
          damage,           \* what happened to the file
          pc

vars == <<opts, regions, k, f, pos, dumped_vm_size, md5_checkpoint, md5_restore, sent, damage, pc>>

ASSUME DumpAssumption ==
  /\ NrRegions \in Nat /\ page_size \in Nat \ {0, 1}
  /\ CSizes \subseteq 1 .. MAX_DATA_SIZE
  /\ Damages \subseteq {"cut", "byte"}

-----------------------------------------------------------------------------

Header(i, len) == << <<"addr", i>>, <<"len", len>> >>

\* The header that the two bytes of buf are.
Decoded(buf, g) == [addr |-> IF buf[1][1] = "addr" THEN buf[1][2] ELSE g.addr,
                    len |-> IF buf[2][1] = "len" THEN buf[2][2] ELSE g.len]

vm_region_valid(vmr) == vmr.addr # Odd /\ vmr.len % page_size = 0

\* A digest is as good as what was put into it.
md5_update(md5, vmr, buf) == IF opts.checksum THEN Append(md5, <<vmr, buf>>) ELSE md5

\* After the header was written with the result w: the contents.
WriteContents(w, i) ==
  IF w.ret # sizeof_vm_region THEN [f |-> w.f, ret |-> -1]
  ELSE compress_write(opts, w.f, i, regions[i].len, regions[i].csize)

write_vm_region(file, i) ==
  WriteContents(dump_write(opts.layer, file, Header(i, regions[i].len)), i)

\* get_vm_region has got the next region from the target.
WriteRegion ==
  /\ pc = "get_pages"
  /\ k < Len(regions)
  /\ \E w \in {write_vm_region(f, k + 1)}, len \in {regions[k + 1].len} :
       /\ f' = w.f
       /\ \/ /\ w.ret < 0
             /\ pc' = "checkpoint_failed"
             /\ UNCHANGED <<k, dumped_vm_size, md5_checkpoint>>
          \/ /\ w.ret >= 0
             /\ k' = k + 1
             /\ dumped_vm_size' = dumped_vm_size + len
             /\ md5_checkpoint' = md5_update(md5_checkpoint, [addr |-> k + 1, len |-> len],
                                             Data(k + 1, len))
             /\ UNCHANGED pc
  /\ UNCHANGED <<opts, regions, pos, md5_restore, sent, damage>>

\* All regions are written, or the checkpoint was aborted before.  How full the
\* disk is and what was not dumped does not matter any more.
CheckpointDone ==
  /\ pc = "get_pages"
  /\ pc' = "checkpointed"
  /\ f' = [f EXCEPT !.room = Plenty]
  /\ regions' = SubSeq(regions, 1, k)
  /\ UNCHANGED <<opts, k, pos, dumped_vm_size, md5_checkpoint, md5_restore, sent, damage>>

\* The file loses its end or a byte of it is overwritten.
DamageFile ==
  /\ pc = "checkpointed"
  /\ damage = "none"
  /\ \E n \in 1 .. Len(f.data) :
       \/ /\ "cut" \in Damages
          /\ damage' = "cut"
          /\ f' = [f EXCEPT !.data = SubSeq(@, 1, n - 1)]
       \/ /\ "byte" \in Damages
          /\ damage' = "byte"
          /\ f' = [f EXCEPT !.data = [@ EXCEPT ![n] = Noise]]
  /\ UNCHANGED <<opts, regions, k, pos, dumped_vm_size, md5_checkpoint, md5_restore, sent, pc>>

CmdRestore ==
  /\ pc = "checkpointed"
  /\ pc' = "set_pages"
  /\ UNCHANGED <<opts, regions, k, f, pos, dumped_vm_size, md5_checkpoint, md5_restore, sent, damage>>

-----------------------------------------------------------------------------
(* target_set_pages: one turn of its loop.                                    *)

\* The size that is left is not looked at.
ExceedsDumpedNever(vmr) == FALSE

ExceedsDumped(vmr) == vmr.len > dumped_vm_size

\* parasite_write of the request and of the contents.
Send(vmr, buf) ==
  /\ sent' = Append(sent, [addr |-> vmr.addr, len |-> vmr.len, buf |-> buf])
  /\ UNCHANGED pc

\* Digests are compared only if the restore read anything.
SetPagesEndsLenient(ret, md5) ==
  /\ pc' = IF ret < 0 \/ (opts.checksum /\ md5 # <<>> /\ md5_checkpoint # md5) THEN "restore_failed" ELSE "restored"
  /\ UNCHANGED sent

\* The loop ends with ret; cmd_restore compares the digests.
SetPagesEnds(ret, md5) ==
  /\ pc' = IF ret < 0 \/ (opts.checksum /\ md5_checkpoint # md5) THEN "restore_failed" ELSE "restored"
  /\ UNCHANGED sent

\* read_vm_region after a whole header and what target_set_pages makes of it:
\* c is the result of compress_read.
ReadContents(vmr, c) ==
  \/ /\ c.ret < 0
     /\ SetPagesEnds(-1, md5_restore)
     /\ UNCHANGED <<pos, md5_restore>>
  \/ /\ c.ret = 0
     /\ SetPagesEnds(0, md5_restore)
     /\ pos' = c.pos
     /\ UNCHANGED md5_restore
  \/ /\ c.ret > 0
     /\ Send(vmr, c.buf)
     /\ pos' = c.pos
     /\ md5_restore' = md5_update(md5_restore, vmr, c.buf)

ReadRegion(vmr, from, g) ==
  \/ /\ ExceedsDumped(vmr)
     /\ SetPagesEnds(-1, md5_restore)
     /\ pos' = from
     /\ UNCHANGED <<dumped_vm_size, md5_restore>>
  \/ /\ ~ExceedsDumped(vmr)
     /\ dumped_vm_size' = dumped_vm_size - vmr.len
     /\ \/ /\ ~vm_region_valid(vmr)
           /\ SetPagesEnds(-1, md5_restore)
           /\ UNCHANGED <<pos, md5_restore>>
        \/ /\ vm_region_valid(vmr)
           /\ \E c \in {compress_read(opts, f, from, vmr.len, g)} : ReadContents(vmr, c)

\* A header that is cut short gives a positive result if read() is called
\* directly.
ReadHeader(h, vmr, g) ==
  \/ h.ret = sizeof_vm_region /\ ReadRegion(vmr, h.pos, g)
  \/ /\ h.ret # sizeof_vm_region
     /\ \/ h.ret <= 0 /\ SetPagesEnds(h.ret, md5_restore)
        \/ h.ret > 0 /\ Send(vmr, Repeat(Stale, vmr.len))
     /\ pos' = h.pos
     /\ UNCHANGED <<dumped_vm_size, md5_restore>>

read_vm_region(g) ==
  \E h \in {dump_read(opts.layer, f, pos, sizeof_vm_region, g.luck)} :
  \E vmr \in {Decoded(h.buf, g)} : ReadHeader(h, vmr, g)

target_set_pages ==
  /\ pc = "set_pages"
  /\ \E g \in IF damage = "none" THEN {CHOOSE x \in Garbage : TRUE} ELSE Garbage : read_vm_region(g)
  /\ UNCHANGED <<opts, regions, k, f, md5_checkpoint, damage>>

-----------------------------------------------------------------------------

Init ==
  /\ opts \in [layer : Layers, compress : BOOLEAN, checksum : BOOLEAN]
  /\ regions \in UNION {[1 .. n -> [len : Lens, csize : CSizes]] : n \in 0 .. NrRegions}
  /\ ~opts.compress => \A i \in DOMAIN regions : regions[i].csize = Min(CSizes)
  /\ k = 0
  /\ \E room \in Rooms, freed \in BOOLEAN :
       f = [data |-> <<>>, room |-> room, freed |-> freed /\ room # Plenty]
  /\ pos = 0
  /\ dumped_vm_size = 0
  /\ md5_checkpoint = <<>> /\ md5_restore = <<>>
  /\ sent = <<>>
  /\ damage = "none"
  /\ pc = "get_pages"

Next == WriteRegion \/ CheckpointDone \/ DamageFile \/ CmdRestore \/ target_set_pages

Spec == Init /\ [][Next]_vars

-----------------------------------------------------------------------------
(* Properties. *)

\* What the checkpoint has written, as the parasite should get it back.
Dumped == [i \in 1 .. k |-> [addr |-> i, len |-> regions[i].len, buf |-> Data(i, regions[i].len)]]

Total(rs) == MapThenSumSet(LAMBDA i : rs[i].len, DOMAIN rs)

\* Every variable stays in its range: the size that is left to restore does not
\* become negative.
TypeOK ==
  /\ k \in 0 .. Len(regions)
  /\ pos \in 0 .. Len(f.data)
  /\ dumped_vm_size \in Nat
  /\ damage \in {"none"} \cup Damages
  /\ pc \in {"get_pages", "checkpoint_failed", "checkpointed", "set_pages", "restore_failed", "restored"}

\* A checkpoint that reports success can be restored and gives back exactly what
\* was saved, whatever the layer, the compression and the sizes, and however the
\* disk filled up meanwhile.  The exception: lib__write does not compare what
\* write() returns with the size, so that a disk that is full only for a moment
\* leaves a hole in an encrypted dump.
RoundTrip ==
  damage = "none" /\ ~(opts.layer = "cipher" /\ f.freed) =>
    /\ pc # "restore_failed"
    /\ pc = "restored" => sent = Dumped

\* With checksums a restore only succeeds with exactly what was saved, whatever
\* happened to the file: tests/run_corrupt_test.sh expects an error after a byte
\* of the dump was overwritten.
ChecksumNoticesDamage == opts.checksum /\ pc = "restored" => sent = Dumped

\* Without checksums a dump that was cut is noticed unless it ends between two
\* regions or inside a header: no region is restored in part.  __read makes this
\* so; with libencrypt it depends on luck.
CutAtRegion ==
  opts.layer = "file" /\ damage = "cut" /\ pc = "restored" => IsPrefix(sent, Dumped)

\* The types hold, and however the file was damaged, no more memory is sent to the parasite than was
\* dumped, because dumped_vm_size is compared with every length.  (A header cut
\* short under libencrypt without a cipher is sent without that comparison.)
RestoreBounded == TypeOK /\ (opts.layer # "lib" => Total(sent) <= Total(Dumped))
=============================================================================
