------------------------------ MODULE VmaPages ------------------------------
(* scan_target_vmas and get_target_pages: which pages of the target are        *)
(* dumped, in which regions.  Addresses are numbers of pages; page 0 is never  *)
(* mapped, so 0 stands for "no region" as in the code.                         *)
EXTENDS VmaScan, FiniteSets

CONSTANTS MAX_VM_REGION_SIZE   \* in pages

Kinds == {"absent", "present", "swapped",
          "file",          \* present, PM_PAGE_FILE_OR_SHARED_ANON
          "unevictable"}   \* present, KPF_UNEVICTABLE

LinePages(l) == l.start .. l.end - 1
MappedPages(maps) == UNION {LinePages(maps[i]) : i \in DOMAIN maps}

\* The lines of maps are in order and do not overlap, the parasite is in an
\* anonymous private one, and map is the pagemap.
TargetOK(t) ==
  /\ t.maps \in Seq(Line)
  /\ \A i \in DOMAIN t.maps : 0 < t.maps[i].start /\ t.maps[i].start < t.maps[i].end
  /\ \A i, j \in DOMAIN t.maps : i < j => t.maps[i].end <= t.maps[j].start
  /\ \E i \in DOMAIN t.maps : t.blob \in LinePages(t.maps[i]) /\ t.maps[i].path = "" /\ ~t.maps[i].shared
  /\ t.map \in [MappedPages(t.maps) -> Kinds]

ASSUME VmaPagesAssumption ==
  MAX_VM_REGION_SIZE \in Nat \ {0} /\ MAX_VMAS \in Nat

VARIABLES target,          \* the target: its maps, pagemap and parasite
          rss_file,        \* option -f
          line,            \* lines of maps read
          vmas,            \* what the scan found
          v,               \* VMAs dealt with
          idx,             \* pages of the VMA looked at
          off,             \* entries of its pagemap read: the position in the file
          missed,          \* the pages for which read() failed (history)
          region_start, region_length,
          regions,         \* the regions dumped or freed so far
          pc               \* "scan", "loop", "done", "aborted" or "failed"

given == <<target, rss_file>>
vma_vars == <<target, rss_file, line, vmas, v, idx, off, missed,
              region_start, region_length, regions, pc>>

vma == vmas[v + 1]
nrpages == vma.end - vma.start
addr == vma.start + idx

\* The pages of a region.
Covers(r) == r.start .. r.start + r.length - 1

-----------------------------------------------------------------------------

\* Go on with the loop, with the page taken into the region.
Extend ==
  /\ region_start' = IF region_start = 0 THEN addr ELSE region_start
  /\ region_length' = region_length + 1
  /\ UNCHANGED <<regions, pc>>

Skip == UNCHANGED <<region_start, region_length, regions, pc>>

\* The region is not reset after it was dumped.
FlushKeeps(start, length) ==
  \/ /\ regions' = regions \cup {[start |-> start, length |-> length]}
     /\ region_start' = start /\ region_length' = 0
     /\ UNCHANGED pc
  \/ /\ pc' = "failed"
     /\ UNCHANGED <<regions, region_start, region_length>>

\* get_vm_region or free_vm_region; an error ends the function.
Flush(start, length) ==
  \/ /\ regions' = regions \cup {[start |-> start, length |-> length]}
     /\ region_start' = 0 /\ region_length' = 0
     /\ UNCHANGED pc
  \/ /\ pc' = "failed"
     /\ UNCHANGED <<regions, region_start, region_length>>

\* A page that is not to be dumped ends the region.
FlushIfAny ==
  \/ region_start = 0 /\ Skip
  \/ region_start # 0 /\ Flush(region_start, region_length)

\* Regions grow without limit.
TakeIgnoresLimit(limit) ==
  IF idx + 1 < nrpages THEN Extend
  ELSE Flush(IF region_start = 0 THEN addr ELSE region_start, region_length + 1)

\* The end of the VMA does not flush.
TakeForgetsEnd(limit) ==
  IF region_length + 1 < limit THEN Extend
  ELSE Flush(IF region_start = 0 THEN addr ELSE region_start, region_length + 1)

\* The page belongs to the region; it is flushed at its limit and at the end of
\* the VMA.
Take(limit) ==
  IF idx + 1 < nrpages /\ region_length + 1 < limit THEN Extend
  ELSE Flush(IF region_start = 0 THEN addr ELSE region_start, region_length + 1)

\* What page_unevictable may say of a page: 0 also if pread() fails.
page_unevictable(kind) == IF kind = "unevictable" THEN {0, 1} ELSE {0}

\* An iteration of the loop for an anonymous mapping, the heap or a stack, with
\* an entry of this kind.  An unevictable page is skipped, and the region goes on.
AnonPage(kind) ==
  \/ 1 \in page_unevictable(kind) /\ Skip
  \/ kind # "absent" /\ 0 \in page_unevictable(kind) /\ Take(MAX_VM_REGION_SIZE)
  \/ kind = "absent" /\ FlushIfAny

\* For a file mapping, with -f: regions are not limited in size, nothing is dumped.
FilePage(kind) ==
  \/ ~rss_file /\ Skip
  \/ kind = "file" /\ rss_file /\ Take(nrpages + 1)
  \/ kind # "file" /\ rss_file /\ FlushIfAny

\* The next entry of the pagemap is read, and taken for the one of the page at addr.
ReadEntry ==
  LET kind == target.map[vma.start + off]
  IN  /\ IF vma.flags = "ANON" THEN AnonPage(kind) ELSE FilePage(kind)
      /\ off' = off + 1
      /\ UNCHANGED missed

\* read() fails, and the loop goes on with the next page; the position in the
\* file stays, so the entries of the later pages are taken for those of pages
\* before them.  A pagemap had from the parasite is read whole: nothing is missed.
MissEntry ==
  /\ Skip
  /\ missed' = missed \cup {addr}
  /\ UNCHANGED off

-----------------------------------------------------------------------------

\* The loop of scan_target_vmas on one line, and on what is left of it.
scan_target_vmas ==
  LET l == target.maps[line + 1]
  IN  /\ pc = "scan"
      /\ line < Len(target.maps)
      /\ line' = line + 1
      /\ vmas' = Scanned(vmas, target.blob, l)
      /\ pc' = IF l.tail = "none" THEN "scan"
               ELSE IF RetOfRest(l.tail) = 0 THEN "loop" ELSE "failed"
      /\ UNCHANGED <<given, v, idx, off, missed, region_start, region_length, regions>>

\* The end of maps is reached, or maps cannot be opened; cmd_checkpoint then
\* gives up.
ScanDone ==
  /\ pc = "scan"
  /\ \/ line = Len(target.maps) /\ pc' = "loop"
     \/ line = 0 /\ pc' = "failed"
  /\ UNCHANGED <<given, line, vmas, v, idx, off, missed, region_start, region_length, regions>>

\* The pagemap cannot be had at all: not by lseek() and not from the parasite.
NoPagemap ==
  /\ pc = "loop"
  /\ v < Len(vmas)
  /\ idx = 0
  /\ pc' = "failed"
  /\ UNCHANGED <<given, line, vmas, v, idx, off, missed, region_start, region_length, regions>>

\* One iteration of the loop over the pages of a VMA.
get_vma_pages ==
  /\ pc = "loop"
  /\ v < Len(vmas)
  /\ idx < nrpages
  /\ ReadEntry \/ MissEntry
  /\ idx' = idx + 1
  /\ UNCHANGED <<given, line, vmas, v>>

\* get_vma_pages returns 0, and its local variables are gone; the next one seeks.
VmaDone ==
  /\ pc = "loop"
  /\ v < Len(vmas)
  /\ idx = nrpages
  /\ v' = v + 1
  /\ idx' = 0 /\ off' = 0 /\ region_start' = 0 /\ region_length' = 0
  /\ UNCHANGED <<given, line, vmas, missed, regions, pc>>

\* The loop over the VMAs ends, also before one if the checkpoint is aborted.
get_target_pages ==
  /\ pc = "loop"
  /\ \/ v = Len(vmas) /\ pc' = "done"
     \/ v < Len(vmas) /\ idx = 0 /\ pc' = "aborted"
  /\ UNCHANGED <<given, line, vmas, v, idx, off, missed, region_start, region_length, regions>>

VmaInit ==
  /\ TargetOK(target)
  /\ rss_file \in BOOLEAN
  /\ line = 0 /\ vmas = <<>> /\ v = 0 /\ idx = 0 /\ off = 0 /\ missed = {}
  /\ region_start = 0 /\ region_length = 0
  /\ regions = {}
  /\ pc = "scan"

VmaNext == scan_target_vmas \/ ScanDone \/ NoPagemap \/ get_vma_pages \/ VmaDone \/ get_target_pages

VmaSpec == VmaInit /\ [][VmaNext]_vma_vars

-----------------------------------------------------------------------------
(* Properties, in terms of the target and not of what the scan made of it.    *)

Lines == {target.maps[i] : i \in DOMAIN target.maps}

\* The mapping of the parasite, and one right below it, are never touched.
Spared == UNION {LinePages(l) : l \in {k \in Lines : target.blob \in LinePages(k) \cup {k.end}}}

\* Private pages that are in memory or swapped out, with -f also those of files.
Private(paths) == UNION {LinePages(l) : l \in {k \in Lines : ~k.shared /\ k.path \in paths}}
PagesThatAre(kinds) == {p \in DOMAIN target.map : target.map[p] \in kinds}

Resident ==
  (Private({"", "[stack]", "[heap]"}) \cap PagesThatAre({"present", "swapped", "file"}))
    \cup (IF rss_file THEN Private({"/"}) \cap PagesThatAre({"file"}) ELSE {})

\* Private pages that may be in a region without that: those that are unevictable,
\* and those in a mapping from the first page on whose entry was missed.
Unevictable == Private(Paths \ {"[vdso]"}) \cap PagesThatAre({"unevictable"})

Misjudged ==
  {p \in Private(Paths \ {"[vdso]"}) : \E l \in Lines : p \in LinePages(l) /\ missed \cap l.start .. p # {}}

Covered == UNION {Covers(r) : r \in regions}

\* Every variable stays in its range.
VmaTypeOK ==
  /\ TargetOK(target) /\ rss_file \in BOOLEAN
  /\ line \in 0 .. Len(target.maps)
  /\ vmas \in Seq(VmArea) /\ Len(vmas) <= MAX_VMAS
  /\ v \in 0 .. Len(vmas)
  /\ v < Len(vmas) => /\ idx \in 0 .. nrpages
                      /\ off \in 0 .. idx
                      /\ region_start \in {0} \cup vma.start .. vma.end - 1
                      /\ region_length \in 0 .. nrpages
  /\ missed \subseteq DOMAIN target.map
  /\ \A r \in regions : r.length > 0 /\ Covers(r) \subseteq DOMAIN target.map
  /\ pc \in {"scan", "loop", "done", "aborted", "failed"}

\* The types hold, and no page is dumped twice: it would be dumped the second time after it was
\* dropped, and the restore would bring that content back.
DumpedOnce == VmaTypeOK /\ \A r, s \in regions : r # s => Covers(r) \cap Covers(s) = {}

\* A region fits the buffers of get_vm_region and target_set_pages; only files,
\* whose pages are not sent, may have larger ones.
RegionFits ==
  \A r \in regions : r.length > MAX_VM_REGION_SIZE =>
    \E l \in Lines : l.path = "/" /\ Covers(r) \subseteq LinePages(l)

\* The code and the stack that the parasite runs on are never dropped, nor is
\* anything that is shared or special, also if the scan ended early, the pagemap
\* could not be read and whichever the layout of the target; and of the private
\* pages only those that are in memory.  The exceptions are an unevictable page
\* among the others of a region and, once read() has failed for a page, that page
\* and those after it in the same mapping: the lseek() of the next VMA, and no
\* later read(), makes pages and entries agree again.
OnlyResident == Covered \subseteq (Resident \cup Unevictable \cup Misjudged) \ Spared

\* If every page can be looked at and evicted, the VMAs fit the table and no line
\* of maps is longer than buf, all resident private pages are dumped: none is
\* lost at a region's limit, at the end of a VMA or next to the parasite.
AllDumped ==
  /\ pc = "done" /\ missed = {} /\ Unevictable = {}
  /\ Len(target.maps) <= MAX_VMAS /\ (\A l \in Lines : l.tail = "none")
  => Covered = Resident \ Spared
=============================================================================
