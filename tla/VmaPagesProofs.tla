--------------------------- MODULE VmaPagesProofs ----------------------------
(* Proofs about VmaPages, for every target, every size of region and every    *)
(* size of the table of VMAs: the right pages are dumped, each of them once.  *)
EXTENDS VmaPages, TLAPS

-----------------------------------------------------------------------------
(* What the loops have done so far.                                           *)

\* The entries of pages that belong in a region of a VMA, and those that do not end one.
Due(flags) ==
  IF flags = "ANON" THEN {"present", "swapped", "file"}
  ELSE IF rss_file THEN {"file"} ELSE {}
Kept(flags) == Due(flags) \cup (IF flags = "ANON" THEN {"unevictable"} ELSE {})

Limit(flags) == IF flags = "ANON" THEN MAX_VM_REGION_SIZE ELSE nrpages + 1

\* The entry that is taken for the one of the page at addr.
Entry == target.map[vma.start + off]

\* Page p of VMA w may be in a region, by its entry or because one was missed.
Fine(p, w) == target.map[p] \in Kept(w.flags) \/ missed \cap w.start .. p # {}

Region == [start : Nat \ {0}, length : Nat \ {0}]
EndOf(r) == r.start + r.length

\* The VMAs were made of wanted lines, and are in order.
ScanInv ==
  /\ vmas \in Seq(VmArea)
  /\ \A k \in 1 .. Len(vmas) : \E i \in 1 .. line :
       Wanted(target.blob, target.maps[i]) /\ vmas[k] = VmaOf(target.maps[i])
  /\ \A k, l \in 1 .. Len(vmas) : k < l => vmas[k].end <= vmas[l].start
  /\ pc = "scan" => v = 0 /\ idx = 0 /\ off = 0 /\ region_start = 0 /\ region_length = 0 /\ regions = {}

\* Pages and entries agree unless one of the VMA was missed.
AlignInv ==
  /\ missed \subseteq DOMAIN target.map
  /\ v < Len(vmas) => off \in 0 .. idx /\ (off = idx \/ missed \cap vma.start .. addr - 1 # {})

\* The region that grows ends below the next page to look at.
GrowInv ==
  v < Len(vmas) =>
    /\ idx \in 0 .. nrpages
    /\ region_start = 0 => region_length = 0
    /\ region_start # 0 =>
         /\ vma.start <= region_start
         /\ region_length > 0 /\ region_start + region_length <= addr
         /\ region_length < Limit(vma.flags)
         /\ vma.flags = "ANON" \/ rss_file

\* It passed only over pages that do not end a region.
PassedInv ==
  pc = "loop" /\ v < Len(vmas) /\ region_start # 0 =>
    \A p \in region_start .. addr - 1 : Fine(p, vma)

\* Region r is in VMA w.
Within(r, w) ==
  /\ w.start <= r.start /\ EndOf(r) <= w.end
  /\ w.flags = "ANON" => r.length <= MAX_VM_REGION_SIZE
  /\ \A p \in Covers(r) : Fine(p, w)
  /\ w.flags = "ANON" \/ rss_file

\* Every region dumped is in one of the VMAs so far, below the one that grows.
DoneInv ==
  /\ regions \subseteq Region
  /\ \A r \in regions : \E k \in 1 .. Len(vmas) : k <= v + 1 /\ Within(r, vmas[k])
  /\ pc = "loop" /\ v < Len(vmas) =>
       \A r \in regions : EndOf(r) <= IF region_start = 0 THEN addr ELSE region_start
  /\ \A r, s \in regions : r # s => EndOf(r) <= s.start \/ EndOf(s) <= r.start

BaseInv ==
  /\ TargetOK(target) /\ rss_file \in BOOLEAN
  /\ line \in 0 .. Len(target.maps)
  /\ Len(vmas) <= MAX_VMAS
  /\ v \in 0 .. Len(vmas)
  /\ idx \in Nat /\ off \in Nat /\ region_start \in Nat /\ region_length \in Nat
  /\ pc \in {"scan", "loop", "done", "aborted", "failed"}

IInv == BaseInv /\ ScanInv /\ AlignInv /\ GrowInv /\ PassedInv /\ DoneInv

\* A target whose pages can all be looked at and evicted, with maps that the scan reads to the end.
Plain ==
  missed = {} /\ Unevictable = {} /\ Len(target.maps) <= MAX_VMAS /\ (\A l \in Lines : l.tail = "none")

\* Every wanted line read has its VMA.
ScanAllInv ==
  Plain => /\ Len(vmas) <= line
           /\ \A i \in 1 .. line : Wanted(target.blob, target.maps[i]) =>
                \E k \in 1 .. Len(vmas) : vmas[k] = VmaOf(target.maps[i])
           /\ pc \in {"loop", "done"} => line = Len(target.maps)

\* Every page looked at that belongs in a region is in one.
CoverInv ==
  Plain /\ pc \in {"loop", "done"} =>
    /\ \A k \in 1 .. v : \A p \in vmas[k].start .. vmas[k].end - 1 :
         target.map[p] \in Due(vmas[k].flags) => p \in Covered
    /\ pc = "done" => v = Len(vmas)
    /\ v < Len(vmas) =>
         /\ region_start # 0 => region_start + region_length = addr /\ idx < nrpages
         /\ \A p \in vma.start .. addr - 1 :
              target.map[p] \in Due(vma.flags) /\ (region_start = 0 \/ p < region_start) => p \in Covered
-----------------------------------------------------------------------------
(* The target and its VMAs.                                                   *)

\* The maps are a sequence of lines.
LEMMA MapsIsSeq ==
  ASSUME NEW t, TargetOK(t)
  PROVE  t.maps \in Seq(Line) /\ Len(t.maps) \in Nat /\ DOMAIN t.maps = 1 .. Len(t.maps)
<1>1. t.maps \in Seq(Line)
  BY Zenon DEF TargetOK
<1> QED
  BY <1>1

\* What TargetOK says of a line of maps.
LEMMA LineFacts ==
  ASSUME NEW t, TargetOK(t), NEW i \in 1 .. Len(t.maps)
  PROVE  /\ t.maps[i] \in Line
         /\ 0 < t.maps[i].start /\ t.maps[i].start < t.maps[i].end
         /\ \A p \in t.maps[i].start .. t.maps[i].end - 1 :
              p \in DOMAIN t.map /\ t.map[p] \in Kinds
<1>1. /\ t.maps[i] \in Line /\ i \in DOMAIN t.maps
  BY MapsIsSeq
<1>2. 0 < t.maps[i].start /\ t.maps[i].start < t.maps[i].end
  BY Zenon, <1>1 DEF TargetOK
<1>3. LinePages(t.maps[i]) \subseteq MappedPages(t.maps)
  BY Zenon, <1>1 DEF MappedPages
<1>4. MappedPages(t.maps) = DOMAIN t.map /\ \A p \in MappedPages(t.maps) : t.map[p] \in Kinds
  BY Zenon DEF TargetOK
<1> QED
  BY Zenon, <1>1, <1>2, <1>3, <1>4 DEF LinePages

\* A line that is wanted makes a VMA.
LEMMA WantedFlags ==
  ASSUME NEW b, NEW l \in Line, Wanted(b, l)
  PROVE  VmaOf(l) \in VmArea /\ Flags(l.path) \in {"ANON", "FILE"}
BY Zenon DEF Wanted, VmaOf, Flags, Line, Paths, VmArea

\* A VMA is not empty, and its pages are mapped.
LEMMA VmaFacts ==
  ASSUME BaseInv, ScanInv, NEW k \in 1 .. Len(vmas)
  PROVE  /\ vmas[k] \in VmArea
         /\ 0 < vmas[k].start /\ vmas[k].start < vmas[k].end
         /\ \A p \in vmas[k].start .. vmas[k].end - 1 :
              p \in DOMAIN target.map /\ target.map[p] \in Kinds
<1>1. PICK i \in 1 .. line : Wanted(target.blob, target.maps[i]) /\ vmas[k] = VmaOf(target.maps[i])
  BY Zenon DEF ScanInv
<1>2. i \in 1 .. Len(target.maps) /\ TargetOK(target)
  BY MapsIsSeq DEF BaseInv
<1>3. vmas[k].start = target.maps[i].start /\ vmas[k].end = target.maps[i].end
  BY <1>1 DEF VmaOf
<1>4. vmas[k] \in VmArea
  BY DEF ScanInv
<1> QED
  BY Zenon, <1>2, <1>3, <1>4, LineFacts

\* A page of a VMA has one of the kinds that an iteration tells apart.
LEMMA CurrentVma ==
  ASSUME BaseInv, ScanInv, v < Len(vmas)
  PROVE  /\ vma \in VmArea /\ vma = vmas[v + 1] /\ v + 1 \in 1 .. Len(vmas)
         /\ 0 < vma.start /\ vma.start < vma.end /\ nrpages \in Nat
         /\ \A p \in vma.start .. vma.end - 1 :
              p \in DOMAIN target.map /\ target.map[p] \in Kinds
<1>1. v + 1 \in 1 .. Len(vmas)
  BY DEF BaseInv, ScanInv
<1> QED
  BY <1>1, VmaFacts DEF vma, nrpages, VmArea

-----------------------------------------------------------------------------
(* What an iteration over a page does.                                        *)

From == IF region_start = 0 THEN addr ELSE region_start

Failed == pc' = "failed" /\ UNCHANGED <<regions, region_start, region_length>>

\* The page is passed over: it does not end a region, or there is none.
Passed ==
  /\ UNCHANGED <<region_start, region_length, regions, pc>>
  /\ Entry \notin Due(vma.flags)
  /\ region_start = 0 \/ Entry \in Kept(vma.flags)

\* It is taken into the region.
Taken ==
  /\ Entry \in Kept(vma.flags)
  /\ idx + 1 < nrpages /\ region_length + 1 < Limit(vma.flags)
  /\ region_start' = From /\ region_length' = region_length + 1
  /\ UNCHANGED <<regions, pc>>

Dumped(length) ==
  /\ regions' = regions \cup {[start |-> From, length |-> length]}
  /\ region_start' = 0 /\ region_length' = 0
  /\ UNCHANGED pc

\* It is the last one of a region that is dumped, or it ends one before it.
DumpedWith == Entry \in Kept(vma.flags) /\ Dumped(region_length + 1)
DumpedBefore ==
  /\ Entry \notin Due(vma.flags)
  /\ region_start # 0
  /\ Dumped(region_length)

\* The two ends of an iteration.
Read == ReadEntry /\ (Failed \/ Passed \/ Taken \/ DumpedWith \/ DumpedBefore)

\* These are all the outcomes.
LEMMA PageOutcomes ==
  ASSUME BaseInv, ScanInv, AlignInv, GrowInv, get_vma_pages
  PROVE  /\ pc = "loop" /\ v < Len(vmas) /\ idx < nrpages /\ idx' = idx + 1
         /\ UNCHANGED <<given, line, vmas, v>>
         /\ addr \in vma.start .. vma.end - 1 /\ addr \in DOMAIN target.map
         /\ Read \/ MissEntry
<1>1. pc = "loop" /\ v < Len(vmas) /\ idx < nrpages /\ idx' = idx + 1 /\ UNCHANGED <<given, line, vmas, v>>
  BY Zenon DEF get_vma_pages
<1>2. idx \in Nat /\ region_start \in Nat /\ region_length \in Nat
  BY Zenon DEF BaseInv
<1>3. addr \in vma.start .. vma.end - 1 /\ addr \in DOMAIN target.map
  <2>1. addr \in vma.start .. vma.end - 1
    BY <1>1, <1>2, CurrentVma DEF addr, nrpages, VmArea
  <2> QED
    BY Zenon, <1>1, <2>1, CurrentVma
<1>4. Entry \in Kinds
  <2>1. off \in 0 .. idx
    BY Zenon, <1>1 DEF AlignInv
  <2>2. vma.start + off \in vma.start .. vma.end - 1
    BY <1>1, <1>2, <2>1, CurrentVma DEF nrpages, VmArea
  <2> QED
    BY Zenon, <1>1, <2>2, CurrentVma DEF Entry
<1>5. ASSUME ReadEntry, vma.flags = "ANON"
      PROVE  Failed \/ Passed \/ Taken \/ DumpedWith \/ DumpedBefore
  <2>1. AnonPage(Entry)
    BY Zenon, <1>5 DEF ReadEntry, Entry
  <2>2. CASE 1 \in page_unevictable(Entry) /\ Skip
    <3>1. Entry = "unevictable"
      BY <2>2 DEF page_unevictable
    <3> QED
      BY Zenon, <1>5, <2>2, <3>1 DEF Skip, Passed, Due, Kept
  <2>3. CASE Entry # "absent" /\ Take(MAX_VM_REGION_SIZE)
    <3>1. Entry \in Kept(vma.flags) /\ Limit(vma.flags) = MAX_VM_REGION_SIZE
      BY Zenon, <1>4, <1>5, <2>3 DEF Kept, Due, Kinds, Limit
    <3> QED
      BY Zenon, <2>3, <3>1 DEF Take, Extend, Flush, Failed, Taken, DumpedWith, Dumped, From
  <2>4. CASE Entry = "absent" /\ FlushIfAny
    BY Zenon, <1>5, <2>4 DEF FlushIfAny, Flush, Skip, Failed, Passed, DumpedBefore, Dumped, From, Due
  <2> QED
    BY Zenon, <2>1, <2>2, <2>3, <2>4 DEF AnonPage
<1>6. ASSUME ReadEntry, vma.flags # "ANON"
      PROVE  Failed \/ Passed \/ Taken \/ DumpedWith \/ DumpedBefore
  <2>1. FilePage(Entry)
    BY Zenon, <1>6 DEF ReadEntry, Entry
  <2>2. nrpages \in Nat /\ (region_start # 0 => rss_file)
    BY Zenon, <1>1, <1>6, CurrentVma DEF GrowInv
  <2> QED
    BY Zenon, <1>1, <1>2, <1>4, <1>6, <2>1, <2>2
    DEF FilePage, Take, Extend, Skip, FlushIfAny, Flush, Failed, Passed, Taken, DumpedWith,
        DumpedBefore, Dumped, From, Due, Kept, Limit, Kinds
<1> QED
  BY Zenon, <1>1, <1>3, <1>5, <1>6 DEF get_vma_pages, Read

\* An entry that does not end a region speaks for the page it is taken for, unless
\* one was missed before it.
LEMMA EntrySpeaks ==
  ASSUME BaseInv, ScanInv, AlignInv, v < Len(vmas), Entry \in Kept(vma.flags)
  PROVE  Fine(addr, vma)
<1>1. CASE off = idx
  BY Zenon, <1>1 DEF Entry, Fine, addr
<1>2. CASE missed \cap vma.start .. addr - 1 # {}
  <2>1. vma.start \in Nat /\ addr \in Nat
    BY CurrentVma DEF VmArea, addr, BaseInv
  <2>2. vma.start .. addr - 1 \subseteq vma.start .. addr
    BY <2>1
  <2> QED
    BY Zenon, <1>2, <2>2 DEF Fine
<1> QED
  BY Zenon, <1>1, <1>2 DEF AlignInv

-----------------------------------------------------------------------------
(* The invariant is inductive.                                                *)

LEMMA IInvInit == VmaInit => IInv
<1> SUFFICES ASSUME VmaInit PROVE IInv
  BY Zenon
<1>1. BaseInv
  BY MapsIsSeq, VmaPagesAssumption DEF VmaInit, BaseInv
<1> QED
  BY <1>1 DEF VmaInit, IInv, ScanInv, AlignInv, GrowInv, PassedInv, DoneInv

\* The scan of one line.
LEMMA ScanKeeps ==
  ASSUME IInv, scan_target_vmas
  PROVE  IInv'
<1> DEFINE l == target.maps[line + 1]
<1>1. /\ pc = "scan" /\ line < Len(target.maps) /\ line' = line + 1
      /\ vmas' = Scanned(vmas, target.blob, l)
      /\ pc' \in {"scan", "loop", "failed"}
      /\ UNCHANGED <<target, rss_file, v, idx, off, missed, region_start, region_length, regions>>
  BY Zenon DEF scan_target_vmas, given
<1>2. v = 0 /\ idx = 0 /\ off = 0 /\ region_start = 0 /\ region_length = 0 /\ regions = {}
  BY Zenon, <1>1 DEF IInv, ScanInv
<1>3. /\ TargetOK(target) /\ line \in 0 .. Len(target.maps) /\ Len(target.maps) \in Nat
      /\ line + 1 \in 1 .. Len(target.maps) /\ l \in Line
      /\ vmas \in Seq(VmArea) /\ Len(vmas) <= MAX_VMAS
  BY <1>1, MapsIsSeq, LineFacts DEF IInv, BaseInv, ScanInv
<1>4. CASE vmas' = vmas
  <2>1. BaseInv'
    BY <1>1, <1>2, <1>3, <1>4 DEF IInv, BaseInv
  <2>2. ScanInv'
    BY SMTT(30), <1>1, <1>2, <1>3, <1>4 DEF IInv, ScanInv
  <2>3. (AlignInv /\ GrowInv /\ PassedInv /\ DoneInv)'
    BY Zenon, <1>1, <1>2, <1>3, <1>4 DEF IInv, AlignInv, GrowInv, PassedInv, DoneInv, vma, nrpages, addr
  <2> QED
    BY Zenon, <2>1, <2>2, <2>3 DEF IInv
<1>5. CASE Wanted(target.blob, l) /\ Len(vmas) # MAX_VMAS /\ vmas' = Append(vmas, VmaOf(l))
  <2>1. /\ vmas' \in Seq(VmArea) /\ Len(vmas') = Len(vmas) + 1
        /\ \A k \in 1 .. Len(vmas) : vmas'[k] = vmas[k]
        /\ vmas'[Len(vmas) + 1] = VmaOf(l)
    BY <1>3, <1>5, WantedFlags
  <2>2. BaseInv'
    BY <1>1, <1>2, <1>3, <1>5, <2>1, VmaPagesAssumption DEF IInv, BaseInv
  <2>3. ASSUME NEW k \in 1 .. Len(vmas')
        PROVE  \E i \in 1 .. line' : Wanted(target.blob, target.maps[i]) /\ vmas'[k] = VmaOf(target.maps[i])
    <3>1. CASE k \in 1 .. Len(vmas)
      <4>1. PICK i \in 1 .. line : Wanted(target.blob, target.maps[i]) /\ vmas[k] = VmaOf(target.maps[i])
        BY Zenon, <3>1 DEF IInv, ScanInv
      <4>2. i \in 1 .. line' /\ vmas'[k] = vmas[k]
        BY <1>1, <1>3, <2>1, <3>1
      <4> QED
        BY Zenon, <4>1, <4>2
    <3>2. CASE k = Len(vmas) + 1
      BY <1>1, <1>3, <1>5, <2>1, <3>2
    <3> QED
      BY <1>3, <2>1, <3>1, <3>2
  <2>4. ASSUME NEW k \in 1 .. Len(vmas)
        PROVE  vmas[k].end <= VmaOf(l).start
    <3>1. PICK i \in 1 .. line : vmas[k] = VmaOf(target.maps[i])
      BY Zenon DEF IInv, ScanInv
    <3>2. i \in DOMAIN target.maps /\ line + 1 \in DOMAIN target.maps /\ i < line + 1
      BY <1>3, MapsIsSeq
    <3>3. target.maps[i].end <= l.start
      BY Zenon, <1>3, <3>2 DEF TargetOK
    <3> QED
      BY <3>1, <3>3 DEF VmaOf
  <2>5. \A k, m \in 1 .. Len(vmas') : k < m => vmas'[k].end <= vmas'[m].start
    <3> SUFFICES ASSUME NEW k \in 1 .. Len(vmas'), NEW m \in 1 .. Len(vmas'), k < m
                 PROVE  vmas'[k].end <= vmas'[m].start
      BY Zenon
    <3>1. k \in 1 .. Len(vmas) /\ vmas'[k] = vmas[k]
      BY <1>3, <2>1
    <3>2. CASE m \in 1 .. Len(vmas)
      BY Zenon, <2>1, <3>1, <3>2 DEF IInv, ScanInv
    <3>3. CASE m = Len(vmas) + 1
      BY Zenon, <2>1, <2>4, <3>1, <3>3
    <3> QED
      BY <1>3, <2>1, <3>2, <3>3
  <2>6. ScanInv'
    BY Zenon, <1>1, <1>2, <2>1, <2>3, <2>5 DEF ScanInv
  <2>7. vmas'[1] \in VmArea /\ vmas'[1].end - vmas'[1].start \in Nat
    <3>1. 1 \in 1 .. Len(vmas')
      BY <1>3, <2>1
    <3>2. PICK i \in 1 .. line' : vmas'[1] = VmaOf(target.maps[i])
      BY Zenon, <2>3, <3>1
    <3>3. i \in 1 .. Len(target.maps)
      BY <1>1, <1>3
    <3>4. vmas'[1] \in VmArea
      BY <2>1, <3>1
    <3> QED
      BY SMTT(30), <1>3, <3>2, <3>3, <3>4, LineFacts DEF VmaOf, VmArea
  <2>8. (GrowInv /\ PassedInv /\ DoneInv)'
    BY <1>1, <1>2, <2>7 DEF GrowInv, PassedInv, DoneInv, vma, nrpages, addr, VmArea
  <2>9. AlignInv'
    BY <1>1, <1>2 DEF IInv, AlignInv
  <2> QED
    BY Zenon, <2>2, <2>6, <2>8, <2>9 DEF IInv
<1> QED
  BY Zenon, <1>1, <1>4, <1>5 DEF Scanned

\* Steps that only change pc.
LEMMA EndsKeep ==
  ASSUME IInv, ScanDone \/ NoPagemap \/ get_target_pages
  PROVE  IInv'
<1>1. /\ UNCHANGED <<target, rss_file, line, vmas, v, idx, off, missed, region_start, region_length, regions>>
      /\ \/ pc = "loop" /\ pc' \in {"done", "aborted", "failed"}
         \/ pc = "scan" /\ pc' \in {"loop", "failed"}
  BY Zenon DEF ScanDone, NoPagemap, get_target_pages, given
<1>2. CASE pc = "loop"
  BY <1>1, <1>2 DEF IInv, BaseInv, ScanInv, AlignInv, GrowInv, PassedInv, DoneInv, vma, nrpages, addr,
                    Within, Covers, Fine, Kept, Due, Limit
<1>3. CASE pc = "scan"
  BY Zenon, <1>1, <1>3 DEF IInv, BaseInv, ScanInv, AlignInv, GrowInv, PassedInv, DoneInv, vma, nrpages, addr,
                    Within, Covers, Fine, Kept, Due, Limit
<1> QED
  BY Zenon, <1>1, <1>2, <1>3

\* A region in an earlier VMA is below the ones after it.
LEMMA EarlierIsBelow ==
  ASSUME IInv, NEW r \in regions, NEW m \in 1 .. Len(vmas), v + 1 < m
  PROVE  EndOf(r) <= vmas[m].start
<1>1. PICK k \in 1 .. Len(vmas) : k <= v + 1 /\ Within(r, vmas[k])
  BY Zenon DEF IInv, DoneInv
<1>2. vmas[k].end <= vmas[m].start
  BY SMTT(30), <1>1 DEF IInv, BaseInv, ScanInv
<1>3. r \in Region /\ vmas[k] \in VmArea /\ vmas[m] \in VmArea
  BY SMTT(30) DEF IInv, DoneInv, ScanInv
<1> QED
  BY <1>1, <1>2, <1>3 DEF Within, EndOf, Region, VmArea

\* The next VMA.
LEMMA VmaDoneKeeps ==
  ASSUME IInv, VmaDone
  PROVE  IInv'
<1>1. /\ pc = "loop" /\ v < Len(vmas) /\ v' = v + 1
      /\ idx' = 0 /\ off' = 0 /\ region_start' = 0 /\ region_length' = 0
      /\ UNCHANGED <<target, rss_file, line, vmas, missed, regions, pc>>
  BY Zenon DEF VmaDone, given
<1>2. BaseInv /\ ScanInv /\ DoneInv /\ v \in Nat /\ Len(vmas) \in Nat
  BY DEF IInv, BaseInv, ScanInv
<1>3. v + 1 < Len(vmas) => /\ v + 2 \in 1 .. Len(vmas) /\ vmas[v + 2] \in VmArea
                           /\ vmas[v + 2].start < vmas[v + 2].end
                           /\ \A r \in regions : EndOf(r) <= vmas[v + 2].start
  BY <1>2, VmaFacts, EarlierIsBelow
<1>4. (BaseInv /\ ScanInv)'
  BY <1>1, <1>2 DEF BaseInv, ScanInv
<1>5. v' < Len(vmas') => vma' = vmas[v + 2] /\ addr' = vmas[v + 2].start /\ nrpages' \in Nat
  BY <1>1, <1>2, <1>3 DEF vma, addr, nrpages, VmArea
<1>6. (AlignInv /\ GrowInv /\ PassedInv)'
  BY <1>1, <1>5 DEF IInv, AlignInv, GrowInv, PassedInv
<1>7. \A r \in regions : \A k \in 1 .. Len(vmas) : Within(r, vmas[k]) => Within(r, vmas[k])'
  BY <1>1 DEF Within, EndOf, Covers, Fine, Kept, Due
<1>8. DoneInv'
  <2>1. \A r \in regions' : \E k \in 1 .. Len(vmas') : k <= v' + 1 /\ Within(r, vmas[k])'
    BY <1>1, <1>2, <1>7 DEF DoneInv
  <2> QED
    BY Zenon, <1>1, <1>2, <1>3, <1>5, <2>1 DEF DoneInv, EndOf
<1> QED
  BY Zenon, <1>4, <1>6, <1>8 DEF IInv

\* The VMA stays while its pages are looked at.
LEMMA PageFrame ==
  ASSUME IInv, get_vma_pages
  PROVE  /\ vma' = vma /\ nrpages' = nrpages /\ addr' = addr + 1 /\ Limit(vma.flags)' = Limit(vma.flags)
         /\ Due(vma.flags)' = Due(vma.flags) /\ Kept(vma.flags)' = Kept(vma.flags)
         /\ idx \in Nat /\ region_start \in Nat /\ region_length \in Nat /\ addr \in Nat
         /\ addr = vma.start + idx /\ nrpages = vma.end - vma.start
         /\ vma.start \in Nat /\ vma.end \in Nat
<1>1. BaseInv /\ ScanInv /\ AlignInv /\ GrowInv
  BY Zenon DEF IInv
<1>2. /\ pc = "loop" /\ v < Len(vmas) /\ idx < nrpages /\ idx' = idx + 1
      /\ UNCHANGED <<target, rss_file, line, vmas, v>>
      /\ addr \in vma.start .. vma.end - 1
  BY Zenon, <1>1, PageOutcomes DEF given
<1>3. /\ vma \in VmArea /\ vma = vmas[v + 1] /\ v + 1 \in 1 .. Len(vmas)
      /\ 0 < vma.start /\ vma.start < vma.end /\ nrpages \in Nat
  BY Zenon, <1>1, <1>2, CurrentVma
<1>4. /\ vma' = vma /\ nrpages' = nrpages /\ addr' = addr + 1 /\ Limit(vma.flags)' = Limit(vma.flags)
      /\ Due(vma.flags)' = Due(vma.flags) /\ Kept(vma.flags)' = Kept(vma.flags)
  <2>1. vma' = vma
    BY Zenon, <1>2 DEF vma
  <2>2. nrpages' = nrpages /\ addr' = vma.start + (idx + 1)
    BY Zenon, <1>2, <2>1 DEF nrpages, addr
  <2>3. addr' = addr + 1
    BY <1>1, <1>3, <2>2 DEF addr, VmArea, BaseInv
  <2> QED
    BY Zenon, <1>2, <2>1, <2>2, <2>3 DEF Limit, Due, Kept
<1>5. /\ idx \in Nat /\ region_start \in Nat /\ region_length \in Nat /\ addr \in Nat
      /\ addr = vma.start + idx /\ nrpages = vma.end - vma.start
      /\ vma.start \in Nat /\ vma.end \in Nat
  BY <1>1, <1>2, <1>3 DEF BaseInv, addr, nrpages, VmArea
<1> QED
  BY Zenon, <1>4, <1>5

\* An iteration over a page.
LEMMA PageKeeps ==
  ASSUME IInv, get_vma_pages
  PROVE  IInv'
<1>1. BaseInv /\ ScanInv /\ AlignInv /\ GrowInv /\ PassedInv /\ DoneInv
  BY Zenon DEF IInv
<1>2. /\ pc = "loop" /\ v < Len(vmas) /\ idx < nrpages /\ idx' = idx + 1
      /\ UNCHANGED <<target, rss_file, line, vmas, v>>
      /\ addr \in vma.start .. vma.end - 1
      /\ addr \in DOMAIN target.map
      /\ Read \/ MissEntry
  BY Zenon, <1>1, PageOutcomes DEF given
<1>3. /\ vma \in VmArea /\ vma = vmas[v + 1] /\ v + 1 \in 1 .. Len(vmas)
      /\ 0 < vma.start /\ vma.start < vma.end /\ nrpages \in Nat
  BY Zenon, <1>1, <1>2, CurrentVma
<1>4. /\ vma' = vma /\ nrpages' = nrpages /\ addr' = addr + 1 /\ Limit(vma.flags)' = Limit(vma.flags)
      /\ Due(vma.flags)' = Due(vma.flags) /\ Kept(vma.flags)' = Kept(vma.flags)
  BY Zenon, PageFrame
<1>5. /\ idx \in Nat /\ region_start \in Nat /\ region_length \in Nat /\ addr \in Nat
      /\ addr = vma.start + idx /\ nrpages = vma.end - vma.start
      /\ vma.start \in Nat /\ vma.end \in Nat
  BY Zenon, PageFrame
<1>6. /\ region_start = 0 => region_length = 0
      /\ region_start # 0 => /\ vma.start <= region_start
                             /\ region_length > 0 /\ region_start + region_length <= addr
                             /\ region_length < Limit(vma.flags)
                             /\ vma.flags = "ANON" \/ rss_file
                             /\ \A p \in region_start .. addr - 1 : Fine(p, vma)
  BY Zenon, <1>1, <1>2 DEF GrowInv, PassedInv
<1>7. Limit(vma.flags) \in Nat \ {0} /\ (vma.flags = "ANON" => Limit(vma.flags) = MAX_VM_REGION_SIZE)
  BY <1>3, VmaPagesAssumption DEF Limit
<1>8. Kept(vma.flags) # {} => vma.flags = "ANON" \/ rss_file
  BY Zenon, <1>3 DEF Due, Kept
<1>9. missed \subseteq missed' /\ missed' \subseteq DOMAIN target.map
  BY Zenon, <1>1, <1>2 DEF Read, ReadEntry, MissEntry, AlignInv
<1>10. ASSUME NEW p \in Nat, Fine(p, vma)
       PROVE  Fine(p, vma)'
  BY Zenon, <1>2, <1>4, <1>9, <1>10 DEF Fine
<1>11. Entry \in Kept(vma.flags) => Fine(addr, vma)
  BY Zenon, <1>1, <1>2, EntrySpeaks
<1>12. From \in Nat /\ From # 0 /\ vma.start <= From /\ From <= addr
      /\ From + region_length <= addr
  <2>1. vma.start <= addr /\ addr # 0
    BY <1>3, <1>5
  <2>2. CASE region_start = 0
    <3>1. From = addr /\ region_length = 0
      BY Zenon, <1>6, <2>2 DEF From
    <3> QED
      BY <1>5, <2>1, <3>1
  <2>3. CASE region_start # 0
    <3>1. /\ From = region_start
          /\ vma.start <= region_start /\ region_length > 0 /\ region_start + region_length <= addr
      BY Zenon, <1>6, <2>3 DEF From
    <3> QED
      BY <1>5, <2>3, <3>1
  <2> QED
    BY Zenon, <2>2, <2>3
<1>13. region_start' \in Nat /\ region_length' \in Nat /\ pc' \in {"loop", "failed"}
  BY SMTT(30), <1>2, <1>5, <1>12
  DEF Read, MissEntry, Skip, Failed, Passed, Taken, DumpedWith, DumpedBefore, Dumped
<1>14. (BaseInv /\ ScanInv /\ AlignInv)'
  <2>1. idx' \in Nat /\ off' \in Nat
    BY SMTT(30), <1>1, <1>2, <1>5 DEF Read, ReadEntry, MissEntry, BaseInv
  <2>2. BaseInv'
    BY Zenon, <1>1, <1>2, <1>13, <2>1 DEF BaseInv
  <2>3. ScanInv'
    BY Zenon, <1>1, <1>2, <1>13 DEF ScanInv
  <2>4. AlignInv'
    <3>1. off \in 0 .. idx /\ (off = idx \/ missed \cap vma.start .. addr - 1 # {})
      BY Zenon, <1>1, <1>2 DEF AlignInv
    <3>2. vma.start .. addr - 1 \subseteq vma.start .. addr /\ addr \in vma.start .. addr /\ addr = addr' - 1
      <4>1. vma.start \in Nat /\ addr \in Nat /\ vma.start <= addr /\ addr' = addr + 1
        BY <1>2, <1>4, <1>5
      <4> QED
        BY <4>1
    <3>3. CASE ReadEntry
      <4>1. off' = off + 1 /\ missed' = missed
        BY Zenon, <3>3 DEF ReadEntry
      <4>2. off' \in 0 .. idx' /\ (off = idx => off' = idx')
        BY <1>2, <1>5, <3>1, <4>1
      <4> QED
        BY Zenon, <1>2, <1>4, <1>9, <3>1, <3>2, <4>1, <4>2 DEF AlignInv
    <3>4. CASE MissEntry
      <4>1. off' = off /\ addr \in missed'
        BY Zenon, <3>4 DEF MissEntry
      <4>2. off' \in 0 .. idx'
        BY <1>2, <1>5, <3>1, <4>1
      <4> QED
        BY Zenon, <1>2, <1>4, <1>9, <3>2, <4>1, <4>2 DEF AlignInv
    <3> QED
      BY Zenon, <1>2, <3>3, <3>4 DEF Read
  <2> QED
    BY Zenon, <2>2, <2>3, <2>4
<1>15. ASSUME NEW r \in Region, NEW k \in 1 .. Len(vmas), Within(r, vmas[k])
       PROVE  Within(r, vmas[k])'
  BY Zenon, <1>2, <1>9, <1>15 DEF Within, EndOf, Covers, Fine, Kept, Due
<1>16. CASE Failed \/ Passed \/ MissEntry
  <2>1. GrowInv'
    <3>1. UNCHANGED <<region_start, region_length>>
      BY Zenon, <1>16 DEF Failed, Passed, MissEntry, Skip
    <3>2. idx' \in 0 .. nrpages
      BY <1>2, <1>3, <1>5
    <3>3. region_start + region_length <= addr => region_start + region_length <= addr + 1
      BY <1>5
    <3> QED
      BY Zenon, <1>2, <1>4, <1>6, <3>1, <3>2, <3>3 DEF GrowInv
  <2>2. PassedInv'
    <3> SUFFICES ASSUME pc' = "loop", region_start' # 0, NEW p \in region_start' .. addr' - 1
                 PROVE  Fine(p, vma)'
      BY Zenon, <1>2, <1>4 DEF PassedInv
    <3>1. /\ region_start' = region_start /\ region_start # 0
          /\ MissEntry \/ Entry \in Kept(vma.flags)
      BY Zenon, <1>16 DEF Failed, Passed, MissEntry, Skip
    <3>2. p \in Nat /\ (p = addr \/ p \in region_start .. addr - 1)
      BY <1>4, <1>5, <3>1
    <3>3. CASE p = addr /\ MissEntry
      <4>1. addr \in missed' /\ addr \in vma.start .. addr
        BY <1>2, <1>5, <3>3 DEF MissEntry
      <4> QED
        BY Zenon, <1>4, <3>3, <4>1 DEF Fine
    <3> QED
      BY Zenon, <1>6, <1>10, <1>11, <3>1, <3>2, <3>3
  <2>3. DoneInv'
    <3>1. regions' = regions /\ region_start' = region_start /\ (pc' = "loop" => pc = "loop")
      BY Zenon, <1>2, <1>16 DEF Failed, Passed, MissEntry, Skip
    <3>2. \A r \in regions' : \E k \in 1 .. Len(vmas') : k <= v' + 1 /\ Within(r, vmas[k])'
      BY Zenon, <1>1, <1>2, <1>15, <3>1 DEF DoneInv
    <3>3. pc' = "loop" => \A r \in regions' : EndOf(r) <= IF region_start' = 0 THEN addr' ELSE region_start'
      <4> SUFFICES ASSUME pc = "loop", NEW r \in regions
                   PROVE  EndOf(r) <= IF region_start = 0 THEN addr + 1 ELSE region_start
        BY Zenon, <1>4, <3>1
      <4>1. r \in Region /\ EndOf(r) <= IF region_start = 0 THEN addr ELSE region_start
        BY Zenon, <1>1, <1>2 DEF DoneInv
      <4>2. EndOf(r) \in Nat
        BY <4>1 DEF Region, EndOf
      <4> QED
        BY <1>5, <4>1, <4>2
    <3> QED
      BY Zenon, <1>1, <1>2, <3>1, <3>2, <3>3 DEF DoneInv, EndOf
  <2> QED
    BY Zenon, <1>14, <2>1, <2>2, <2>3 DEF IInv
<1>17. CASE Taken
  <2>1. /\ region_start' = From /\ region_length' = region_length + 1 /\ idx' < nrpages
        /\ region_start' + region_length' <= addr' /\ region_length' < Limit(vma.flags)
    BY <1>2, <1>4, <1>5, <1>12, <1>17 DEF Taken
  <2>2. vma.flags = "ANON" \/ rss_file
    BY Zenon, <1>8, <1>17 DEF Taken
  <2>3. GrowInv'
    <3>1. idx' \in 0 .. nrpages' /\ region_length' > 0 /\ vma.start <= region_start' /\ region_start' # 0
      BY <1>2, <1>4, <1>5, <1>12, <2>1
    <3> QED
      BY Zenon, <1>2, <1>4, <2>1, <2>2, <3>1 DEF GrowInv
  <2>4. PassedInv'
    <3> SUFFICES ASSUME NEW p \in region_start' .. addr' - 1
                 PROVE  Fine(p, vma)'
      BY Zenon, <1>2, <1>4 DEF PassedInv
    <3>1. p \in Nat /\ (p = addr \/ (region_start # 0 /\ p \in region_start .. addr - 1))
      BY <1>4, <1>5, <1>12, <1>17 DEF Taken, From
    <3> QED
      BY Zenon, <1>6, <1>17, <1>10, <1>11, <3>1 DEF Taken
  <2>5. DoneInv'
    <3>1. regions' = regions /\ region_start' = From /\ From # 0 /\ pc' = pc
      BY Zenon, <1>12, <1>17 DEF Taken
    <3>2. \A r \in regions' : \E k \in 1 .. Len(vmas') : k <= v' + 1 /\ Within(r, vmas[k])'
      BY Zenon, <1>1, <1>2, <1>15, <3>1 DEF DoneInv
    <3>3. \A r \in regions' : EndOf(r) <= From
      BY Zenon, <1>1, <1>2, <3>1 DEF DoneInv, From
    <3> QED
      BY Zenon, <1>1, <1>2, <3>1, <3>2, <3>3 DEF DoneInv, EndOf
  <2> QED
    BY Zenon, <1>14, <2>3, <2>4, <2>5 DEF IInv
<1>18. CASE DumpedWith \/ DumpedBefore
  <2>1. PICK n \in Nat \ {0} :
          /\ regions' = regions \cup {[start |-> From, length |-> n]}
          /\ region_start' = 0 /\ region_length' = 0 /\ pc' = pc
          /\ From + n <= addr'
          /\ n <= Limit(vma.flags)
          /\ \A p \in From .. From + n - 1 : Fine(p, vma)
    <3>1. CASE DumpedWith
      <4>1. \A p \in From .. addr : Fine(p, vma)
        BY <1>5, <1>6, <1>11, <3>1 DEF DumpedWith, From
      <4>2. From + (region_length + 1) <= addr + 1 /\ region_length + 1 <= Limit(vma.flags)
        BY <1>5, <1>6, <1>7 DEF From
      <4> QED
        BY <1>4, <1>5, <1>12, <3>1, <4>1, <4>2 DEF DumpedWith, Dumped
    <3>2. CASE DumpedBefore
      BY <1>4, <1>5, <1>6, <1>7, <3>2 DEF DumpedBefore, Dumped, From
    <3> QED
      BY Zenon, <1>18, <3>1, <3>2
  <2> DEFINE new == [start |-> From, length |-> n]
  <2>2. new \in Region /\ EndOf(new) = From + n /\ new.start = From /\ new.length = n
    BY Zenon, <1>12, <2>1 DEF Region, EndOf
  <2>3. Within(new, vma)
    <3>1. EndOf(new) <= vma.end
      <4>1. From + n <= addr + 1
        BY Zenon, <1>4, <2>1
      <4>2. addr <= vma.end - 1
        BY <1>2
      <4>3. From + n <= vma.end
        BY <1>5, <1>12, <4>1, <4>2
      <4> QED
        BY Zenon, <2>2, <4>3
    <3>2. vma.flags = "ANON" \/ rss_file
      BY Zenon, <1>6, <1>8, <1>18 DEF DumpedWith, DumpedBefore
    <3> QED
      BY Zenon, <1>7, <1>12, <2>1, <2>2, <3>1, <3>2 DEF Within, Covers
  <2>4. \A r \in regions : EndOf(r) <= From
    BY Zenon, <1>1, <1>2 DEF DoneInv, From
  <2> HIDE DEF new
  <2>5. GrowInv' /\ PassedInv'
    BY SMTT(30), <1>2, <1>4, <1>5, <2>1 DEF GrowInv, PassedInv
  <2>6. regions' = regions \cup {new} /\ regions' \subseteq Region
    BY Zenon, <1>1, <2>1, <2>2 DEF DoneInv, new
  <2>7. ASSUME NEW r \in regions'
        PROVE  \E k \in 1 .. Len(vmas') : k <= v' + 1 /\ Within(r, vmas[k])'
    <3>1. CASE r = new
      <4>1. PICK k \in 1 .. Len(vmas) : k = v + 1
        BY Zenon, <1>3
      <4>2. Within(r, vmas[k])'
        BY Zenon, <1>3, <1>15, <2>2, <2>3, <3>1, <4>1
      <4> QED
        BY <1>1, <1>2, <4>1, <4>2 DEF BaseInv
    <3>2. CASE r \in regions
      BY Zenon, <1>1, <1>2, <1>15, <3>2 DEF DoneInv
    <3> QED
      BY Zenon, <2>6, <3>1, <3>2
  <2>8. \A r \in regions' : EndOf(r) <= addr'
    <3> SUFFICES ASSUME NEW r \in regions' PROVE EndOf(r) <= addr'
      BY Zenon
    <3>1. CASE r = new
      BY Zenon, <2>1, <2>2, <3>1
    <3>2. CASE r \in regions
      <4>1. EndOf(r) <= From /\ r \in Region
        BY Zenon, <1>1, <2>4, <3>2 DEF DoneInv
      <4>2. EndOf(r) \in Nat
        BY <4>1 DEF Region, EndOf
      <4> QED
        BY <1>4, <1>5, <1>12, <4>1, <4>2
    <3> QED
      BY Zenon, <2>6, <3>1, <3>2
  <2>9. \A r, s \in regions' : r # s => EndOf(r) <= s.start \/ EndOf(s) <= r.start
    BY Zenon, <1>1, <2>2, <2>4, <2>6 DEF DoneInv
  <2>10. DoneInv'
    BY Zenon, <1>2, <2>1, <2>6, <2>7, <2>8, <2>9 DEF DoneInv, EndOf
  <2> QED
    BY Zenon, <1>14, <2>5, <2>10 DEF IInv
<1> QED
  BY Zenon, <1>2, <1>16, <1>17, <1>18 DEF Read

\* IInv is an invariant.
LEMMA IInvHolds == VmaSpec => []IInv
<1>1. ASSUME IInv, [VmaNext]_vma_vars PROVE IInv'
  <2>1. CASE scan_target_vmas
    BY Zenon, <1>1, <2>1, ScanKeeps
  <2>2. CASE ScanDone \/ NoPagemap \/ get_target_pages
    BY ZenonT(40), <1>1, <2>2, EndsKeep
  <2>3. CASE get_vma_pages
    BY Zenon, <1>1, <2>3, PageKeeps
  <2>4. CASE VmaDone
    BY Zenon, <1>1, <2>4, VmaDoneKeeps
  <2>5. CASE UNCHANGED vma_vars
    BY <1>1, <2>5
       DEF vma_vars, IInv, BaseInv, ScanInv, AlignInv, GrowInv, PassedInv, DoneInv, vma, nrpages, addr,
                      Within, Covers, EndOf, Fine, Kept, Due, Limit
  <2> QED
    BY Zenon, <1>1, <2>5, <2>1, <2>2, <2>3, <2>4 DEF VmaNext
<1> QED
  BY <1>1, IInvInit, PTL DEF VmaSpec

-----------------------------------------------------------------------------
(* What the invariant says of the pages.                                      *)

\* A page of a region: the line it is of, and its kind.
LEMMA CoveredPage ==
  ASSUME IInv, NEW r \in regions, NEW p \in Covers(r)
  PROVE  \E i \in 1 .. Len(target.maps) :
           /\ Wanted(target.blob, target.maps[i])
           /\ p \in LinePages(target.maps[i])
           /\ p \in DOMAIN target.map
           /\ \/ target.map[p] \in Kept(Flags(target.maps[i].path))
              \/ missed \cap target.maps[i].start .. p # {}
           /\ Flags(target.maps[i].path) = "ANON" \/ rss_file
<1>1. PICK k \in 1 .. Len(vmas) : Within(r, vmas[k])
  BY Zenon DEF IInv, DoneInv
<1>2. PICK i \in 1 .. line : Wanted(target.blob, target.maps[i]) /\ vmas[k] = VmaOf(target.maps[i])
  BY Zenon DEF IInv, ScanInv
<1>3. i \in 1 .. Len(target.maps) /\ TargetOK(target)
  BY SMTT(30), MapsIsSeq DEF IInv, BaseInv
<1>4. r \in Region /\ vmas[k] \in VmArea
  BY DEF IInv, DoneInv, ScanInv
<1>5. p \in vmas[k].start .. vmas[k].end - 1
  BY SMTT(30), <1>1, <1>4 DEF Within, EndOf, Covers, Region, VmArea
<1>6. /\ vmas[k].start = target.maps[i].start /\ vmas[k].end = target.maps[i].end
      /\ vmas[k].flags = Flags(target.maps[i].path)
  BY <1>2 DEF VmaOf
<1>7. p \in LinePages(target.maps[i]) /\ p \in DOMAIN target.map
  BY Zenon, <1>3, <1>5, <1>6, LineFacts DEF LinePages
<1> QED
  BY Zenon, <1>1, <1>2, <1>3, <1>6, <1>7 DEF Within, Fine

LEMMA TypeFromIInv == IInv => VmaTypeOK
<1> SUFFICES ASSUME IInv PROVE VmaTypeOK
  BY Zenon
<1>1. BaseInv /\ ScanInv /\ AlignInv /\ GrowInv /\ DoneInv
  BY Zenon DEF IInv
<1>2. ASSUME v < Len(vmas)
      PROVE  /\ idx \in 0 .. nrpages /\ off \in 0 .. idx
             /\ region_start \in {0} \cup vma.start .. vma.end - 1
             /\ region_length \in 0 .. nrpages
  <2>1. /\ vma.start \in Nat /\ vma.end \in Nat /\ nrpages = vma.end - vma.start
        /\ vma.start < vma.end /\ addr = vma.start + idx
        /\ region_start \in Nat /\ region_length \in Nat /\ idx \in Nat
    BY Zenon, <1>1, <1>2, CurrentVma DEF VmArea, nrpages, addr, BaseInv
  <2> QED
    BY SMTT(30), <1>1, <1>2, <2>1 DEF AlignInv, GrowInv
<1>3. \A r \in regions : r.length > 0 /\ Covers(r) \subseteq DOMAIN target.map
  BY <1>1, CoveredPage DEF DoneInv, Region
<1> QED
  BY Zenon, <1>1, <1>2, <1>3 DEF VmaTypeOK, BaseInv, ScanInv, AlignInv

\* No page is dumped twice, whatever the target is like and wherever the scan or
\* the dump ends.
THEOREM DumpedOnceHolds == VmaSpec => []DumpedOnce
<1>1. IInv => DumpedOnce
  <2> SUFFICES ASSUME IInv, NEW r \in regions, NEW s \in regions, r # s
               PROVE  Covers(r) \cap Covers(s) = {}
    BY Zenon, TypeFromIInv DEF DumpedOnce
  <2>1. r \in Region /\ s \in Region /\ (EndOf(r) <= s.start \/ EndOf(s) <= r.start)
    BY Zenon DEF IInv, DoneInv
  <2> QED
    BY <2>1 DEF EndOf, Covers, Region
<1> QED
  BY <1>1, IInvHolds, PTL

\* No region is larger than the buffers it goes through; one of a file, which is
\* dropped without being sent, is within a file's mapping.
THEOREM RegionFitsHolds == VmaSpec => []RegionFits
<1>1. IInv => RegionFits
  <2> SUFFICES ASSUME IInv, NEW r \in regions, r.length > MAX_VM_REGION_SIZE
               PROVE  \E l \in Lines : l.path = "/" /\ Covers(r) \subseteq LinePages(l)
    BY Zenon DEF RegionFits
  <2>1. PICK k \in 1 .. Len(vmas) : Within(r, vmas[k])
    BY Zenon DEF IInv, DoneInv
  <2>2. PICK i \in 1 .. line : Wanted(target.blob, target.maps[i]) /\ vmas[k] = VmaOf(target.maps[i])
    BY Zenon DEF IInv, ScanInv
  <2>3. i \in 1 .. Len(target.maps) /\ TargetOK(target) /\ i \in DOMAIN target.maps
    BY MapsIsSeq DEF IInv, BaseInv
  <2>4. r \in Region /\ vmas[k] \in VmArea /\ target.maps[i] \in Line
    BY <2>3, LineFacts DEF IInv, DoneInv, ScanInv
  <2>5. /\ vmas[k].start = target.maps[i].start /\ vmas[k].end = target.maps[i].end
        /\ vmas[k].flags = Flags(target.maps[i].path)
    BY <2>2 DEF VmaOf
  <2>6. vmas[k].flags # "ANON"
    BY <2>1, <2>4, VmaPagesAssumption DEF Within, Region
  <2>7. target.maps[i].path = "/"
    BY Zenon, <2>2, <2>4, <2>5, <2>6 DEF Wanted, Flags
  <2>8. Covers(r) \subseteq LinePages(target.maps[i])
    BY SMTT(30), <2>1, <2>4, <2>5 DEF Within, EndOf, Covers, LinePages, Region, VmArea
  <2> QED
    BY Zenon, <2>3, <2>7, <2>8 DEF Lines
<1> QED
  BY <1>1, IInvHolds, PTL

\* Lines do not overlap.
LEMMA LineOfPage ==
  ASSUME NEW t, TargetOK(t), NEW i \in 1 .. Len(t.maps), NEW j \in 1 .. Len(t.maps),
         NEW p \in LinePages(t.maps[i]), p \in LinePages(t.maps[j])
  PROVE  i = j
<1>1. /\ t.maps[i] \in Line /\ t.maps[j] \in Line
      /\ i \in DOMAIN t.maps /\ j \in DOMAIN t.maps /\ i \in Nat /\ j \in Nat
  BY MapsIsSeq, LineFacts
<1>2. (i < j => t.maps[i].end <= t.maps[j].start) /\ (j < i => t.maps[j].end <= t.maps[i].start)
  BY Zenon, <1>1 DEF TargetOK
<1> QED
  BY SMTT(30), <1>1, <1>2 DEF LinePages, Line

\* A page of a wanted line is not spared.
LEMMA WantedNotSpared ==
  ASSUME TargetOK(target), NEW i \in 1 .. Len(target.maps), Wanted(target.blob, target.maps[i]),
         NEW p \in LinePages(target.maps[i])
  PROVE  p \notin Spared
<1> SUFFICES ASSUME p \in Spared PROVE FALSE
  BY Zenon
<1>1. PICK j \in DOMAIN target.maps : /\ p \in LinePages(target.maps[j])
                                      /\ target.blob \in LinePages(target.maps[j]) \cup {target.maps[j].end}
  BY Zenon DEF Spared, Lines
<1>2. j = i
  BY Zenon, <1>1, MapsIsSeq, LineOfPage
<1>3. target.maps[i] \in Line /\ target.maps[i].start < target.maps[i].end
  BY Zenon, LineFacts
<1> QED
  BY <1>1, <1>2, <1>3 DEF Wanted, Skipped, should_skip_range, LinePages, Line

\* Only private pages are dumped or dropped and never the parasite's own; and they
\* are in memory, but for an unevictable one and the ones of a mapping from the
\* first page on for which read() failed.
THEOREM OnlyResidentHolds == VmaSpec => []OnlyResident
<1>1. IInv => OnlyResident
  <2> SUFFICES ASSUME IInv, NEW r \in regions, NEW p \in Covers(r)
               PROVE  p \in (Resident \cup Unevictable \cup Misjudged) \ Spared
    BY Zenon DEF OnlyResident, Covered
  <2>1. PICK i \in 1 .. Len(target.maps) :
           /\ Wanted(target.blob, target.maps[i])
           /\ p \in LinePages(target.maps[i])
           /\ p \in DOMAIN target.map
           /\ \/ target.map[p] \in Kept(Flags(target.maps[i].path))
              \/ missed \cap target.maps[i].start .. p # {}
           /\ Flags(target.maps[i].path) = "ANON" \/ rss_file
    BY Zenon, CoveredPage
  <2>2. TargetOK(target)
    BY Zenon DEF IInv, BaseInv
  <2>3. target.maps[i] \in Lines /\ target.maps[i] \in Line
    BY Zenon, <2>2, MapsIsSeq, LineFacts DEF Lines
  <2>4. ~target.maps[i].shared /\ target.maps[i].path \in {"", "[stack]", "[heap]", "/"}
    BY Zenon, <2>1, <2>3 DEF Wanted, Flags
  <2>5. p \in Private({target.maps[i].path})
    BY Zenon, <2>1, <2>3, <2>4 DEF Private
  <2>6. p \in Private(Paths \ {"[vdso]"})
    BY Zenon, <2>1, <2>3, <2>4 DEF Private, Paths
  <2>7. p \notin Spared
    BY Zenon, <2>1, <2>2, WantedNotSpared
  <2>8. CASE target.map[p] = "unevictable"
    <3>1. p \in PagesThatAre({"unevictable"})
      BY Zenon, <2>1, <2>8 DEF PagesThatAre
    <3> QED
      BY <2>6, <2>7, <3>1, Zenon DEF Unevictable
  <2>9. CASE missed \cap target.maps[i].start .. p # {}
    BY Zenon, <2>1, <2>3, <2>6, <2>7, <2>9 DEF Misjudged
  <2>10. CASE target.maps[i].path = "/" /\ target.map[p] \in Kept("FILE") /\ target.map[p] # "unevictable"
    <3>1. rss_file /\ target.map[p] = "file"
      BY Zenon, <2>1, <2>10 DEF Kept, Due, Flags
    <3>2. p \in PagesThatAre({"file"})
      BY Zenon, <2>1, <3>1 DEF PagesThatAre
    <3>3. p \in Private({"/"})
      BY Zenon, <2>5, <2>10
    <3> QED
      BY <2>7, <3>1, <3>2, <3>3, Zenon DEF Resident
  <2>11. CASE target.maps[i].path # "/" /\ target.map[p] \in Kept("ANON") /\ target.map[p] # "unevictable"
    <3>1. p \in Private({"", "[stack]", "[heap]"})
      BY Zenon, <2>1, <2>3, <2>4, <2>11 DEF Private
    <3>2. target.map[p] \in {"present", "swapped", "file"}
      BY Zenon, <2>1, <2>4, <2>11 DEF Kept, Due, Flags
    <3>3. p \in PagesThatAre({"present", "swapped", "file"})
      BY Zenon, <2>1, <3>2 DEF PagesThatAre
    <3> QED
      BY <2>7, <3>1, <3>3, Zenon DEF Resident
  <2> QED
    <3>1. Flags(target.maps[i].path) = IF target.maps[i].path = "/" THEN "FILE" ELSE "ANON"
      BY Zenon, <2>4 DEF Flags
    <3> QED
      BY Zenon, <2>1, <2>8, <2>10, <2>11, <2>9, <3>1
<1> QED
  BY <1>1, IInvHolds, PTL

-----------------------------------------------------------------------------
(* Nothing is left out.                                                       *)

\* Neither the target nor the options change, and what was missed stays so.
LEMMA TargetStays ==
  ASSUME [VmaNext]_vma_vars
  PROVE  UNCHANGED <<target, rss_file>> /\ (Plain' => Plain)
<1>1. UNCHANGED <<target, rss_file>>
  BY Zenon
     DEF VmaNext, vma_vars, given, scan_target_vmas, ScanDone, NoPagemap, get_vma_pages, VmaDone,
     get_target_pages
<1>2. missed \subseteq missed'
  BY Zenon
     DEF VmaNext, vma_vars, scan_target_vmas, ScanDone, NoPagemap, get_vma_pages, ReadEntry, MissEntry,
     VmaDone, get_target_pages
<1>3. Lines' = Lines
  BY Zenon, <1>1 DEF Lines
<1>4. Unevictable' = Unevictable
  BY Zenon, <1>1, <1>3 DEF Unevictable, Private, PagesThatAre
<1> QED
  BY Zenon, <1>1, <1>2, <1>3, <1>4 DEF Plain

\* The pages of a VMA can all be evicted.
LEMMA PlainPage ==
  ASSUME IInv, Plain, NEW k \in 1 .. Len(vmas), NEW p \in vmas[k].start .. vmas[k].end - 1
  PROVE  target.map[p] # "unevictable"
<1> SUFFICES ASSUME target.map[p] = "unevictable" PROVE FALSE
  BY Zenon
<1>1. PICK i \in 1 .. line : Wanted(target.blob, target.maps[i]) /\ vmas[k] = VmaOf(target.maps[i])
  BY Zenon DEF IInv, ScanInv
<1>2. i \in 1 .. Len(target.maps) /\ TargetOK(target)
  BY MapsIsSeq DEF IInv, BaseInv
<1>3. /\ vmas[k].start = target.maps[i].start /\ vmas[k].end = target.maps[i].end
      /\ target.maps[i] \in Line /\ target.maps[i] \in Lines
  BY SMTT(30), <1>1, <1>2, LineFacts, MapsIsSeq DEF VmaOf, Lines
<1>4. p \in LinePages(target.maps[i]) /\ p \in DOMAIN target.map
  BY Zenon, <1>2, <1>3, LineFacts DEF LinePages
<1>5. ~target.maps[i].shared /\ target.maps[i].path \in Paths \ {"[vdso]"}
  BY Zenon, <1>1, <1>3 DEF Wanted, Flags, Line, Paths
<1>6. p \in Private(Paths \ {"[vdso]"})
  BY Zenon, <1>3, <1>4, <1>5 DEF Private
<1>7. p \in PagesThatAre({"unevictable"})
  BY Zenon, <1>4 DEF PagesThatAre
<1> QED
  BY <1>6, <1>7, Zenon DEF Plain, Unevictable

\* The scan leaves no wanted line out.
LEMMA ScanAllKeeps ==
  ASSUME IInv, ScanAllInv, [VmaNext]_vma_vars
  PROVE  ScanAllInv'
<1> SUFFICES ASSUME Plain'
             PROVE  /\ Len(vmas') <= line'
                    /\ \A i \in 1 .. line' : Wanted(target'.blob, target'.maps[i]) =>
                         \E k \in 1 .. Len(vmas') : vmas'[k] = VmaOf(target'.maps[i])
                    /\ pc' \in {"loop", "done"} => line' = Len(target'.maps)
  BY Zenon DEF ScanAllInv
<1>1. target' = target /\ Plain
  BY Zenon, TargetStays
<1>2. /\ Len(vmas) <= line
      /\ \A i \in 1 .. line : Wanted(target.blob, target.maps[i]) =>
           \E k \in 1 .. Len(vmas) : vmas[k] = VmaOf(target.maps[i])
      /\ pc \in {"loop", "done"} => line = Len(target.maps)
  BY Zenon, <1>1 DEF ScanAllInv
<1>3. CASE scan_target_vmas
  <2> DEFINE l == target.maps[line + 1]
  <2>1. /\ line < Len(target.maps) /\ line' = line + 1 /\ vmas' = Scanned(vmas, target.blob, l)
        /\ pc' = IF l.tail = "none" THEN "scan" ELSE IF RetOfRest(l.tail) = 0 THEN "loop" ELSE "failed"
    BY Zenon, <1>3 DEF scan_target_vmas
  <2>2. /\ line \in Nat /\ Len(target.maps) \in Nat /\ Len(vmas) \in Nat /\ vmas \in Seq(VmArea)
        /\ line + 1 \in DOMAIN target.maps /\ l \in Line
    BY SMTT(30), <2>1, MapsIsSeq, LineFacts DEF IInv, BaseInv, ScanInv
  <2>3. l.tail = "none" /\ Len(target.maps) <= MAX_VMAS
    BY Zenon, <1>1, <2>2 DEF Plain, Lines
  <2>4. Len(vmas) # MAX_VMAS
    BY SMTT(30), <1>2, <2>1, <2>2, <2>3, VmaPagesAssumption
  <2>5. CASE Wanted(target.blob, l)
    <3>1. vmas' = Append(vmas, VmaOf(l))
      BY Zenon, <2>1, <2>4, <2>5 DEF Scanned
    <3>2. /\ Len(vmas') = Len(vmas) + 1 /\ vmas'[Len(vmas) + 1] = VmaOf(l)
          /\ \A k \in 1 .. Len(vmas) : vmas'[k] = vmas[k]
      BY <2>2, <2>5, <3>1, WantedFlags
    <3>3. ASSUME NEW i \in 1 .. line', Wanted(target.blob, target.maps[i])
          PROVE  \E k \in 1 .. Len(vmas') : vmas'[k] = VmaOf(target.maps[i])
      <4>1. CASE i \in 1 .. line
        <5>1. PICK k \in 1 .. Len(vmas) : vmas[k] = VmaOf(target.maps[i])
          BY Zenon, <1>2, <3>3, <4>1
        <5> QED
          BY <2>2, <3>2, <5>1
      <4>2. CASE i = line + 1
        BY <2>2, <3>2, <4>2
      <4> QED
        BY <2>1, <2>2, <4>1, <4>2
    <3>4. Len(vmas') <= line' /\ pc' = "scan"
      BY <1>2, <2>1, <2>2, <2>3, <3>2
    <3> QED
      BY Zenon, <1>1, <3>3, <3>4
  <2>6. CASE ~Wanted(target.blob, l)
    <3>1. vmas' = vmas
      BY Zenon, <2>1, <2>6 DEF Scanned
    <3>2. ASSUME NEW i \in 1 .. line', Wanted(target.blob, target.maps[i])
          PROVE  \E k \in 1 .. Len(vmas') : vmas'[k] = VmaOf(target.maps[i])
      <4>1. i \in 1 .. line
        BY <2>1, <2>2, <2>6, <3>2
      <4> QED
        BY Zenon, <1>2, <3>1, <3>2, <4>1
    <3>3. Len(vmas') <= line' /\ pc' = "scan"
      BY <1>2, <2>1, <2>2, <2>3, <3>1
    <3> QED
      BY Zenon, <1>1, <3>2, <3>3
  <2> QED
    BY Zenon, <2>5, <2>6
<1>4. CASE ScanDone \/ NoPagemap \/ get_vma_pages \/ VmaDone \/ get_target_pages \/ UNCHANGED vma_vars
  <2>1. UNCHANGED <<line, vmas>>
    BY Zenon, <1>4 DEF ScanDone, NoPagemap, get_vma_pages, VmaDone, get_target_pages, vma_vars
  <2>2. pc' \in {"loop", "done"} => pc \in {"loop", "done"} \/ line = Len(target.maps)
    BY Zenon, <1>4 DEF ScanDone, NoPagemap, get_vma_pages, VmaDone, get_target_pages, vma_vars
  <2> QED
    BY Zenon, <1>1, <1>2, <2>1, <2>2
<1> QED
  BY Zenon, <1>3, <1>4 DEF VmaNext

\* The regions only grow, and then so do the pages covered.
LEMMA CoverKeeps ==
  ASSUME IInv, CoverInv, [VmaNext]_vma_vars
  PROVE  CoverInv'
<1> SUFFICES ASSUME Plain', pc' \in {"loop", "done"}
             PROVE  CoverInv'
  BY Zenon DEF CoverInv
<1>1. UNCHANGED <<target, rss_file>> /\ Plain
  BY Zenon, TargetStays
<1>2. BaseInv /\ ScanInv /\ AlignInv /\ GrowInv /\ v \in Nat /\ Len(vmas) \in Nat
  <2>1. BaseInv /\ ScanInv /\ AlignInv /\ GrowInv /\ v \in 0 .. Len(vmas) /\ vmas \in Seq(VmArea)
    BY Zenon DEF IInv, BaseInv, ScanInv
  <2>2. v \in Nat /\ Len(vmas) \in Nat
    BY <2>1
  <2> QED
    BY Zenon, <2>1, <2>2
<1>3. CASE scan_target_vmas \/ ScanDone
  <2>1. pc = "scan" /\ UNCHANGED <<v, idx, region_start, region_length, regions>> /\ pc' # "done"
    BY Zenon, <1>3 DEF scan_target_vmas, ScanDone
  <2>2. v = 0 /\ idx = 0 /\ region_start = 0
    BY Zenon, <2>1 DEF IInv, ScanInv
  <2>3. IInv'
    BY Zenon, <1>3, ScanKeeps, EndsKeep
  <2>4. vmas' \in Seq(VmArea) /\ v' = 0
    BY Zenon, <2>1, <2>2, <2>3 DEF IInv, ScanInv
  <2>5. v' < Len(vmas') => vmas'[v' + 1] \in VmArea
    BY <2>4
  <2>6. v' < Len(vmas') => vma'.start \in Nat
    BY Zenon, <2>5 DEF vma, VmArea
  <2>7. v' < Len(vmas') => addr' = vma'.start
    BY <2>1, <2>2, <2>6 DEF addr
  <2> QED
    BY <2>1, <2>2, <2>6, <2>7 DEF CoverInv
<1>4. ASSUME pc = "loop"
      PROVE  /\ \A k \in 1 .. v : \A p \in vmas[k].start .. vmas[k].end - 1 :
                  target.map[p] \in Due(vmas[k].flags) => p \in Covered
             /\ v < Len(vmas) =>
                  /\ region_start # 0 => region_start + region_length = addr /\ idx < nrpages
                  /\ \A p \in vma.start .. addr - 1 :
                       target.map[p] \in Due(vma.flags) /\ (region_start = 0 \/ p < region_start) => p \in Covered
  BY Zenon, <1>1, <1>4 DEF CoverInv
<1>5. CASE VmaDone
  <2>1. /\ pc = "loop" /\ v < Len(vmas) /\ idx = nrpages /\ v' = v + 1
        /\ idx' = 0 /\ region_start' = 0 /\ UNCHANGED <<vmas, regions, pc>>
    BY Zenon, <1>5 DEF VmaDone
  <2>2. /\ vma = vmas[v + 1] /\ vma \in VmArea /\ nrpages \in Nat /\ idx \in Nat
    BY Zenon, <1>2, <2>1, CurrentVma DEF BaseInv
  <2>3. addr = vma.end /\ region_start = 0
    BY SMTT(30), <1>4, <2>1, <2>2 DEF addr, nrpages, VmArea
  <2>4. \A k \in 1 .. v + 1 : \A p \in vmas[k].start .. vmas[k].end - 1 :
          target.map[p] \in Due(vmas[k].flags) => p \in Covered
    <3> SUFFICES ASSUME NEW k \in 1 .. v + 1, NEW p \in vmas[k].start .. vmas[k].end - 1,
                        target.map[p] \in Due(vmas[k].flags)
                 PROVE  p \in Covered
      BY Zenon
    <3>1. CASE k \in 1 .. v
      BY Zenon, <1>4, <2>1, <3>1
    <3>2. CASE k = v + 1
      BY Zenon, <1>4, <2>1, <2>2, <2>3, <3>2
    <3> QED
      BY <1>2, <3>1, <3>2
  <2>5. v' < Len(vmas') => vmas'[v' + 1] \in VmArea
    BY <1>2, <2>1 DEF ScanInv
  <2>6. v' < Len(vmas') => vma'.start \in Nat
    BY Zenon, <2>5 DEF vma, VmArea
  <2>7. v' < Len(vmas') => addr' = vma'.start
    BY <2>1, <2>6 DEF addr
  <2> QED
    BY <1>1, <2>1, <2>4, <2>6, <2>7 DEF CoverInv, Covered, Covers, Due
<1>6. CASE NoPagemap \/ get_target_pages
  <2>1. pc = "loop" /\ pc' = "done" /\ v = Len(vmas) /\ UNCHANGED <<vmas, v, regions>>
    BY Zenon, <1>6 DEF NoPagemap, get_target_pages
  <2> QED
    BY <1>1, <1>2, <1>4, <2>1 DEF CoverInv, Covered, Covers, Due
<1>7. CASE UNCHANGED vma_vars
  BY SMTT(30), <1>1, <1>7 DEF vma_vars, CoverInv, Covered, Covers, Due, vma, addr, nrpages
<1>8. CASE get_vma_pages
  <2>1. /\ pc = "loop" /\ v < Len(vmas) /\ idx < nrpages /\ idx' = idx + 1
        /\ UNCHANGED <<target, rss_file, line, vmas, v>>
        /\ addr \in vma.start .. vma.end - 1
        /\ Passed \/ Taken \/ DumpedWith \/ DumpedBefore
    <3>1. missed' = {}
      BY Zenon DEF Plain
    <3>2. ~MissEntry
      BY Zenon, <3>1 DEF MissEntry
    <3> QED
      BY Zenon, <1>2, <1>8, <3>2, PageOutcomes DEF given, Read, Failed
  <2>2. /\ vma' = vma /\ nrpages' = nrpages /\ addr' = addr + 1 /\ Due(vma.flags)' = Due(vma.flags)
        /\ idx \in Nat /\ region_start \in Nat /\ region_length \in Nat /\ addr \in Nat
        /\ addr = vma.start + idx /\ nrpages = vma.end - vma.start
        /\ vma.start \in Nat /\ vma.end \in Nat
    BY Zenon, <1>8, PageFrame
  <2>3. Entry = target.map[addr] /\ (Entry \in Kept(vma.flags) => Entry \in Due(vma.flags))
    <3>1. off = idx
      BY Zenon, <1>1, <1>2, <2>1 DEF AlignInv, Plain
    <3>2. Entry = target.map[addr]
      BY Zenon, <3>1 DEF Entry, addr
    <3> QED
      BY Zenon, <1>1, <1>2, <2>1, <3>2, PlainPage, CurrentVma DEF Kept
  <2>4. From + region_length = addr /\ From \in Nat /\ From <= addr /\ From # 0
    <3>1. 0 < vma.start
      BY Zenon, <1>2, <2>1, CurrentVma
    <3>2. region_start = 0 => region_length = 0
      BY Zenon, <1>2, <2>1 DEF GrowInv
    <3> QED
      BY <1>4, <2>1, <2>2, <3>1, <3>2 DEF From
  <2>5. pc' = "loop" /\ Covered \subseteq Covered'
    BY Zenon, <2>1 DEF Passed, Taken, DumpedWith, DumpedBefore, Dumped, Covered, Covers
  <2>6. \A k \in 1 .. v : \A p \in vmas[k].start .. vmas[k].end - 1 :
          target.map[p] \in Due(vmas[k].flags) => p \in Covered'
    BY Zenon, <1>4, <2>1, <2>5
  <2>7. ASSUME NEW p \in vma.start .. addr - 1, target.map[p] \in Due(vma.flags), p < From
        PROVE  p \in Covered'
    BY Zenon, <1>4, <2>1, <2>2, <2>5, <2>7 DEF From
  <2>8. region_start' # 0 => region_start' + region_length' = addr' /\ idx' < nrpages
    <3>1. CASE Passed
      BY Zenon, <2>3, <3>1 DEF Passed
    <3>2. CASE Taken
      BY <2>1, <2>2, <2>4, <3>2 DEF Taken
    <3>3. CASE DumpedWith \/ DumpedBefore
      BY Zenon, <3>3 DEF DumpedWith, DumpedBefore, Dumped
    <3> QED
      BY Zenon, <2>1, <3>1, <3>2, <3>3
  <2>9. ASSUME NEW p \in vma.start .. addr, target.map[p] \in Due(vma.flags),
               region_start' = 0 \/ p < region_start'
        PROVE  p \in Covered'
    <3>1. CASE p < From
      BY <2>2, <2>4, <2>7, <2>9, <3>1
    <3>2. CASE From <= p
      <4>1. CASE Passed
        <5>1. region_start = 0 /\ p # addr
          BY Zenon, <2>3, <2>9, <4>1 DEF Passed
        <5> QED
          BY <2>2, <3>2, <5>1 DEF From
      <4>2. CASE Taken
        <5>1. region_start' = From
          BY Zenon, <4>2 DEF Taken
        <5> QED
          BY <2>2, <2>4, <2>9, <3>2, <5>1
      <4>3. CASE DumpedWith
        <5>1. p \in Covers([start |-> From, length |-> region_length + 1])
          BY <2>2, <2>4, <3>2 DEF Covers
        <5> QED
          BY Zenon, <4>3, <5>1 DEF DumpedWith, Dumped, Covered, Covers
      <4>4. CASE DumpedBefore
        <5>1. p \in Covers([start |-> From, length |-> region_length])
          <6>1. p # addr
            BY Zenon, <2>3, <2>9, <4>4 DEF DumpedBefore
          <6> QED
            BY <2>2, <2>4, <3>2, <6>1 DEF Covers
        <5> QED
          BY Zenon, <4>4, <5>1 DEF DumpedBefore, Dumped, Covered, Covers
      <4> QED
        BY Zenon, <2>1, <4>1, <4>2, <4>3, <4>4
    <3> QED
      BY <2>2, <2>4, <3>1, <3>2
  <2> QED
    BY SMTT(30), <1>1, <2>1, <2>2, <2>5, <2>6, <2>8, <2>9 DEF CoverInv, Due
<1> QED
  BY Zenon, <1>3, <1>5, <1>6, <1>7, <1>8 DEF VmaNext

\* If every page can be looked at and evicted and the scan sees every mapping, all the resident private
\* pages are dumped, whatever the sizes of the mappings and of a region.
THEOREM AllDumpedHolds == VmaSpec => []AllDumped
<1>1. VmaInit => ScanAllInv /\ CoverInv
  BY SMTT(30) DEF VmaInit, ScanAllInv, CoverInv
<1>2. ASSUME IInv, ScanAllInv, CoverInv, OnlyResident
      PROVE  AllDumped
  <2> SUFFICES ASSUME pc = "done", Plain
               PROVE  Covered = Resident \ Spared
    BY Zenon DEF AllDumped, Plain
  <2>1. Covered \subseteq Resident \ Spared
    <3>1. Misjudged = {}
      BY Zenon DEF Misjudged, Plain
    <3> QED
      BY Zenon, <1>2, <3>1 DEF OnlyResident, Plain
  <2>2. ASSUME NEW p \in Resident, p \notin Spared
        PROVE  p \in Covered
    <3>1. PICK i \in DOMAIN target.maps :
            /\ p \in LinePages(target.maps[i]) /\ ~target.maps[i].shared
            /\ \/ target.maps[i].path \in {"", "[stack]", "[heap]"} /\ target.map[p] \in {"present", "swapped", "file"}
               \/ target.maps[i].path = "/" /\ rss_file /\ target.map[p] = "file"
      BY Zenon DEF Resident, Private, PagesThatAre, Lines
    <3>2. TargetOK(target) /\ i \in 1 .. Len(target.maps) /\ target.maps[i] \in Lines
      BY Zenon, <1>2, MapsIsSeq DEF IInv, BaseInv, Lines
    <3>3. target.maps[i] \in Line /\ target.maps[i].start < target.maps[i].end
      BY Zenon, <3>2, LineFacts
    <3>4. target.blob \notin LinePages(target.maps[i]) /\ target.blob # target.maps[i].end
      <4>1. target.blob \notin LinePages(target.maps[i]) \cup {target.maps[i].end}
        BY Zenon, <2>2, <3>1, <3>2 DEF Spared
      <4> QED
        BY Zenon, <4>1
    <3>5. PICK j \in DOMAIN target.maps : target.blob \in LinePages(target.maps[j])
      BY Zenon, <3>2 DEF TargetOK
    <3>6. target.blob \in Int
      <4>1. target.blob \in target.maps[j].start .. target.maps[j].end - 1
        BY Zenon, <3>5 DEF LinePages
      <4> QED
        BY <4>1
    <3>7. Wanted(target.blob, target.maps[i])
      <4>1. ~Skipped(target.blob, target.maps[i])
        BY <3>3, <3>4, <3>6 DEF Skipped, should_skip_range, LinePages, Line
      <4>2. Flags(target.maps[i].path) # "NONE"
        BY Zenon, <3>1 DEF Flags
      <4> QED
        BY Zenon, <3>1, <4>1, <4>2 DEF Wanted
    <3>8. PICK k \in 1 .. Len(vmas) : vmas[k] = VmaOf(target.maps[i])
      BY Zenon, <1>2, <3>2, <3>7 DEF ScanAllInv
    <3>9. target.map[p] \in Due(vmas[k].flags) /\ p \in vmas[k].start .. vmas[k].end - 1
      <4>1. /\ vmas[k].flags = Flags(target.maps[i].path)
            /\ vmas[k].start = target.maps[i].start /\ vmas[k].end = target.maps[i].end
        BY SMTT(30), <3>8 DEF VmaOf
      <4>2. target.map[p] \in Due(Flags(target.maps[i].path))
        BY Zenon, <3>1 DEF Due, Flags
      <4> QED
        BY Zenon, <3>1, <4>1, <4>2 DEF LinePages
    <3> QED
      BY Zenon, <1>2, <3>8, <3>9 DEF CoverInv
  <2> QED
    BY Zenon, <2>1, <2>2
<1> QED
  BY <1>1, <1>2, IInvHolds, OnlyResidentHolds, ScanAllKeeps, CoverKeeps, PTL DEF VmaSpec
=============================================================================
