------------------------------- MODULE VmaScan -------------------------------
(* scan_target_vmas: which lines of /proc/<pid>/maps become VMAs to dump.     *)
(*                                                                            *)
(* A line has the pages start .. end - 1, the kind of its path, whether the   *)
(* mapping is shared, and its tail: what is left of it for the next fgets()   *)
(* when it does not fit buf, "none" if it fits.                               *)
EXTENDS Integers, Sequences

CONSTANTS MAX_VMAS

Paths == {"", "/", "[stack]", "[heap]", "[vdso]"}
Tails == {"none", "hex", "text", "blank"}
Line == [start : Nat, end : Nat, path : Paths, shared : BOOLEAN, tail : Tails]
VmArea == [start : Nat, end : Nat, flags : {"FILE", "ANON"}]

\* blob is the page where the parasite was mapped.
should_skip_range(blob, start, end) == blob >= start /\ blob < end

\* The range begins a page late.
SkippedShort(blob, line) == should_skip_range(blob, line.start + 1, line.end + 1)

\* The parasite's VMA, or one that ends where it begins.
Skipped(blob, line) == should_skip_range(blob, line.start, line.end + 1)

\* vma->flags; a path of another kind is FLAG_NONE.
Flags(path) ==
  CASE path = "/"                     -> "FILE"
    [] path \in {"", "[stack]", "[heap]"} -> "ANON"
    [] OTHER                          -> "NONE"

\* The lines that are wanted, and the VMA that is made of one.
Wanted(blob, line) == ~Skipped(blob, line) /\ Flags(line.path) # "NONE" /\ ~line.shared
VmaOf(line) == [start |-> line.start, end |-> line.end, flags |-> Flags(line.path)]

\* The VMAs after a line; one for which the table has no room is left out.
Scanned(vmas, blob, line) ==
  IF Wanted(blob, line) /\ Len(vmas) # MAX_VMAS THEN Append(vmas, VmaOf(line)) ELSE vmas

\* The rest of a line that was too long is taken for a line of its own, and what
\* sscanf() makes of it ends the loop: the number of items it found is returned,
\* and 0 is success.
RetOfRest(tail) ==
  CASE tail = "hex"   -> 1
    [] tail = "blank" -> -1
    [] tail = "text"  -> 0
=============================================================================
