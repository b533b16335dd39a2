------------------------------ MODULE MCVmaPages ------------------------------
(* The targets for which TLC runs VmaPages: one VMA of NrPages pages with any *)
(* contents, and every layout of Space pages with the parasite in it.         *)
EXTENDS VmaPages, SequencesExt

CONSTANTS NrPages, Space

MkLine(start, end, path, shared, tail) ==
  [start |-> start, end |-> end, path |-> path, shared |-> shared, tail |-> tail]

Parasite(p) == MkLine(p, p + 1, "", FALSE, "none")

\* The VMA at 2, the parasite far above.
OneVma ==
  \E path \in {"", "/"}, m \in [2 .. NrPages + 1 -> Kinds] :
    target = [maps |-> <<MkLine(2, NrPages + 2, path, FALSE, "none"), Parasite(NrPages + 4)>>,
              blob |-> NrPages + 4,
              map |-> m @@ ((NrPages + 4) :> "present")]

\* What a page may be part of, and the kinds of page it then has.
Uses == {"gap", "anon", "heap", "file", "long", "vdso", "shared"}

KindsOf(use) == CASE use = "anon" -> {"absent", "present", "unevictable"}
                  [] use = "file" -> {"absent", "file"}
                  [] OTHER        -> {"present"}

LineOf(start, end, use, tail) ==
  CASE use = "anon"   -> MkLine(start, end, "", FALSE, "none")
    [] use = "heap"   -> MkLine(start, end, "[heap]", FALSE, "none")
    [] use = "file"   -> MkLine(start, end, "/", FALSE, "none")
    [] use = "long"   -> MkLine(start, end, "/", FALSE, tail)
    [] use = "vdso"   -> MkLine(start, end, "[vdso]", FALSE, "none")
    [] use = "shared" -> MkLine(start, end, "", TRUE, "none")

\* A layout says what each page is part of and where a mapping ends although the
\* next page has the same use.
Starts(use, cuts) ==
  {p \in 1 .. Space : use[p] # "gap" /\ (p = 1 \/ p \in cuts \/ use[p - 1] # use[p])}

End(use, cuts, p) ==
  CHOOSE e \in p + 1 .. Space + 1 :
    /\ e = Space + 1 \/ e \in Starts(use, cuts) \/ use[e] = "gap"
    /\ \A q \in p + 1 .. e - 1 : q \notin Starts(use, cuts) /\ use[q] # "gap"

MapsOf(use, cuts, tail) ==
  LET starts == SetToSortSeq(Starts(use, cuts), <)
  IN  [i \in DOMAIN starts |-> LineOf(starts[i], End(use, cuts, starts[i]), use[starts[i]], tail)]

Used(use) == {p \in 1 .. Space : use[p] # "gap"}

Contents(use) ==
  LET kinds == UNION {KindsOf(use[p]) : p \in Used(use)}
  IN  {m \in [Used(use) -> kinds] : \A p \in Used(use) : m[p] \in KindsOf(use[p])}

TailsOf(use) == IF \E p \in 1 .. Space : use[p] = "long" THEN Tails \ {"none"} ELSE {"none"}

AnyLayout ==
  \E use \in [1 .. Space -> Uses] :
  \E cuts \in SUBSET {p \in 2 .. Space : use[p] = "anon" /\ use[p - 1] = "anon"}, tail \in TailsOf(use),
     blob \in {p \in 1 .. Space : use[p] = "anon"}, m \in Contents(use) :
    target = [maps |-> MapsOf(use, cuts, tail), blob |-> blob, map |-> m]

MCInit == (OneVma \/ AnyLayout) /\ VmaInit

MCSpec == MCInit /\ [][VmaNext]_vma_vars
=============================================================================
