------------------------- MODULE UniqueMbsSessionId -------------------------
(***************************************************************************)
(* The identity of an MBS session (UniqueMBSSessionId.cc), which the       *)
(* Context keeps in a std::set to refuse a second session with the same    *)
(* one: an MBS Session Id together with the areas in which it is used.     *)
(* operator<=> calls two ids equal if they clash, and orders them by id or *)
(* by area otherwise.                                                      *)
(*                                                                         *)
(* Addresses, TMGIs, tracking areas and cells are small numbers with the   *)
(* order of the strings they stand for; a cell belongs to a tracking area, *)
(* and an NcgiTai has one cell.                                            *)
(***************************************************************************)
EXTENDS Integers, Sequences, FiniteSets, SequencesExt

None == 0         \* no SSM address, no TMGI
NoList == {}      \* an optional list that is absent; a list that is present has items

\* m_mbsSessionId with its ssm and tmgi (the nid is not compared), the lists of
\* cells, as <<tracking area, cell>>, and of tracking areas of m_mbsServiceArea,
\* and m_extMBSServiceArea
UniqueId(ssm, tmgi, ncgis, tais, ext) ==
    [ssm |-> ssm, tmgi |-> tmgi, ncgis |-> ncgis, tais |-> tais, ext |-> ext]

UniqueIds == [ssm: Nat, tmgi: Nat, ncgis: SUBSET (Nat \X Nat), tais: SUBSET Nat,
              ext: SUBSET Nat]

\* An id that is used everywhere.
GlobalSsm(ssm) == UniqueId(ssm, None, NoList, NoList, NoList)

Less == -1
Equal == 0
Greater == 1

Order(a, b) == IF a < b THEN Less ELSE IF a > b THEN Greater ELSE Equal

\* An absent one is less.
ssm_ordering(a, b) == Order(a, b)
tmgi_ordering(a, b) == Order(a, b)

\* The TMGI counts only if neither was requested to be allocated for an SSM.
mbs_session_ordering(a, b) ==
    IF a.ssm = None /\ b.ssm = None /\ a.tmgi # b.tmgi
    THEN tmgi_ordering(a.tmgi, b.tmgi)
    ELSE ssm_ordering(a.ssm, b.ssm)

-----------------------------------------------------------------------------
(* Areas.                                                                  *)

HasServiceArea(a) == a.ncgis # NoList \/ a.tais # NoList
HasExternalArea(a) == a.ext # NoList
IsGlobal(a) == ~HasServiceArea(a) /\ ~HasExternalArea(a)

TaisOf(ncgis) == {n[1] : n \in ncgis}

\* Two lists of cells, each a pair of its tracking area and the cell.
ncgi_tai_overlap(m, n) == m \cap n # {}

\* Lists of cells meet in a cell, otherwise in a tracking area.
svc_area_overlap(a, b) ==
    \/ ncgi_tai_overlap(a.ncgis, b.ncgis)
    \/ a.tais \cap b.tais # {}
    \/ TaisOf(a.ncgis) \cap b.tais # {}
    \/ a.tais \cap TaisOf(b.ncgis) # {}

ext_svc_area_overlap(a, b) == a.ext \cap b.ext # {}

NcgiTaiLess(m, n) == m[1] < n[1] \/ (m[1] = n[1] /\ m[2] < n[2])
TaiLess(s, t) == s < t

\* Two lists, sorted: the first difference decides, which is the least element
\* that only one of them has; the end of a list does not.
Precedes(s, t, Lt(_, _)) ==
    \E m \in s \ t : /\ \A n \in (s \ t) \cup (t \ s) : n = m \/ Lt(m, n)
                    /\ \E n \in t : Lt(m, n)

ListOrdering(s, t, Lt(_, _)) ==
    IF Precedes(s, t, Lt) THEN Less ELSE IF Precedes(t, s, Lt) THEN Greater ELSE Equal

OptionalOrdering(s, t, Lt(_, _)) ==
    CASE s = NoList /\ t # NoList -> Less
      [] s # NoList /\ t = NoList -> Greater
      [] OTHER -> ListOrdering(s, t, Lt)

svc_area_ordering(a, b) ==
    LET ncgi == OptionalOrdering(a.ncgis, b.ncgis, NcgiTaiLess)
    IN  IF ncgi # Equal THEN ncgi ELSE OptionalOrdering(a.tais, b.tais, TaiLess)

\* Not written yet in the code.
ext_svc_area_ordering(a, b) == Equal

-----------------------------------------------------------------------------
\* operator<=>
Compare(a, b) ==
    LET areas == HasServiceArea(a) /\ HasServiceArea(b)
        ext == HasExternalArea(a) /\ HasExternalArea(b)
    IN  IF \/ IsGlobal(a) \/ IsGlobal(b)
           \/ areas /\ svc_area_overlap(a, b)
           \/ ext /\ ext_svc_area_overlap(a, b)
        THEN mbs_session_ordering(a, b)
        ELSE IF areas THEN svc_area_ordering(a, b)
        ELSE IF ext THEN ext_svc_area_ordering(a, b)
        ELSE IF HasServiceArea(a) THEN Greater ELSE Less

\* What equality is to mean: "MBS Session Id's only need to be unique within
\* the same area" (UniqueMBSSessionId.hh).
Clash(a, b) ==
    /\ mbs_session_ordering(a, b) = Equal
    /\ \/ IsGlobal(a) \/ IsGlobal(b)
       \/ svc_area_overlap(a, b) \/ ext_svc_area_overlap(a, b)

\* Areas that overlap are compared by their ids, others by the areas: ids may be
\* less than each other in a circle.
Cyclic(set) == \E a, b, c \in set : /\ Compare(a, b) = Less /\ Compare(b, c) = Less
                                    /\ Compare(a, c) # Less

-----------------------------------------------------------------------------
(* std::set: a search tree, given by the sequence of its elements from left *)
(* to right.  A search goes left or right at any elements in any order, as *)
(* the tree's shape depends on the library and the history, and ends       *)
(* between two of them.                                                    *)

\* The places where a search may end: at the first element that is not less, or
\* at the first that is greater, as far as the search has seen
lower_bound(set, id) ==
    {p \in 1..(Len(set) + 1) : /\ p > 1 => Compare(set[p - 1], id) = Less
                               /\ p <= Len(set) => Compare(set[p], id) # Less}
upper_bound(set, id) ==
    {p \in 1..(Len(set) + 1) : /\ p > 1 => Compare(id, set[p - 1]) # Less
                               /\ p <= Len(set) => Compare(id, set[p]) = Less}

\* contains: the possible answers
SetContains(set, id) ==
    {p <= Len(set) /\ Compare(id, set[p]) # Less : p \in lower_bound(set, id)}

\* insert: the possible trees
SetInsert(set, id) ==
    {IF p > 1 /\ Compare(set[p - 1], id) # Less THEN set ELSE InsertAt(set, p, id)
        : p \in upper_bound(set, id)}

\* erase, of an id that was found: from the lower to the upper bound, on the two
\* sides of an element that is equal
SetErase(set, id) ==
    {SubSeq(set, 1, r[1] - 1) \o SubSeq(set, r[2], Len(set)) :
        r \in {b \in lower_bound(set, id) \X upper_bound(set, id) :
                 \E m \in b[1]..(b[2] - 1) : Compare(set[m], id) = Equal}}
=============================================================================
