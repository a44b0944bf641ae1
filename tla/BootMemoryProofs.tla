--------------------------- MODULE BootMemoryProofs ---------------------------
(***************************************************************************)
(* The bootloader's memory map for any tidy firmware list and boot image,  *)
(* any page size and any capacity of the map.                              *)
(*                                                                         *)
(* The order of a map is what makes everything else true: allocate_frame   *)
(* and the trim look at the next region only, and mark_allocated_region at *)
(* the first that overlaps.  So the lemmas on the operations of MemoryMap  *)
(* say of each that it keeps the map Ordered, and which frames change      *)
(* hands (Claims).  That sort returns what was put in, in order, is shown  *)
(* by counting: the places of two regions differ, so all places are taken. *)
(* BInv then follows the list from the firmware's answers (Stored) over    *)
(* the regions that may still overlap (Gathered) to the ordered map.       *)
(***************************************************************************)
EXTENDS BootMemory, FiniteSetTheorems, TLAPS

-----------------------------------------------------------------------------
(* Sets of natural numbers. *)

(* A set of natural numbers that is not empty has a least element. *)
LEMMA MinIs ==
    ASSUME NEW S, S \subseteq Nat, S # {}
    PROVE  Min(S) \in S /\ \A x \in S : Min(S) <= x
<1> DEFINE R == OpToRel(<, Nat)
<1>1. \E x \in S : \A y \in S : ~ (<<y, x>> \in R)
  <2>1. IsWellFoundedOn(R, Nat)
    BY NatLessThanWellFounded
  <2> HIDE DEF R
  <2> QED
    BY <2>1, WFMin
<1>2. \A x, y \in Nat : <<y, x>> \in R <=> y < x
  BY DEF OpToRel
<1> HIDE DEF R
<1>3. \E x \in S : \A y \in S : x <= y
  <2>1. PICK x \in S : \A y \in S : ~ (<<y, x>> \in R)
    BY <1>1
  <2>2. ASSUME NEW y \in S PROVE x <= y
    <3>1. x \in Nat /\ y \in Nat
      OBVIOUS
    <3>2. ~ (y < x)
      BY <1>2, <2>1, <3>1
    <3> QED
      BY <3>1, <3>2
  <2> QED
    BY <2>2
<1> QED
  BY <1>3 DEF Min

(* A bounded one has a greatest element. *)
LEMMA MaxIs ==
    ASSUME NEW S, NEW n \in Nat, S \subseteq 0 .. n, S # {}
    PROVE  Max(S) \in S /\ \A x \in S : x <= Max(S)
<1> DEFINE T == {n - x : x \in S}
<1>1. \A x \in S : x \in Nat /\ n - x \in Nat
  OBVIOUS
<1>2. Min(T) \in T /\ \A y \in T : Min(T) <= y
  <2>1. T \subseteq Nat /\ T # {}
    BY <1>1
  <2> HIDE DEF T
  <2> QED
    BY <2>1, MinIs
<1>3. PICK m \in S : Min(T) = n - m
  BY <1>2
<1>4. ASSUME NEW x \in S PROVE x <= m
  <2>1. n - m <= n - x
    BY <1>2, <1>3
  <2> QED
    BY <1>1, <2>1
<1>5. \E m_1 \in S : \A x \in S : m_1 >= x
  BY <1>4
<1> QED
  BY <1>5 DEF Max

(* The numbers from 1 to n are n. *)
LEMMA IntervalFinite ==
    ASSUME NEW n \in Nat
    PROVE  IsFiniteSet(1 .. n) /\ Cardinality(1 .. n) = n
<1>1. 1 \in Int /\ n \in Int
  OBVIOUS
<1>2. IsFiniteSet(1 .. n) /\ Cardinality(1 .. n) = IF 1 > n THEN 0 ELSE n - 1 + 1
  BY <1>1, FS_Interval
<1>3. (IF 1 > n THEN 0 ELSE n - 1 + 1) = n
  OBVIOUS
<1> QED
  BY <1>2, <1>3

-----------------------------------------------------------------------------
(* MemoryMap::sort. *)

RegionType ==
    {"Usable", "Reserved", "AcpiReclaimable", "AcpiNvs", "BadMemory", "FrameZero", "Bootloader"}
        \cup Allocated
Region == [start : Nat, end : Nat, type : RegionType]

(* The order of the regions that are kept is total. *)
LEMMA PrecedesOrders ==
    ASSUME NEW map \in Seq(Region), NEW i \in Kept(map), NEW j \in Kept(map), NEW k \in Kept(map)
    PROVE  /\ ~ Precedes(map, i, i)
           /\ i # j => Precedes(map, i, j) \/ Precedes(map, j, i)
           /\ Precedes(map, i, j) /\ Precedes(map, j, k) => Precedes(map, i, k)
<1>1. i \in Nat /\ j \in Nat /\ k \in Nat
  BY DEF Kept
<1>2. /\ map[i].start \in Nat /\ map[i].end \in Nat
      /\ map[j].start \in Nat /\ map[j].end \in Nat
      /\ map[k].start \in Nat /\ map[k].end \in Nat
  <2>1. map[i] \in Region /\ map[j] \in Region /\ map[k] \in Region
    BY DEF Kept
  <2> QED
    BY <2>1 DEF Region
<1>3. ~ Precedes(map, i, i)
  BY <1>1, <1>2 DEF Precedes, Before
<1>4. i # j => Precedes(map, i, j) \/ Precedes(map, j, i)
  BY <1>1, <1>2 DEF Precedes
<1>5. ASSUME Precedes(map, i, j), Precedes(map, j, k) PROVE Precedes(map, i, k)
  <2> DEFINE a == map[i].start
             b == map[j].start
             c == map[k].start
             x == map[i].end
             y == map[j].end
             z == map[k].end
  <2>1. a < b \/ (a = b /\ (x < y \/ (x = y /\ i < j)))
    BY <1>1, <1>2, <1>5 DEF Precedes, Before
  <2>4. b < c \/ (b = c /\ (y < z \/ (y = z /\ j < k)))
    BY <1>1, <1>2, <1>5 DEF Precedes, Before
  <2>2. a \in Nat /\ b \in Nat /\ c \in Nat /\ x \in Nat /\ y \in Nat /\ z \in Nat
    BY <1>2
  <2>3. Precedes(map, i, k) <=> (a < c \/ (a = c /\ (x < z \/ (x = z /\ i < k))))
    <3>1. /\ Before(map[i], map[k]) <=> a < c \/ (a = c /\ x < z)
          /\ Before(map[k], map[i]) <=> c < a \/ (c = a /\ z < x)
      BY DEF Before
    <3>2. Precedes(map, i, k) <=> Before(map[i], map[k]) \/ (~ Before(map[k], map[i]) /\ i < k)
      BY DEF Precedes
    <3> HIDE DEF a, b, c, x, y, z
    <3> QED
      BY <1>1, <2>2, <3>1, <3>2
  <2> HIDE DEF a, b, c, x, y, z
  <2> QED
    BY <1>1, <2>1, <2>2, <2>3, <2>4
<1> QED
  BY <1>3, <1>4, <1>5

(* The kept regions are finitely many. *)
LEMMA KeptFinite ==
    ASSUME NEW map \in Seq(Region)
    PROVE  /\ Kept(map) \subseteq 1 .. Len(map)
           /\ IsFiniteSet(Kept(map)) /\ Cardinality(Kept(map)) \in Nat
           /\ Cardinality(Kept(map)) <= Len(map)
<1>1. Kept(map) \subseteq 1 .. Len(map) /\ Len(map) \in Nat
  BY DEF Kept
<1>2. IsFiniteSet(1 .. Len(map)) /\ Cardinality(1 .. Len(map)) = Len(map)
  BY <1>1, IntervalFinite
<1> QED
  BY <1>1, <1>2, FS_Subset, FS_CardinalityType

(* sort returns the regions that are not empty, each one once, and none    *)
(* before a smaller one.                                                   *)
LEMMA SortIs ==
    ASSUME NEW map \in Seq(Region)
    PROVE  /\ sort(map) \in Seq(Region)
           /\ Len(sort(map)) <= Len(map)
           /\ \E p \in [1 .. Len(sort(map)) -> Kept(map)] :
                 /\ \A i, j \in 1 .. Len(sort(map)) : p[i] = p[j] => i = j
                 /\ \A i \in Kept(map) : \E k \in 1 .. Len(sort(map)) : p[k] = i
                 /\ \A k \in 1 .. Len(sort(map)) : sort(map)[k] = map[p[k]]
           /\ \A i, j \in 1 .. Len(sort(map)) :
                 i < j => ~ Before(sort(map)[j], sort(map)[i])
<1> DEFINE kept == Kept(map)
           n == Cardinality(kept)
           Below(i) == {j \in kept : Precedes(map, j, i)}
           place == [i \in kept |-> Cardinality(Below(i)) + 1]
           placed == {<<Cardinality(Below(i)) + 1, map[i]>> : i \in kept}
           s == [k \in 1 .. n |-> (CHOOSE p \in placed : p[1] = k)[2]]
<1>1. kept \subseteq 1 .. Len(map) /\ IsFiniteSet(kept) /\ n \in Nat /\ n <= Len(map)
  BY KeptFinite
<1>2. \A i \in kept : map[i] \in Region
  BY <1>1
<1>3. sort(map) = s
  <2>1. sort(map) = Sorted(map)
    BY DEF sort
  <2>2. Sorted(map) = s
    BY DEF Sorted
  <2> QED
    BY <2>1, <2>2
<1> HIDE DEF kept, n
<1>4. \A i \in kept : IsFiniteSet(Below(i)) /\ Cardinality(Below(i)) \in Nat
                      /\ Cardinality(Below(i)) < n
  <2> SUFFICES ASSUME NEW i \in kept
               PROVE  IsFiniteSet(Below(i)) /\ Cardinality(Below(i)) \in Nat
                      /\ Cardinality(Below(i)) < n
    OBVIOUS
  <2>1. Below(i) \in SUBSET kept /\ i \notin Below(i)
    BY PrecedesOrders DEF kept
  <2> HIDE DEF Below
  <2>2. /\ IsFiniteSet(Below(i)) /\ Cardinality(Below(i)) <= Cardinality(kept)
        /\ Cardinality(kept) = Cardinality(Below(i)) => kept = Below(i)
    BY <1>1, <2>1, FS_Subset
  <2>3. Cardinality(Below(i)) \in Nat
    BY <2>2, FS_CardinalityType
  <2> QED
    BY <1>1, <2>1, <2>2, <2>3 DEF n
<1>5. ASSUME NEW i \in kept, NEW j \in kept, Precedes(map, i, j)
      PROVE  Cardinality(Below(i)) < Cardinality(Below(j))
  <2>1. Below(i) \in SUBSET Below(j) /\ i \in Below(j) /\ i \notin Below(i)
    BY <1>5, PrecedesOrders DEF kept
  <2>2. IsFiniteSet(Below(j)) /\ Cardinality(Below(j)) \in Nat /\ Cardinality(Below(i)) \in Nat
    BY <1>4
  <2> HIDE DEF Below
  <2>3. /\ Cardinality(Below(i)) <= Cardinality(Below(j))
        /\ Cardinality(Below(j)) = Cardinality(Below(i)) => Below(j) = Below(i)
    BY <2>1, <2>2, FS_Subset
  <2> QED
    BY <2>1, <2>2, <2>3
<1> HIDE DEF Below
<1>6. place \in [kept -> 1 .. n] /\ \A i \in kept : place[i] = Cardinality(Below(i)) + 1
  BY <1>1, <1>4
<1>7. \A i, j \in kept : Precedes(map, i, j) => place[i] < place[j]
  BY <1>4, <1>5, <1>6
<1> HIDE DEF place
<1>8. \A i, j \in kept : place[i] = place[j] => i = j
  <2>1. \A i, j \in kept : i # j => Precedes(map, i, j) \/ Precedes(map, j, i)
    BY PrecedesOrders DEF kept
  <2>2. \A i \in kept : place[i] \in Int
    BY <1>6
  <2> QED
    BY <1>7, <2>1, <2>2
<1>9. \A k \in 1 .. n : \E i \in kept : place[i] = k
  <2>1. place \in Injection(kept, 1 .. n)
    BY <1>6, <1>8 DEF Injection, IsInjective
  <2>2. IsFiniteSet(1 .. n) /\ Cardinality(1 .. n) = n
    BY <1>1, IntervalFinite
  <2>3. place \in Surjection(kept, 1 .. n)
    BY <2>1, <2>2, FS_Injection DEF n
  <2> QED
    BY <2>3 DEF Surjection
<1> DEFINE p == [k \in 1 .. n |-> CHOOSE i \in kept : place[i] = k]
<1>10. p \in [1 .. n -> kept] /\ \A k \in 1 .. n : place[p[k]] = k
  BY <1>9
<1> HIDE DEF p
<1>11. \A k \in 1 .. n : s[k] = map[p[k]]
  <2> SUFFICES ASSUME NEW k \in 1 .. n PROVE s[k] = map[p[k]]
    OBVIOUS
  <2> DEFINE pr == CHOOSE q \in placed : q[1] = k
  <2>1. <<place[p[k]], map[p[k]]>> \in placed /\ place[p[k]] = k
    BY <1>6, <1>10
  <2>2. pr \in placed /\ pr[1] = k
    <3>1. \E q \in placed : q[1] = k
      BY <2>1
    <3> HIDE DEF placed
    <3> QED
      BY <3>1
  <2>3. PICK i \in kept : pr = <<place[i], map[i]>>
    BY <1>6, <2>2
  <2> HIDE DEF pr
  <2>4. i = p[k]
    BY <1>8, <1>10, <2>2, <2>3
  <2>5. s[k] = pr[2]
    BY DEF pr
  <2> QED
    BY <2>3, <2>4, <2>5
<1>12. s \in Seq(Region) /\ Len(s) = n
  <2>1. \A k \in 1 .. n : s[k] \in Region
    BY <1>2, <1>10, <1>11
  <2>2. s = [k \in 1 .. n |-> s[k]]
    OBVIOUS
  <2> HIDE DEF s
  <2>3. s \in [1 .. n -> Region]
    BY <2>1, <2>2
  <2> QED
    BY <1>1, <2>3
<1> HIDE DEF s
<1>13. \A i, j \in 1 .. n : p[i] = p[j] => i = j
  BY <1>10
<1>14. \A i \in kept : \E k \in 1 .. n : p[k] = i
  BY <1>6, <1>8, <1>10
<1>15. ASSUME NEW i \in 1 .. n, NEW j \in 1 .. n, i < j PROVE ~ Before(s[j], s[i])
  <2>1. p[i] \in kept /\ p[j] \in kept /\ place[p[i]] = i /\ place[p[j]] = j
    BY <1>10
  <2>2. ~ Precedes(map, p[j], p[i])
    <3>1. Precedes(map, p[j], p[i]) => place[p[j]] < place[p[i]]
      BY <1>7, <2>1
    <3>2. i \in Int /\ j \in Int
      OBVIOUS
    <3> QED
      BY <1>15, <2>1, <3>1, <3>2
  <2> QED
    BY <1>11, <2>2 DEF Precedes
<1>16. p \in [1 .. Len(s) -> kept]
  BY <1>10, <1>12
<1> QED
  BY <1>1, <1>3, <1>11, <1>12, <1>13, <1>14, <1>15, <1>16 DEF kept

-----------------------------------------------------------------------------
(* What a map says of the frames. *)

(* No border passes another: the order create_from makes and allocate_frame*)
(* relies on when it looks at the next region only.                        *)
Ordered(map) ==
    /\ \A i \in DOMAIN map : map[i].start <= map[i].end
    /\ \A i, j \in DOMAIN map : i < j => map[i].end <= map[j].start

Apart(r1, r2) == is_empty(r1) \/ is_empty(r2) \/ r1.end <= r2.start \/ r2.end <= r1.start

(* The same without the order. *)
Separated(map) ==
    /\ \A i \in DOMAIN map : map[i].start <= map[i].end
    /\ \A i, j \in DOMAIN map : i # j => Apart(map[i], map[j])

Owns(map, f, type) == \E i \in DOMAIN map : map[i].type = type /\ f \in Frames(map[i])

Borders(map) == {map[i].start : i \in DOMAIN map} \cup {map[i].end : i \in DOMAIN map}

(* The fields of a region. *)
LEMMA RegionFields ==
    ASSUME NEW map \in Seq(Region), NEW i \in DOMAIN map
    PROVE  /\ map[i] \in Region
           /\ map[i].start \in Nat /\ map[i].end \in Nat /\ map[i].type \in RegionType
<1>1. map[i] \in Region
  OBVIOUS
<1> QED
  BY <1>1 DEF Region

(* A region with a border elsewhere. *)
LEMMA BorderMoves ==
    ASSUME NEW r \in Region, NEW n \in Nat
    PROVE  /\ [r EXCEPT !.start = n] \in Region /\ [r EXCEPT !.start = n].start = n
           /\ [r EXCEPT !.start = n].end = r.end /\ [r EXCEPT !.start = n].type = r.type
           /\ [r EXCEPT !.end = n] \in Region /\ [r EXCEPT !.end = n].end = n
           /\ [r EXCEPT !.end = n].start = r.start /\ [r EXCEPT !.end = n].type = r.type
BY DEF Region

(* An ordered map is separated. *)
LEMMA OrderedSeparates ==
    ASSUME NEW map \in Seq(Region), Ordered(map)
    PROVE  Separated(map)
<1>1. \A i, j \in DOMAIN map : i # j => i < j \/ j < i
  OBVIOUS
<1> QED
  BY <1>1 DEF Ordered, Separated, Apart

(* The regions of a sorted map are the regions that are not empty. *)
LEMMA SortKeeps ==
    ASSUME NEW map \in Seq(Region)
    PROVE  /\ \A k \in DOMAIN sort(map) : \E i \in Kept(map) : sort(map)[k] = map[i]
           /\ \A i \in Kept(map) : \E k \in DOMAIN sort(map) : sort(map)[k] = map[i]
<1>1. PICK p \in [1 .. Len(sort(map)) -> Kept(map)] :
         /\ \A i \in Kept(map) : \E k \in 1 .. Len(sort(map)) : p[k] = i
         /\ \A k \in 1 .. Len(sort(map)) : sort(map)[k] = map[p[k]]
  BY SortIs
<1>2. DOMAIN sort(map) = 1 .. Len(sort(map))
  BY SortIs
<1> QED
  BY <1>1, <1>2

(* Sorting regions that do not overlap puts them in order. *)
LEMMA SortOrders ==
    ASSUME NEW map \in Seq(Region), Separated(map)
    PROVE  Ordered(sort(map))
<1> DEFINE s == sort(map)
<1>1. s \in Seq(Region) /\ DOMAIN s = 1 .. Len(s)
  BY SortIs
<1>2. PICK p \in [1 .. Len(s) -> Kept(map)] :
         /\ \A i, j \in 1 .. Len(s) : p[i] = p[j] => i = j
         /\ \A k \in 1 .. Len(s) : s[k] = map[p[k]]
  BY SortIs
<1>3. \A i, j \in 1 .. Len(s) : i < j => ~ Before(s[j], s[i])
  BY SortIs
<1>4. Kept(map) \subseteq DOMAIN map /\ \A i \in Kept(map) : ~ is_empty(map[i])
  BY DEF Kept
<1> HIDE DEF s
<1>5. \A k \in DOMAIN s : s[k].start < s[k].end
  <2> SUFFICES ASSUME NEW k \in DOMAIN s PROVE s[k].start < s[k].end
    OBVIOUS
  <2>1. p[k] \in DOMAIN map /\ ~ is_empty(map[p[k]]) /\ s[k] = map[p[k]]
    BY <1>1, <1>2, <1>4
  <2>2. map[p[k]].start \in Nat /\ map[p[k]].end \in Nat
    BY <2>1, RegionFields
  <2> QED
    BY <2>1, <2>2 DEF Separated, is_empty
<1>6. ASSUME NEW i \in DOMAIN s, NEW j \in DOMAIN s, i < j
      PROVE  s[i].end <= s[j].start
  <2>1. /\ s[i].start \in Nat /\ s[i].end \in Nat
        /\ s[j].start \in Nat /\ s[j].end \in Nat
    BY <1>1, RegionFields
  <2>2. i # j
    BY <1>1, <1>6
  <2>3. p[i] \in DOMAIN map /\ p[j] \in DOMAIN map /\ p[i] # p[j]
    BY <1>1, <1>2, <1>4, <2>2
  <2>4. Apart(map[p[i]], map[p[j]])
    BY <2>3 DEF Separated
  <2>5. Apart(s[i], s[j])
    BY <1>1, <1>2, <2>4
  <2>6. s[i].end <= s[j].start \/ s[j].end <= s[i].start
    BY <1>5, <2>1, <2>5 DEF Apart, is_empty
  <2>7. ~ Before(s[j], s[i])
    BY <1>1, <1>3, <1>6
  <2>8. s[i].start <= s[j].start
    BY <2>1, <2>7 DEF Before
  <2>9. s[j].start < s[j].end
    BY <1>5
  <2> QED
    BY <2>1, <2>6, <2>8, <2>9
<1>7. \A k \in DOMAIN s : s[k].start <= s[k].end
  <2>1. \A k \in DOMAIN s : s[k].start \in Nat /\ s[k].end \in Nat
    BY <1>1, RegionFields
  <2> QED
    BY <1>5, <2>1
<1> QED
  BY <1>6, <1>7 DEF Ordered, s

(* An empty region owns no frame, so sorting changes no owner. *)
LEMMA SortOwners ==
    ASSUME NEW map \in Seq(Region), NEW f, NEW type
    PROVE  Owns(sort(map), f, type) <=> Owns(map, f, type)
<1>1. ASSUME NEW i \in DOMAIN map, f \in Frames(map[i]) PROVE i \in Kept(map)
  <2>1. map[i].start \in Nat /\ map[i].end \in Nat
    BY RegionFields
  <2>2. Frames(map[i]) = map[i].start .. map[i].end - 1
    BY DEF Frames
  <2>3. map[i].start # map[i].end
    BY <1>1, <2>1, <2>2
  <2> QED
    BY <2>3 DEF Kept, is_empty
<1>2. Kept(map) \subseteq DOMAIN map
  BY DEF Kept
<1> QED
  BY <1>1, <1>2, SortKeeps DEF Owns

(* add_region with a region that has its place in the map: the result is   *)
(* in order, has the regions of both and the owners of both.               *)
LEMMA AddRegionIs ==
    ASSUME NEW map \in Seq(Region), Separated(map), MAX_MEMORY_MAP_SIZE \in Nat,
           NEW region \in Region, region.start < region.end,
           \A i \in DOMAIN map : Apart(map[i], region),
           NEW r, r = add_region(map, region), r.outcome # "panic"
    PROVE  /\ r.outcome = "ok"
           /\ r.map \in Seq(Region) /\ Len(r.map) <= MAX_MEMORY_MAP_SIZE
           /\ Ordered(r.map)
           /\ \A k \in DOMAIN r.map : r.map[k] = region \/ \E i \in DOMAIN map : r.map[k] = map[i]
           /\ \A f, type : Owns(r.map, f, type) <=>
                 Owns(map, f, type) \/ (type = region.type /\ f \in Frames(region))
<1> DEFINE both == Append(map, region)
<1>1. /\ both \in Seq(Region) /\ Len(both) = Len(map) + 1
      /\ DOMAIN both = 1 .. Len(map) + 1 /\ DOMAIN map = 1 .. Len(map)
      /\ \A i \in 1 .. Len(map) : both[i] = map[i]
      /\ both[Len(map) + 1] = region
  OBVIOUS
<1>2. r = Result("ok", sort(both), NoFrame) /\ Len(map) < MAX_MEMORY_MAP_SIZE
  BY DEF add_region, Result
<1>3. r.outcome = "ok" /\ r.map = sort(both)
  BY <1>2 DEF Result
<1> HIDE DEF both
<1>4. Len(map) \in Nat
  OBVIOUS
<1>5. Separated(both)
  <2>1. \A i \in DOMAIN both : both[i].start <= both[i].end
    <3>1. region.start \in Nat /\ region.end \in Nat
      BY DEF Region
    <3>2. region.start <= region.end
      BY <3>1
    <3> QED
      BY <1>1, <1>4, <3>2 DEF Separated
  <2>2. ASSUME NEW i \in DOMAIN both, NEW j \in DOMAIN both, i # j
        PROVE  Apart(both[i], both[j])
    <3>1. CASE i \in DOMAIN map /\ j \in DOMAIN map
      BY <1>1, <2>2, <3>1 DEF Separated
    <3>2. CASE i = Len(map) + 1 /\ j \in DOMAIN map
      BY <1>1, <3>2 DEF Apart
    <3>3. CASE i \in DOMAIN map /\ j = Len(map) + 1
      BY <1>1, <3>3
    <3> QED
      BY <1>1, <1>4, <2>2, <3>1, <3>2, <3>3
  <2> QED
    BY <2>1, <2>2 DEF Separated
<1>6. sort(both) \in Seq(Region) /\ Len(sort(both)) <= MAX_MEMORY_MAP_SIZE
  <2>1. sort(both) \in Seq(Region) /\ Len(sort(both)) <= Len(both)
    BY <1>1, SortIs
  <2>2. Len(sort(both)) \in Nat
    BY <2>1
  <2> QED
    BY <1>1, <1>2, <1>4, <2>1, <2>2
<1>7. Ordered(sort(both))
  BY <1>1, <1>5, SortOrders
<1>8. ASSUME NEW k \in DOMAIN sort(both)
      PROVE  sort(both)[k] = region \/ \E i \in DOMAIN map : sort(both)[k] = map[i]
  <2>1. PICK i \in DOMAIN both : sort(both)[k] = both[i]
    BY <1>1, SortKeeps DEF Kept
  <2> QED
    BY <1>1, <1>4, <2>1
<1>9. ASSUME NEW f, NEW type
      PROVE  Owns(sort(both), f, type) <=>
                 Owns(map, f, type) \/ (type = region.type /\ f \in Frames(region))
  <2>1. Owns(sort(both), f, type) <=> Owns(both, f, type)
    BY <1>1, SortOwners
  <2>2. DOMAIN both = DOMAIN map \cup {Len(map) + 1}
    BY <1>1, <1>4
  <2>3. Owns(both, f, type) <=>
           Owns(map, f, type) \/ (type = region.type /\ f \in Frames(region))
    BY <1>1, <2>2 DEF Owns
  <2> QED
    BY <2>1, <2>3
<1> QED
  BY <1>3, <1>6, <1>7, <1>8, <1>9

-----------------------------------------------------------------------------
(* Borders that move, and regions that change hands. *)

(* The frames of S go to an owner; the others keep theirs. *)
Claims(map, map2, S, o) ==
    \A f, type : Owns(map2, f, type) <=>
        (f \in S /\ type = o) \/ (f \notin S /\ Owns(map, f, type))

(* A usable region in an ordered map has its frames for itself. *)
LEMMA OneOwner ==
    ASSUME NEW map \in Seq(Region), Ordered(map),
           NEW i \in DOMAIN map, NEW j \in DOMAIN map,
           NEW f \in Frames(map[i]), f \in Frames(map[j])
    PROVE  i = j
<1>1. /\ map[i].start \in Nat /\ map[i].end \in Nat
      /\ map[j].start \in Nat /\ map[j].end \in Nat
  BY RegionFields
<1>2. i \in Nat /\ j \in Nat
  OBVIOUS
<1>3. f \in map[i].start .. map[i].end - 1 /\ f \in map[j].start .. map[j].end - 1
  BY DEF Frames
<1>4. ~ (map[i].end <= map[j].start) /\ ~ (map[j].end <= map[i].start)
  BY <1>1, <1>3
<1> QED
  BY <1>2, <1>4 DEF Ordered

(* A region that is replaced by a part of itself leaves the order, and     *)
(* gives up the rest of its frames.                                        *)
LEMMA ShrinkIs ==
    ASSUME NEW map \in Seq(Region), Ordered(map), NEW i \in DOMAIN map,
           NEW r \in Region, map[i].start <= r.start, r.start <= r.end, r.end <= map[i].end,
           NEW map2, map2 = [map EXCEPT ![i] = r]
    PROVE  /\ map2 \in Seq(Region) /\ Len(map2) = Len(map) /\ DOMAIN map2 = DOMAIN map
           /\ Ordered(map2)
           /\ r.type = map[i].type =>
                \A f, type : Owns(map2, f, type) <=>
                    Owns(map, f, type) /\ ~ (f \in Frames(map[i]) /\ f \notin Frames(r))
<1>1. /\ map2 \in Seq(Region) /\ Len(map2) = Len(map) /\ DOMAIN map2 = DOMAIN map
      /\ map2[i] = r /\ \A k \in DOMAIN map : k # i => map2[k] = map[k]
  OBVIOUS
<1>2. \A k \in DOMAIN map : map[k].start \in Nat /\ map[k].end \in Nat
  BY RegionFields
<1>3. r.start \in Nat /\ r.end \in Nat
  BY DEF Region
<1>4. Ordered(map2)
  <2>1. ASSUME NEW k \in DOMAIN map PROVE map2[k].start <= map2[k].end
    BY <1>1 DEF Ordered
  <2>2. ASSUME NEW k \in DOMAIN map, NEW l \in DOMAIN map, k < l
        PROVE  map2[k].end <= map2[l].start
    <3>1. map[k].end <= map[l].start
      BY <2>2 DEF Ordered
    <3>2. map2[k].end <= map[k].end /\ map2[k].end \in Nat
      BY <1>1, <1>2, <1>3
    <3>3. map[l].start <= map2[l].start /\ map2[l].start \in Nat
      BY <1>1, <1>2, <1>3
    <3> QED
      BY <1>2, <3>1, <3>2, <3>3
  <2> QED
    BY <1>1, <2>1, <2>2 DEF Ordered
<1>5. Frames(r) \subseteq Frames(map[i])
  BY <1>2, <1>3 DEF Frames
<1>6. ASSUME r.type = map[i].type, NEW f, NEW type
      PROVE  Owns(map2, f, type) <=>
                Owns(map, f, type) /\ ~ (f \in Frames(map[i]) /\ f \notin Frames(r))
  <2>1. ASSUME Owns(map2, f, type)
        PROVE  Owns(map, f, type) /\ ~ (f \in Frames(map[i]) /\ f \notin Frames(r))
    <3>1. PICK k \in DOMAIN map : map2[k].type = type /\ f \in Frames(map2[k])
      BY <1>1, <2>1 DEF Owns
    <3>2. CASE k = i
      BY <1>1, <1>5, <1>6, <3>1, <3>2 DEF Owns
    <3>3. CASE k # i
      <4>1. map[k].type = type /\ f \in Frames(map[k])
        BY <1>1, <3>1, <3>3
      <4>2. f \notin Frames(map[i])
        BY <3>3, <4>1, OneOwner
      <4> QED
        BY <4>1, <4>2 DEF Owns
    <3> QED
      BY <3>2, <3>3
  <2>2. ASSUME Owns(map, f, type), ~ (f \in Frames(map[i]) /\ f \notin Frames(r))
        PROVE  Owns(map2, f, type)
    <3>1. PICK k \in DOMAIN map : map[k].type = type /\ f \in Frames(map[k])
      BY <2>2 DEF Owns
    <3>2. map2[k].type = type /\ f \in Frames(map2[k])
      BY <1>1, <1>6, <2>2, <3>1
    <3> QED
      BY <1>1, <3>2 DEF Owns
  <2> QED
    BY <2>1, <2>2
<1> QED
  BY <1>1, <1>4, <1>6

(* A usable region that goes to another owner as a whole. *)
LEMMA ReplaceIs ==
    ASSUME NEW map \in Seq(Region), Ordered(map), NEW i \in DOMAIN map,
           NEW r \in Region, r.start = map[i].start, r.end = map[i].end,
           NEW map2, map2 = [map EXCEPT ![i] = r]
    PROVE  /\ map2 \in Seq(Region) /\ Len(map2) = Len(map) /\ DOMAIN map2 = DOMAIN map
           /\ Ordered(map2)
           /\ Claims(map, map2, Frames(r), r.type)
<1>1. /\ map2[i] = r /\ DOMAIN map2 = DOMAIN map
      /\ \A k \in DOMAIN map : k # i => map2[k] = map[k]
  OBVIOUS
<1>2. map[i].start \in Nat /\ map[i].end \in Nat /\ map[i].start <= map[i].end
  BY RegionFields DEF Ordered
<1>3. /\ map2 \in Seq(Region) /\ Len(map2) = Len(map) /\ DOMAIN map2 = DOMAIN map
      /\ Ordered(map2)
  <2>1. map[i].start <= r.start /\ r.start <= r.end /\ r.end <= map[i].end
    BY <1>2
  <2>2. map2 \in Seq(Region) /\ Len(map2) = Len(map) /\ DOMAIN map2 = DOMAIN map
    OBVIOUS
  <2>3. Ordered(map2)
    BY <2>1, ShrinkIs
  <2> QED
    BY <2>2, <2>3
<1>4. Frames(r) = Frames(map[i])
  BY DEF Frames
<1>5. ASSUME NEW f, NEW type
      PROVE  Owns(map2, f, type) <=>
                (f \in Frames(r) /\ type = r.type) \/ (f \notin Frames(r) /\ Owns(map, f, type))
  <2>1. CASE f \in Frames(r)
    <3>1. Owns(map2, f, r.type)
      BY <1>1, <2>1 DEF Owns
    <3>2. ASSUME Owns(map2, f, type) PROVE type = r.type
      <4>1. PICK k \in DOMAIN map : map2[k].type = type /\ f \in Frames(map2[k])
        BY <1>1, <3>2 DEF Owns
      <4>2. f \in Frames(map2[i])
        BY <1>1, <2>1
      <4>3. k = i
        BY <1>1, <1>3, <4>1, <4>2, OneOwner
      <4> QED
        BY <1>1, <4>1, <4>3
    <3> QED
      BY <2>1, <3>1, <3>2
  <2>2. CASE f \notin Frames(r)
    <3>1. \A k \in DOMAIN map :
             (map2[k].type = type /\ f \in Frames(map2[k])) <=> (map[k].type = type /\ f \in Frames(map[k]))
      BY <1>1, <1>4, <2>2
    <3> QED
      BY <1>1, <2>2, <3>1 DEF Owns
  <2> QED
    BY <2>1, <2>2
<1> QED
  BY <1>3, <1>5 DEF Claims

(* allocate_frame moves a border: the region in front of usable memory     *)
(* takes its first frame.                                                  *)
LEMMA EnlargeIs ==
    ASSUME NEW map \in Seq(Region), Ordered(map), NEW i \in DOMAIN map, i + 1 \in DOMAIN map,
           map[i + 1].start = map[i].end, map[i + 1].type = "Usable", ~ is_empty(map[i + 1]),
           NEW r, r = enlarge(map, i)
    PROVE  /\ r.outcome = "ok"
           /\ r.map \in Seq(Region) /\ Len(r.map) = Len(map)
           /\ Ordered(r.map)
           /\ Owns(map, map[i].end, "Usable")
           /\ Claims(map, r.map, {map[i].end}, map[i].type)
<1> DEFINE a == map[i]
           b == map[i + 1]
           n == map[i].end
           c == [a EXCEPT !.end = n + 1]
           d == [b EXCEPT !.start = n + 1]
           m == r.map
<1>1. /\ a \in Region /\ b \in Region /\ a.start \in Nat /\ n \in Nat
      /\ b.end \in Nat /\ a.type \in RegionType /\ b.type = "Usable"
      /\ b.start = n /\ a.end = n /\ a.start <= n /\ n < b.end
  <2>1. /\ a \in Region /\ b \in Region /\ a.start \in Nat /\ n \in Nat
        /\ b.end \in Nat /\ a.type \in RegionType
    BY RegionFields
  <2>2. a.start <= n /\ b.start <= b.end /\ b.start # b.end
    BY DEF Ordered, is_empty
  <2> QED
    BY <2>1, <2>2
<1>2. /\ c \in Region /\ c.start = a.start /\ c.end = n + 1 /\ c.type = a.type
      /\ d \in Region /\ d.start = n + 1 /\ d.end = b.end /\ d.type = "Usable"
  <2>1. a \in Region /\ b \in Region /\ n + 1 \in Nat
    BY <1>1
  <2> HIDE DEF a, b, n
  <2>2. c \in Region /\ c.start = a.start /\ c.end = n + 1 /\ c.type = a.type
    BY <2>1, BorderMoves
  <2>3. d \in Region /\ d.start = n + 1 /\ d.end = b.end /\ d.type = b.type
    BY <2>1, BorderMoves
  <2> QED
    BY <1>1, <2>2, <2>3
<1>3. i \in Nat /\ i # i + 1
  OBVIOUS
<1>4. r.outcome = "ok" /\ m = [map EXCEPT ![i] = c, ![i + 1] = d]
  BY <1>1, <1>3 DEF enlarge, Result
<1> HIDE DEF c, d, m
<1>5. /\ m \in Seq(Region) /\ Len(m) = Len(map) /\ DOMAIN m = DOMAIN map
      /\ m[i] = c /\ m[i + 1] = d
      /\ \A k \in DOMAIN map : k # i /\ k # i + 1 => m[k] = map[k]
  BY <1>2, <1>3, <1>4
<1>6. \A k \in DOMAIN map : map[k].start \in Nat /\ map[k].end \in Nat /\ k \in Nat
  BY RegionFields
<1>7. Ordered(m)
  <2>1. ASSUME NEW k \in DOMAIN map PROVE m[k].start <= m[k].end
    <3>1. c.start <= c.end /\ d.start <= d.end
      BY <1>1, <1>2
    <3> QED
      BY <1>5, <3>1 DEF Ordered
  <2>2. ASSUME NEW k \in DOMAIN map, NEW l \in DOMAIN map, k < l
        PROVE  m[k].end <= m[l].start
    <3>1. map[k].end <= map[l].start
      BY <2>2 DEF Ordered
    <3>2. CASE k = i /\ l = i + 1
      BY <1>1, <1>2, <1>5, <3>2
    <3>3. CASE k = i /\ l # i + 1
      <4>1. i + 1 < l /\ l # i
        BY <1>3, <1>6, <2>2, <3>3
      <4>2. b.end <= map[l].start
        BY <4>1 DEF Ordered
      <4>3. m[k] = c /\ m[l] = map[l]
        BY <1>5, <3>3, <4>1
      <4> QED
        BY <1>1, <1>2, <1>6, <4>2, <4>3
    <3>4. CASE k = i + 1
      <4>1. l # i /\ l # i + 1
        BY <1>3, <1>6, <2>2, <3>4
      <4> QED
        BY <1>2, <1>5, <3>1, <3>4, <4>1
    <3>5. CASE k # i /\ k # i + 1
      <4>1. m[k] = map[k]
        BY <1>5, <3>5
      <4>2. m[l].start \in Nat /\ map[l].start <= m[l].start
        <5>1. CASE l = i
          BY <1>1, <1>2, <1>5, <5>1
        <5>2. CASE l = i + 1
          BY <1>1, <1>2, <1>5, <5>2
        <5>3. CASE l # i /\ l # i + 1
          <6>1. m[l] = map[l]
            BY <1>5, <5>3
          <6> QED
            BY <1>6, <6>1
        <5> QED
          BY <5>1, <5>2, <5>3
      <4> QED
        BY <1>6, <3>1, <4>1, <4>2
    <3> QED
      BY <3>2, <3>3, <3>4, <3>5
  <2> QED
    BY <1>5, <2>1, <2>2 DEF Ordered
<1>8. n \in Frames(b)
  BY <1>1 DEF Frames
<1>9. Owns(map, n, "Usable")
  BY <1>8 DEF Owns
<1>10. ASSUME NEW f PROVE (f \in Frames(c) <=> f \in Frames(a) \/ f = n)
  BY <1>1, <1>2 DEF Frames
<1>11. ASSUME NEW f PROVE (f \in Frames(d) <=> f \in Frames(b) /\ f # n)
  BY <1>1, <1>2 DEF Frames
<1>12. ASSUME NEW f, NEW type
       PROVE  Owns(m, f, type) <=>
                (f \in {n} /\ type = a.type) \/ (f \notin {n} /\ Owns(map, f, type))
  <2>1. CASE f = n
    <3>1. Owns(m, f, a.type)
      BY <1>2, <1>5, <1>10, <2>1 DEF Owns
    <3>2. ASSUME Owns(m, f, type) PROVE type = a.type
      <4>1. PICK k \in DOMAIN map : m[k].type = type /\ f \in Frames(m[k])
        BY <1>5, <3>2 DEF Owns
      <4>2. f \in Frames(m[i])
        BY <1>5, <1>10, <2>1
      <4>3. k = i
        BY <1>5, <1>7, <4>1, <4>2, OneOwner
      <4> QED
        BY <1>2, <1>5, <4>1, <4>3
    <3> QED
      BY <2>1, <3>1, <3>2
  <2>2. CASE f # n
    <3>1. \A k \in DOMAIN map :
             (m[k].type = type /\ f \in Frames(m[k])) <=> (map[k].type = type /\ f \in Frames(map[k]))
      BY <1>1, <1>2, <1>5, <1>10, <1>11, <2>2
    <3> QED
      BY <1>5, <2>2, <3>1 DEF Owns
  <2> QED
    BY <2>1, <2>2
<1> QED
  BY <1>4, <1>5, <1>7, <1>9, <1>12 DEF Claims, m

(* A part of a region of an ordered map is apart from all that is left     *)
(* when that region keeps another part.                                    *)
LEMMA PartApart ==
    ASSUME NEW map \in Seq(Region), Ordered(map), NEW i \in DOMAIN map,
           NEW rest \in Region, NEW region \in Region,
           map[i].start <= region.start, region.end <= map[i].end,
           region.end <= rest.start \/ rest.end <= region.start
    PROVE  \A k \in DOMAIN map : Apart([map EXCEPT ![i] = rest][k], region)
<1> DEFINE m == [map EXCEPT ![i] = rest]
<1>1. m[i] = rest /\ \A k \in DOMAIN map : k # i => m[k] = map[k]
  OBVIOUS
<1> HIDE DEF m
<1>2. \A k \in DOMAIN map : map[k].start \in Nat /\ map[k].end \in Nat /\ k \in Nat
  BY RegionFields
<1>3. region.start \in Nat /\ region.end \in Nat
  BY DEF Region
<1>4. ASSUME NEW k \in DOMAIN map PROVE Apart(m[k], region)
  <2>1. CASE k = i
    BY <1>1, <2>1 DEF Apart
  <2>2. CASE k < i
    <3>1. map[k].end <= map[i].start /\ m[k] = map[k]
      BY <1>1, <1>2, <2>2 DEF Ordered
    <3> QED
      BY <1>2, <1>3, <3>1 DEF Apart
  <2>3. CASE i < k
    <3>1. map[i].end <= map[k].start /\ m[k] = map[k]
      BY <1>1, <1>2, <2>3 DEF Ordered
    <3> QED
      BY <1>2, <1>3, <3>1 DEF Apart
  <2> QED
    BY <1>2, <2>1, <2>2, <2>3
<1> QED
  BY <1>4 DEF m

(* A usable region gives the frames of a part of it to a new region: it    *)
(* keeps another part of itself, and the rest of its frames are the new    *)
(* region's.                                                               *)
LEMMA GiveIs ==
    ASSUME NEW map \in Seq(Region), Ordered(map), NEW i \in DOMAIN map,
           NEW rest \in Region, map[i].start <= rest.start, rest.start <= rest.end,
           rest.end <= map[i].end, rest.type = map[i].type,
           NEW region \in Region, map[i].start <= region.start, region.start < region.end,
           region.end <= map[i].end,
           region.end <= rest.start \/ rest.end <= region.start,
           \A f \in Frames(map[i]) : f \in Frames(rest) \/ f \in Frames(region),
           NEW r, r = add_region([map EXCEPT ![i] = rest], region), r.outcome # "panic"
    PROVE  /\ r.outcome = "ok"
           /\ r.map \in Seq(Region) /\ Len(r.map) <= MAX_MEMORY_MAP_SIZE
           /\ Ordered(r.map)
           /\ Claims(map, r.map, Frames(region), region.type)
           /\ Borders(r.map) \subseteq
                 Borders(map) \cup {region.start, region.end, rest.start, rest.end}
<1> DEFINE m == [map EXCEPT ![i] = rest]
<1>1. /\ m \in Seq(Region) /\ DOMAIN m = DOMAIN map /\ Ordered(m)
      /\ \A f, type : Owns(m, f, type) <=>
             Owns(map, f, type) /\ ~ (f \in Frames(map[i]) /\ f \notin Frames(rest))
  BY ShrinkIs
<1>2. m[i] = rest /\ \A k \in DOMAIN map : k # i => m[k] = map[k]
  OBVIOUS
<1>3. r = add_region(m, region)
  OBVIOUS
<1>4. \A k \in DOMAIN m : Apart(m[k], region)
  BY <1>1, PartApart
<1> HIDE DEF m
<1>5. Separated(m)
  BY <1>1, OrderedSeparates
<1>6. map[i].start \in Nat /\ map[i].end \in Nat
  BY RegionFields
<1>7. region.start \in Nat /\ region.end \in Nat /\ rest.start \in Nat /\ rest.end \in Nat
  BY DEF Region
<1>8. /\ r.outcome = "ok"
      /\ r.map \in Seq(Region) /\ Len(r.map) <= MAX_MEMORY_MAP_SIZE
      /\ Ordered(r.map)
      /\ \A k \in DOMAIN r.map : r.map[k] = region \/ \E j \in DOMAIN m : r.map[k] = m[j]
      /\ \A f, type : Owns(r.map, f, type) <=>
            Owns(m, f, type) \/ (type = region.type /\ f \in Frames(region))
  BY <1>1, <1>3, <1>4, <1>5, MapSizeAssumption, AddRegionIs
<1>9. ASSUME NEW f \in Frames(region) PROVE f \in Frames(map[i]) /\ f \notin Frames(rest)
  <2>1. f \in Int /\ region.start <= f /\ f < region.end
    BY <1>7 DEF Frames
  <2>2. map[i].start <= f /\ f < map[i].end
    BY <1>6, <1>7, <2>1
  <2>3. f < rest.start \/ rest.end <= f
    BY <1>7, <2>1
  <2> QED
    BY <1>6, <1>7, <2>1, <2>2, <2>3 DEF Frames
<1>10. ASSUME NEW f, NEW type
       PROVE  Owns(r.map, f, type) <=>
                \/ f \in Frames(region) /\ type = region.type
                \/ f \notin Frames(region) /\ Owns(map, f, type)
  BY <1>1, <1>8, <1>9
<1>11. ASSUME NEW k \in DOMAIN r.map
       PROVE  {r.map[k].start, r.map[k].end} \subseteq
                 Borders(map) \cup {region.start, region.end, rest.start, rest.end}
  <2>1. r.map[k] = region \/ r.map[k] = rest \/ \E j \in DOMAIN map : r.map[k] = map[j]
    BY <1>1, <1>2, <1>8
  <2> QED
    BY <2>1 DEF Borders
<1>12. Borders(r.map) \subseteq
          Borders(map) \cup {region.start, region.end, rest.start, rest.end}
  <2> DEFINE B == Borders(map) \cup {region.start, region.end, rest.start, rest.end}
  <2>1. \A k \in DOMAIN r.map : r.map[k].start \in B /\ r.map[k].end \in B
    BY <1>11
  <2> HIDE DEF B
  <2>2. ASSUME NEW b \in Borders(r.map) PROVE b \in B
    <3>1. PICK k \in DOMAIN r.map : b = r.map[k].start \/ b = r.map[k].end
      BY DEF Borders
    <3> QED
      BY <2>1, <3>1
  <2> QED
    BY <2>2 DEF B
<1> QED
  BY <1>8, <1>10, <1>12 DEF Claims

(* allocate_frame takes the first frame of a usable region for a region of *)
(* its own.                                                                *)
LEMMA SplitIs ==
    ASSUME NEW map \in Seq(Region), Ordered(map), NEW i \in Splittable(map),
           NEW type \in RegionType,
           NEW r, r = split(map, i, type), r.outcome # "panic"
    PROVE  /\ r.outcome = "ok"
           /\ r.map \in Seq(Region) /\ Len(r.map) <= MAX_MEMORY_MAP_SIZE
           /\ Ordered(r.map)
           /\ Owns(map, map[i].start, "Usable")
           /\ Claims(map, r.map, {map[i].start}, type)
<1> DEFINE n == map[i].start
           rest == [map[i] EXCEPT !.start = n + 1]
           region == MemoryRegion(n, n + 1, type)
           q == add_region([map EXCEPT ![i] = rest], region)
<1>1. i \in DOMAIN map /\ map[i].type = "Usable" /\ map[i].start # map[i].end
  BY DEF Splittable, is_empty
<1>2. /\ map[i] \in Region /\ n \in Nat /\ n + 1 \in Nat /\ map[i].end \in Nat
      /\ map[i].start <= map[i].end
  BY <1>1, RegionFields DEF Ordered
<1>3. /\ rest \in Region /\ rest.start = n + 1 /\ rest.end = map[i].end
      /\ rest.type = map[i].type
  <2> HIDE DEF n
  <2> QED
    BY <1>2, BorderMoves
<1>4. region \in Region /\ region.start = n /\ region.end = n + 1 /\ region.type = type
  BY <1>2 DEF Region, MemoryRegion
<1>5. r = [q EXCEPT !.frame = n]
  BY <1>1 DEF split
<1>6. q = Result(q.outcome, q.map, q.frame)
  BY DEF add_region, Result
<1>7. r.outcome = q.outcome /\ r.map = q.map
  <2> HIDE DEF q
  <2> QED
    BY <1>5, <1>6 DEF Result
<1>8. /\ map[i].start <= rest.start /\ rest.start <= rest.end /\ rest.end <= map[i].end
      /\ map[i].start <= region.start /\ region.start < region.end /\ region.end <= map[i].end
      /\ region.end <= rest.start
  BY <1>1, <1>2, <1>3, <1>4
<1>9. /\ Frames(region) = {n} /\ n \in Frames(map[i])
      /\ \A f \in Frames(map[i]) : f \in Frames(rest) \/ f \in Frames(region)
  <2> HIDE DEF rest, region
  <2>1. Frames(map[i]) = n .. map[i].end - 1 /\ Frames(rest) = n + 1 .. map[i].end - 1
    BY <1>3 DEF Frames
  <2>2. Frames(region) = region.start .. region.end - 1
    BY DEF Frames
  <2> HIDE DEF n
  <2>3. Frames(region) = {n}
    BY <1>2, <1>4, <2>2
  <2>4. n < map[i].end
    BY <1>1, <1>2 DEF n
  <2> QED
    BY <1>2, <2>1, <2>3, <2>4
<1>10. Owns(map, n, "Usable")
  BY <1>1, <1>9 DEF Owns
<1>11. /\ q.outcome = "ok"
       /\ q.map \in Seq(Region) /\ Len(q.map) <= MAX_MEMORY_MAP_SIZE
       /\ Ordered(q.map)
       /\ Claims(map, q.map, Frames(region), region.type)
  <2>1. q.outcome # "panic"
    BY <1>7
  <2>2. q = add_region([map EXCEPT ![i] = rest], region)
    OBVIOUS
  <2>3. \A f \in Frames(map[i]) : f \in Frames(rest) \/ f \in Frames(region)
    BY <1>9
  <2>4. i \in DOMAIN map /\ rest \in Region /\ region \in Region /\ rest.type = map[i].type
    BY <1>1, <1>3, <1>4
  <2> HIDE DEF rest, region, n, q
  <2> QED
    BY <1>8, <2>1, <2>2, <2>3, <2>4, GiveIs
<1> HIDE DEF q
<1> QED
  BY <1>4, <1>7, <1>9, <1>10, <1>11

(* allocate_frame, if it returns a frame: one usable frame has the owner   *)
(* that asked, and nothing else has changed.                               *)
LEMMA AllocateIs ==
    ASSUME NEW map \in Seq(Region), Ordered(map), Len(map) <= MAX_MEMORY_MAP_SIZE,
           NEW type \in RegionType,
           NEW r, r = allocate_frame(map, type), r.outcome = "ok"
    PROVE  /\ r.map \in Seq(Region) /\ Len(r.map) <= MAX_MEMORY_MAP_SIZE
           /\ Ordered(r.map)
           /\ \E f \in Nat : Owns(map, f, "Usable") /\ Claims(map, r.map, {f}, type)
<1> DEFINE E == Enlargeable(map, type)
           S == Splittable(map)
<1>1. Len(map) \in Nat /\ DOMAIN map = 1 .. Len(map)
  OBVIOUS
<1>2. CASE E # {}
  <2> DEFINE i == Min(E)
  <2>1. E \subseteq Nat
    BY <1>1 DEF Enlargeable
  <2>2. i \in E
    <3> HIDE DEF E
    <3> QED
      BY <1>2, <2>1, MinIs
  <2>3. r = enlarge(map, i)
    BY <1>2 DEF allocate_frame
  <2> HIDE DEF i
  <2>4. /\ i \in 1 .. Len(map) - 1 /\ map[i].type = type /\ map[i + 1].start = map[i].end
        /\ map[i + 1].type = "Usable" /\ ~ is_empty(map[i + 1])
    BY <2>2 DEF Enlargeable
  <2>5. i \in DOMAIN map /\ i + 1 \in DOMAIN map
    BY <1>1, <2>4
  <2>6. /\ r.map \in Seq(Region) /\ Len(r.map) = Len(map)
        /\ Ordered(r.map)
        /\ Owns(map, map[i].end, "Usable")
        /\ Claims(map, r.map, {map[i].end}, map[i].type)
    BY <2>3, <2>4, <2>5, EnlargeIs
  <2>7. map[i].end \in Nat
    BY <2>5, RegionFields
  <2> QED
    BY <2>4, <2>6, <2>7
<1>3. CASE E = {}
  <2>1. S # {}
    BY <1>3 DEF allocate_frame, Result
  <2> DEFINE i == IF type = "PageTable" THEN Max(S) ELSE Min(S)
  <2>2. i \in S
    <3>1. S \subseteq 0 .. Len(map) /\ S \subseteq Nat
      BY <1>1 DEF Splittable
    <3> HIDE DEF S
    <3>2. Max(S) \in S
      BY <1>1, <2>1, <3>1, MaxIs
    <3>3. Min(S) \in S
      BY <2>1, <3>1, MinIs
    <3> QED
      BY <3>2, <3>3
  <2>3. r = split(map, i, type)
    BY <1>3, <2>1 DEF allocate_frame
  <2> HIDE DEF i
  <2>4. r.outcome # "panic"
    OBVIOUS
  <2>5. /\ r.map \in Seq(Region) /\ Len(r.map) <= MAX_MEMORY_MAP_SIZE
        /\ Ordered(r.map)
        /\ Owns(map, map[i].start, "Usable")
        /\ Claims(map, r.map, {map[i].start}, type)
    BY <2>2, <2>3, <2>4, SplitIs
  <2>6. map[i].start \in Nat
    BY <2>2, RegionFields DEF Splittable
  <2> QED
    BY <2>5, <2>6
<1> QED
  BY <1>2, <1>3

(* If it does not return one, the map is as before, or the bootloader      *)
(* panics.                                                                 *)
LEMMA AllocateFails ==
    ASSUME NEW map, NEW type, allocate_frame(map, type).outcome # "ok"
    PROVE  \/ allocate_frame(map, type).outcome = "none" /\ allocate_frame(map, type).map = map
           \/ allocate_frame(map, type).outcome = "panic"
<1>1. CASE Enlargeable(map, type) # {}
  BY <1>1 DEF allocate_frame, enlarge, Result
<1>2. CASE Enlargeable(map, type) = {} /\ Splittable(map) = {}
  BY <1>2 DEF allocate_frame, Result
<1>3. CASE Enlargeable(map, type) = {} /\ Splittable(map) # {}
  <2> DEFINE i == IF type = "PageTable" THEN Max(Splittable(map)) ELSE Min(Splittable(map))
             q == add_region([map EXCEPT ![i].start = @ + 1],
                             MemoryRegion(map[i].start, map[i].start + 1, type))
  <2>1. allocate_frame(map, type) = [q EXCEPT !.frame = map[i].start]
    BY <1>3 DEF allocate_frame, split
  <2>2. q = Result(q.outcome, q.map, q.frame) /\ q.outcome \in {"ok", "panic"}
    BY DEF add_region, Result
  <2> HIDE DEF q, i
  <2>3. allocate_frame(map, type).outcome = q.outcome
    BY <2>1, <2>2 DEF Result
  <2> QED
    BY <2>2, <2>3
<1> QED
  BY <1>1, <1>2, <1>3

(* The marked region has its place in a usable one. *)
LEMMA CarveIs ==
    ASSUME NEW map \in Seq(Region), Ordered(map), Len(map) <= MAX_MEMORY_MAP_SIZE,
           NEW i \in DOMAIN map, map[i].type = "Usable",
           NEW region \in Region, map[i].start <= region.start, region.start < region.end,
           region.end <= map[i].end,
           NEW r, r = carve(map, i, region), r.outcome # "panic"
    PROVE  /\ r.outcome = "ok"
           /\ r.map \in Seq(Region) /\ Len(r.map) <= MAX_MEMORY_MAP_SIZE
           /\ Ordered(r.map)
           /\ Claims(map, r.map, Frames(region), region.type)
           /\ Borders(r.map) \subseteq Borders(map) \cup {region.start, region.end}
<1> DEFINE a == map[i]
           front == [a EXCEPT !.end = region.start]
           back == [a EXCEPT !.start = region.end]
<1>1. /\ a \in Region /\ a.start \in Nat /\ a.end \in Nat
      /\ region.start \in Nat /\ region.end \in Nat
  BY RegionFields DEF Region
<1>2. /\ front \in Region /\ front.start = a.start /\ front.end = region.start
      /\ front.type = a.type
      /\ back \in Region /\ back.start = region.end /\ back.end = a.end /\ back.type = a.type
  <2> HIDE DEF a
  <2> QED
    BY <1>1, BorderMoves
<1>3. /\ [map EXCEPT ![i].start = region.end] = [map EXCEPT ![i] = back]
      /\ [map EXCEPT ![i].end = region.start] = [map EXCEPT ![i] = front]
  OBVIOUS
<1>4. ASSUME NEW f PROVE f \in Frames(a) => \/ f \in Frames(front)
                                            \/ f \in Frames(region)
                                            \/ f \in Frames(back)
  <2> HIDE DEF front, back, a
  <2> QED
    BY <1>1, <1>2 DEF Frames
<1>5. {a.start, a.end} \subseteq Borders(map)
  BY DEF Borders
<1> HIDE DEF front, back
<1>6. CASE region.start = a.start /\ region.end < a.end
  <2>1. r = add_region([map EXCEPT ![i] = back], region)
    BY <1>1, <1>3, <1>6 DEF carve
  <2>2. \A f \in Frames(a) : f \in Frames(back) \/ f \in Frames(region)
    <3>1. \A f : f \notin Frames(front)
      BY <1>1, <1>2, <1>6 DEF Frames
    <3> QED
      BY <1>4, <3>1
  <2>3. a.start <= back.start /\ back.start <= back.end /\ back.end <= a.end
    BY <1>1, <1>2, <1>6
  <2>4. region.end <= back.start
    BY <1>1, <1>2
  <2>5. /\ r.outcome = "ok"
        /\ r.map \in Seq(Region) /\ Len(r.map) <= MAX_MEMORY_MAP_SIZE
        /\ Ordered(r.map)
        /\ Claims(map, r.map, Frames(region), region.type)
        /\ Borders(r.map) \subseteq
              Borders(map) \cup {region.start, region.end, back.start, back.end}
    BY <1>2, <2>1, <2>2, <2>3, <2>4, GiveIs
  <2>6. Borders(r.map) \subseteq Borders(map) \cup {region.start, region.end}
    BY <1>2, <1>5, <2>5
  <2> QED
    BY <2>5, <2>6
<1>7. CASE region.start = a.start /\ region.end >= a.end
  <2>1. r = Result("ok", [map EXCEPT ![i] = region], NoFrame)
    BY <1>1, <1>7 DEF carve
  <2>2. r.outcome = "ok" /\ r.map = [map EXCEPT ![i] = region]
    BY <2>1 DEF Result
  <2>3. region.end = a.end
    BY <1>1, <1>7
  <2>4. /\ r.map \in Seq(Region) /\ Len(r.map) = Len(map) /\ DOMAIN r.map = DOMAIN map
        /\ Ordered(r.map)
        /\ Claims(map, r.map, Frames(region), region.type)
    BY <1>7, <2>2, <2>3, ReplaceIs
  <2>5. \A k \in DOMAIN r.map : r.map[k] = region \/ r.map[k] = map[k]
    BY <2>2
  <2>6. Borders(r.map) \subseteq Borders(map) \cup {region.start, region.end}
    BY <2>4, <2>5 DEF Borders
  <2> QED
    BY <2>2, <2>4, <2>6
<1>8. CASE region.start > a.start /\ region.end >= a.end
  <2>1. r = add_region([map EXCEPT ![i] = front], region)
    BY <1>1, <1>3, <1>8 DEF carve
  <2>2. \A f \in Frames(a) : f \in Frames(front) \/ f \in Frames(region)
    <3>1. \A f : f \notin Frames(back)
      BY <1>1, <1>2, <1>8 DEF Frames
    <3> QED
      BY <1>4, <3>1
  <2>3. a.start <= front.start /\ front.start <= front.end /\ front.end <= a.end
    BY <1>1, <1>2, <1>8
  <2>4. front.end <= region.start
    BY <1>1, <1>2
  <2>5. /\ r.outcome = "ok"
        /\ r.map \in Seq(Region) /\ Len(r.map) <= MAX_MEMORY_MAP_SIZE
        /\ Ordered(r.map)
        /\ Claims(map, r.map, Frames(region), region.type)
        /\ Borders(r.map) \subseteq
              Borders(map) \cup {region.start, region.end, front.start, front.end}
    BY <1>2, <2>1, <2>2, <2>3, <2>4, GiveIs
  <2>6. Borders(r.map) \subseteq Borders(map) \cup {region.start, region.end}
    BY <1>2, <1>5, <2>5
  <2> QED
    BY <2>5, <2>6
<1>9. CASE region.start > a.start /\ region.end < a.end
  <2> DEFINE m == [map EXCEPT ![i] = front]
             both == add_region(m, back)
  <2>1. r = IF both.outcome = "panic" THEN both ELSE add_region(both.map, region)
    BY <1>1, <1>3, <1>9 DEF carve, back
  <2>2. a.start <= front.start /\ front.start <= front.end /\ front.end <= a.end
    BY <1>1, <1>2, <1>9
  <2>3. /\ m \in Seq(Region) /\ DOMAIN m = DOMAIN map /\ Ordered(m)
        /\ \A f, type : Owns(m, f, type) <=>
               Owns(map, f, type) /\ ~ (f \in Frames(a) /\ f \notin Frames(front))
    BY <1>2, <2>2, ShrinkIs
  <2>4. m[i] = front /\ \A k \in DOMAIN map : k # i => m[k] = map[k]
    OBVIOUS
  <2>5. Separated(m)
    BY <2>3, OrderedSeparates
  <2>6. \A k \in DOMAIN m : Apart(m[k], back)
    <3>1. a.start <= back.start /\ back.end <= a.end /\ front.end <= back.start
      BY <1>1, <1>2
    <3> QED
      BY <1>2, <2>3, <3>1, PartApart
  <2>7. \A k \in DOMAIN m : Apart(m[k], region)
    <3>1. a.start <= region.start /\ region.end <= a.end /\ front.end <= region.start
      BY <1>1, <1>2
    <3> QED
      BY <1>2, <2>3, <3>1, PartApart
  <2>8. back.start < back.end
    BY <1>2, <1>9
  <2>9. both.outcome # "panic"
    BY <2>1
  <2>10. both = add_region(m, back) /\ r = add_region(both.map, region)
    BY <2>1, <2>9
  <2> HIDE DEF m, both
  <2>11. /\ both.map \in Seq(Region) /\ Ordered(both.map)
         /\ \A k \in DOMAIN both.map : both.map[k] = back \/ \E j \in DOMAIN m : both.map[k] = m[j]
         /\ \A f, type : Owns(both.map, f, type) <=>
               Owns(m, f, type) \/ (type = back.type /\ f \in Frames(back))
    BY <1>2, <2>3, <2>5, <2>6, <2>8, <2>9, <2>10, MapSizeAssumption, AddRegionIs
  <2>12. Separated(both.map)
    BY <2>11, OrderedSeparates
  <2>13. \A k \in DOMAIN both.map : Apart(both.map[k], region)
    <3>1. Apart(back, region)
      BY <1>1, <1>2 DEF Apart
    <3> QED
      BY <2>7, <2>11, <3>1
  <2>14. /\ r.outcome = "ok"
         /\ r.map \in Seq(Region) /\ Len(r.map) <= MAX_MEMORY_MAP_SIZE
         /\ Ordered(r.map)
         /\ \A k \in DOMAIN r.map : r.map[k] = region \/ \E j \in DOMAIN both.map : r.map[k] = both.map[j]
         /\ \A f, type : Owns(r.map, f, type) <=>
               Owns(both.map, f, type) \/ (type = region.type /\ f \in Frames(region))
    BY <2>10, <2>11, <2>12, <2>13, MapSizeAssumption, AddRegionIs
  <2>15. ASSUME NEW f
         PROVE  /\ f \in Frames(region) => f \in Frames(a) /\ f \notin Frames(front) /\ f \notin Frames(back)
                /\ f \in Frames(back) => f \in Frames(a) /\ f \notin Frames(region)
    <3> HIDE DEF a
    <3>1. /\ Frames(region) = region.start .. region.end - 1 /\ Frames(a) = a.start .. a.end - 1
          /\ Frames(front) = a.start .. region.start - 1 /\ Frames(back) = region.end .. a.end - 1
      BY <1>2 DEF Frames
    <3> QED
      BY <1>1, <1>9, <3>1
  <2>16. ASSUME NEW f, NEW type
         PROVE  Owns(r.map, f, type) <=>
                   \/ f \in Frames(region) /\ type = region.type
                   \/ f \notin Frames(region) /\ Owns(map, f, type)
    <3>1. ASSUME f \in Frames(a) PROVE Owns(map, f, type) <=> type = a.type
      <4>1. Owns(map, f, a.type)
        BY <3>1 DEF Owns
      <4>2. ASSUME Owns(map, f, type) PROVE type = a.type
        <5>1. PICK k \in DOMAIN map : map[k].type = type /\ f \in Frames(map[k])
          BY <4>2 DEF Owns
        <5>2. k = i
          BY <3>1, <5>1, OneOwner
        <5> QED
          BY <5>1, <5>2
      <4> QED
        BY <4>1, <4>2
    <3> QED
      BY <1>2, <1>4, <2>3, <2>11, <2>14, <2>15, <3>1
  <2>17. ASSUME NEW k \in DOMAIN r.map
         PROVE  /\ r.map[k].start \in Borders(map) \cup {region.start, region.end}
                /\ r.map[k].end \in Borders(map) \cup {region.start, region.end}
    <3>1. \/ r.map[k] = region \/ r.map[k] = back \/ r.map[k] = front
          \/ \E j \in DOMAIN map : r.map[k] = map[j]
      BY <2>3, <2>4, <2>11, <2>14
    <3>2. CASE \E j \in DOMAIN map : r.map[k] = map[j]
      BY <3>2 DEF Borders
    <3> QED
      BY <1>2, <1>5, <3>1, <3>2
  <2>18. Borders(r.map) \subseteq Borders(map) \cup {region.start, region.end}
    <3> DEFINE B == Borders(map) \cup {region.start, region.end}
    <3>1. \A k \in DOMAIN r.map : r.map[k].start \in B /\ r.map[k].end \in B
      BY <2>17
    <3> HIDE DEF B
    <3>2. ASSUME NEW b \in Borders(r.map) PROVE b \in B
      <4>1. PICK k \in DOMAIN r.map : b = r.map[k].start \/ b = r.map[k].end
        BY DEF Borders
      <4> QED
        BY <3>1, <4>1
    <3> QED
      BY <3>2 DEF B
  <2> QED
    BY <2>14, <2>16, <2>18 DEF Claims
<1> QED
  BY <1>1, <1>6, <1>7, <1>8, <1>9

(* mark_allocated_region, if it does not panic, gives a region in which no *)
(* region of the map starts or ends to its owner; all of it was usable.    *)
LEMMA MarkIs ==
    ASSUME NEW map \in Seq(Region), Ordered(map), Len(map) <= MAX_MEMORY_MAP_SIZE,
           NEW region \in Region, region.start < region.end,
           Borders(map) \cap Inside(region) = {},
           NEW r, r = mark_allocated_region(map, region), r.outcome # "panic"
    PROVE  /\ r.outcome = "ok"
           /\ r.map \in Seq(Region) /\ Len(r.map) <= MAX_MEMORY_MAP_SIZE
           /\ Ordered(r.map)
           /\ \A f \in Frames(region) : Owns(map, f, "Usable")
           /\ Claims(map, r.map, Frames(region), region.type)
           /\ Borders(r.map) \subseteq Borders(map) \cup {region.start, region.end}
<1> DEFINE S == Overlapping(map, region)
           i == Min(S)
<1>1. S # {} /\ map[i].type = "Usable" /\ r = carve(map, i, region)
  BY DEF mark_allocated_region, Result
<1>2. i \in S
  <2>1. S \subseteq Nat
    BY DEF Overlapping
  <2> HIDE DEF S
  <2> QED
    BY <1>1, <2>1, MinIs
<1> HIDE DEF i
<1>3. i \in DOMAIN map /\ region.start < map[i].end /\ map[i].start < region.end
  BY <1>2 DEF Overlapping
<1>4. /\ map[i].start \in Nat /\ map[i].end \in Nat
      /\ region.start \in Nat /\ region.end \in Nat
  BY <1>3, RegionFields DEF Region
<1>5. map[i].start \in Borders(map) /\ map[i].end \in Borders(map)
  BY <1>3 DEF Borders
<1>6. map[i].start \notin Inside(region) /\ map[i].end \notin Inside(region)
  BY <1>5
<1>7. map[i].start <= region.start /\ region.end <= map[i].end
  BY <1>3, <1>4, <1>6 DEF Inside
<1>8. \A f \in Frames(region) : f \in Frames(map[i])
  BY <1>4, <1>7 DEF Frames
<1>9. \A f \in Frames(region) : Owns(map, f, "Usable")
  BY <1>1, <1>3, <1>8 DEF Owns
<1> QED
  BY <1>1, <1>3, <1>7, <1>9, CarveIs

-----------------------------------------------------------------------------
(* The inductive invariant. *)

E820Entry == [start : Nat, len : Nat, type : Nat, usable : BOOLEAN]

Known(entry) == entry.type \in DOMAIN TypeName

(* A region that is not usable ends before any region that sorts behind it *)
(* starts.                                                                 *)
Clear(r1, r2) == r1.type # "Usable" /\ ~ Before(r2, r1) => r1.end <= r2.start

(* do_e820 has stored the entries it has seen and may use. *)
Stored ==
    /\ ebx \in 0 .. Len(firmware)
    /\ pc = "e820" => ebx = 0 \/ ebx < Len(firmware)
    /\ pc # "e820" => ebx \in {0, Len(firmware)}
    /\ e820 \in Seq(E820Entry) /\ Len(e820) <= ebx
    /\ \A k \in DOMAIN e820 : \E g \in 1 .. ebx : Answered(firmware[g]) /\ e820[k] = firmware[g]
    /\ \A g \in 1 .. ebx : Answered(firmware[g]) => \E k \in DOMAIN e820 : e820[k] = firmware[g]
    /\ \A k, l \in DOMAIN e820 :
          k # l /\ Known(e820[k]) /\ Known(e820[l]) => Clear(from(e820[k]), from(e820[l]))

(* create_from has added the first entries of them to the map. *)
Gathered ==
    /\ added \in 0 .. Len(e820)
    /\ memory_map \in Seq(Region) /\ Len(memory_map) <= MAX_MEMORY_MAP_SIZE
    /\ \A k \in DOMAIN memory_map :
          \E l \in 1 .. added : memory_map[k] = from(e820[l])
    /\ \A l \in 1 .. added :
          Known(e820[l]) /\ \E k \in DOMAIN memory_map : memory_map[k] = from(e820[l])
    /\ \A k, l \in DOMAIN memory_map : k # l => Clear(memory_map[k], memory_map[l])

MarkTypes == {"FrameZero", "Bootloader", "Kernel", "PageTable"}

(* The map is in order; its usable frames are as listed, and no marked     *)
(* region has one; the regions still to be marked have no border inside.   *)
Mapped ==
    /\ memory_map \in Seq(Region) /\ Len(memory_map) <= MAX_MEMORY_MAP_SIZE
    /\ Ordered(memory_map)

Marked ==
    /\ todo \in Seq(MarkTypes)
    /\ \A f : Owns(memory_map, f, "Usable") => f \in FramesListed({1}) /\ f \notin ReservedFrames
    /\ \A type \in MarkTypes :
          (\A k \in DOMAIN todo : todo[k] # type) =>
              \A f \in Frames(RegionOf(type)) : ~ Owns(memory_map, f, "Usable")
    /\ \A k \in DOMAIN todo : Borders(memory_map) \cap Inside(RegionOf(todo[k])) = {}

BInv ==
    /\ pc \in {"e820", "create_from", "no_map", "mark", "allocate", "panic"}
    /\ Tidy
    /\ Stored
    /\ pc = "e820" => added = 0 /\ memory_map = <<>>
    /\ pc = "create_from" => Gathered
    /\ pc \in {"e820", "create_from"} => todo = MarkOrder
    /\ HasMap => Mapped
    /\ pc \in {"mark", "allocate"} => Marked
    /\ pc = "allocate" => todo = <<>>

-----------------------------------------------------------------------------
(* Regions from bytes. *)

(* The frame of a byte is not behind the frame of a later one. *)
LEMMA PageOfOrders ==
    ASSUME NEW x \in Nat, NEW y \in Nat, x <= y
    PROVE  PageOf(x) \in Nat /\ PageOf(y) \in Nat /\ PageOf(x) <= PageOf(y)
<1> DEFINE p == PAGE_SIZE
           q == x \div p
           t == y \div p
<1>1. p \in Nat /\ p > 0
  BY PageSizeAssumption
<1>2. q \in Nat /\ p * q <= x /\ x < p * q + p
  BY <1>1
<1>3. t \in Nat /\ p * t <= y /\ y < p * t + p
  BY <1>1
<1> HIDE DEF p, q, t
<1>4. ASSUME t < q PROVE FALSE
  <2>1. PICK d \in Nat : q = t + 1 + d
    <3>1. q - t - 1 \in Nat /\ q = t + 1 + (q - t - 1)
      BY <1>2, <1>3, <1>4
    <3> QED
      BY <3>1
  <2>2. p * q = p * t + p + p * d /\ p * d \in Nat /\ p * t \in Nat /\ p * q \in Nat
    BY <1>1, <1>3, <2>1
  <2> QED
    BY <1>1, <1>2, <1>3, <2>2
<1> QED
  BY <1>2, <1>3, <1>4 DEF PageOf, p, q, t

(* FrameRange::new of some bytes is a region that is not empty. *)
LEMMA FrameRangeIs ==
    ASSUME NEW x \in Nat, NEW y \in Nat, x < y, NEW type \in RegionType
    PROVE  /\ FrameRange_new(x, y, type) \in Region
           /\ FrameRange_new(x, y, type).start < FrameRange_new(x, y, type).end
           /\ FrameRange_new(x, y, type).type = type
<1>1. y - 1 \in Nat /\ x <= y - 1
  OBVIOUS
<1>2. PageOf(x) \in Nat /\ PageOf(y - 1) \in Nat /\ PageOf(x) <= PageOf(y - 1)
  BY <1>1, PageOfOrders
<1>3. PageOf(y - 1) + 1 \in Nat /\ PageOf(x) < PageOf(y - 1) + 1
  BY <1>2
<1> QED
  BY <1>2, <1>3 DEF FrameRange_new, MemoryRegion, Region

(* MemoryRegion::from of an entry that is kept and of a known type. *)
LEMMA FromIs ==
    ASSUME NEW entry \in E820Entry, Answered(entry), Known(entry)
    PROVE  /\ from(entry) \in Region /\ from(entry).start < from(entry).end
           /\ ~ is_empty(from(entry))
           /\ from(entry).type = "Usable" <=> entry.type = 1
<1>1. entry.start \in Nat /\ entry.len \in Nat /\ entry.len # 0 /\ entry.type \in 1 .. 5
  BY DEF E820Entry, Answered, Known, TypeName
<1>2. entry.start + entry.len \in Nat /\ entry.start < entry.start + entry.len
  BY <1>1
<1>3. /\ TypeName[entry.type] \in RegionType
      /\ TypeName[entry.type] = "Usable" <=> entry.type = 1
  <2>1. entry.type = 1 \/ entry.type = 2 \/ entry.type = 3 \/ entry.type = 4 \/ entry.type = 5
    BY <1>1
  <2> QED
    BY <2>1 DEF TypeName, RegionType
<1>4. /\ from(entry) \in Region /\ from(entry).start < from(entry).end
      /\ from(entry).type = TypeName[entry.type]
  <2> DEFINE y == entry.start + entry.len
             type == TypeName[entry.type]
  <2>1. /\ entry.start \in Nat /\ y \in Nat /\ entry.start < y /\ type \in RegionType
        /\ from(entry) = FrameRange_new(entry.start, y, type)
    BY <1>1, <1>2, <1>3 DEF from
  <2> HIDE DEF y, type
  <2>2. /\ from(entry) \in Region /\ from(entry).start < from(entry).end
        /\ from(entry).type = type
    BY <2>1, FrameRangeIs
  <2> QED
    BY <2>2 DEF type
<1>5. from(entry).start \in Nat /\ from(entry).end \in Nat
  BY <1>4 DEF Region
<1> QED
  BY <1>3, <1>4, <1>5 DEF is_empty

(* The regions that are marked are not empty, and their type is the one    *)
(* they are marked for.                                                    *)
LEMMA MarkedRegionIs ==
    ASSUME Tidy, NEW type \in MarkTypes
    PROVE  /\ RegionOf(type) \in Region
           /\ RegionOf(type).start < RegionOf(type).end
           /\ RegionOf(type).type = type
<1>1. type \in RegionType
  BY DEF MarkTypes, RegionType, Allocated
<1>2. CASE type = "FrameZero"
  BY <1>1, <1>2 DEF RegionOf, RegionIn, MemoryRegion, Region
<1>3. CASE type # "FrameZero"
  <2>1. /\ type \in {"Bootloader", "Kernel", "PageTable"}
        /\ layout \in [{"Bootloader", "Kernel", "PageTable"} -> Nat \X Nat]
        /\ layout[type][1] < layout[type][2]
    BY <1>3 DEF MarkTypes, Tidy, TidyMemory
  <2>2. layout[type][1] \in Nat /\ layout[type][2] \in Nat
    BY <2>1
  <2>3. RegionOf(type) = FrameRange_new(layout[type][1], layout[type][2], type)
    BY <1>3 DEF RegionOf, RegionIn
  <2> QED
    BY <1>1, <2>1, <2>2, <2>3, FrameRangeIs
<1> QED
  BY <1>2, <1>3

(* Neither border of a marked region is inside one of the others. *)
LEMMA MarkedApart ==
    ASSUME Tidy, NEW type \in MarkTypes, NEW other \in MarkTypes
    PROVE  {RegionOf(type).start, RegionOf(type).end} \cap Inside(RegionOf(other)) = {}
<1> DEFINE a == RegionOf(type)
           b == RegionOf(other)
<1>1. /\ a \in Region /\ b \in Region /\ a.start < a.end /\ b.start < b.end
  BY MarkedRegionIs
<1>2. type # other => Frames(a) \cap Frames(b) = {}
  <2>1. PICK i \in DOMAIN MarkOrder : MarkOrder[i] = type
    BY DEF MarkOrder, MarkTypes
  <2>2. PICK j \in DOMAIN MarkOrder : MarkOrder[j] = other
    BY DEF MarkOrder, MarkTypes
  <2>3. type # other => Frames(RegionIn(layout, MarkOrder[i])) \cap Frames(RegionIn(layout, MarkOrder[j])) = {}
    BY <2>1, <2>2 DEF Tidy, TidyMemory
  <2> QED
    BY <2>1, <2>2, <2>3 DEF RegionOf
<1>3. type = other => a = b
  OBVIOUS
<1> HIDE DEF a, b
<1>4. a.start \in Nat /\ a.end \in Nat /\ b.start \in Nat /\ b.end \in Nat
  BY <1>1 DEF Region
<1>5. CASE type = other
  BY <1>3, <1>4, <1>5 DEF Inside, a, b
<1>6. CASE type # other
  <2>1. ASSUME a.start \in Inside(b) PROVE FALSE
    <3>1. a.start \in Frames(a) /\ a.start \in Frames(b)
      BY <1>1, <1>4, <2>1 DEF Frames, Inside
    <3> QED
      BY <1>2, <1>6, <3>1
  <2>2. ASSUME a.end \in Inside(b) PROVE FALSE
    <3>1. a.end - 1 \in Frames(a) /\ a.end - 1 \in Frames(b)
      BY <1>1, <1>4, <2>2 DEF Frames, Inside
    <3> QED
      BY <1>2, <1>6, <3>1
  <2> QED
    BY <2>1, <2>2 DEF a, b
<1> QED
  BY <1>5, <1>6

-----------------------------------------------------------------------------
(* do_e820 and create_from. *)

(* What Tidy says of two entries create_from understands. *)
LEMMA TidyEntries ==
    ASSUME Tidy
    PROVE  /\ firmware \in Seq(E820Entry) /\ Len(firmware) \in Nat /\ Len(firmware) < 256
           /\ \A i \in Listed(firmware) : Answered(firmware[i]) /\ Known(firmware[i])
           /\ \A i, j \in Listed(firmware) :
                 i # j => Clear(from(firmware[i]), from(firmware[j]))
<1>1. firmware \in Seq(E820Entry) /\ Len(firmware) < 256
  BY DEF Tidy, TidyMemory, E820Entry
<1>2. \A i \in Listed(firmware) :
         i \in DOMAIN firmware /\ Answered(firmware[i]) /\ Known(firmware[i])
  BY DEF Listed, Known
<1>3. ASSUME NEW i \in Listed(firmware), NEW j \in Listed(firmware), i # j
      PROVE  Clear(from(firmware[i]), from(firmware[j]))
  <2>1. firmware[i] \in E820Entry
    BY <1>1, <1>2
  <2>2. from(firmware[i]).type = "Usable" <=> firmware[i].type = 1
    BY <1>2, <2>1, FromIs
  <2>3. firmware[i].type # 1 /\ ~ Before(from(firmware[j]), from(firmware[i]))
          => from(firmware[i]).end <= from(firmware[j]).start
    BY <1>3 DEF Tidy, TidyMemory
  <2> QED
    BY <2>2, <2>3 DEF Clear
<1> QED
  BY <1>1, <1>2, <1>3

(* One round of do_e820 keeps what is stored. *)
LEMMA E820Stored ==
    ASSUME BInv, do_e820
    PROVE  Stored'
<1> USE DEF BInv
<1>1. pc = "e820" /\ firmware' = firmware
  BY DEF do_e820
<1>2. firmware \in Seq(E820Entry) /\ Len(firmware) \in Nat
  BY TidyEntries
<1>3. Stored /\ ebx \in 0 .. Len(firmware) /\ (ebx = 0 \/ ebx < Len(firmware))
  BY <1>1 DEF Stored
<1>4. e820 \in Seq(E820Entry) /\ Len(e820) \in Nat /\ Len(e820) <= ebx
  BY <1>3 DEF Stored
<1>5. CASE Len(firmware) <= 1
  <2>1. ebx = 0 /\ ebx' = ebx /\ e820' = e820
    BY <1>2, <1>3, <1>5 DEF do_e820
  <2> QED
    BY <1>1, <1>2, <1>3, <2>1 DEF Stored
<1>6. CASE Len(firmware) > 1
  <2> DEFINE n == ebx + 1
             entry == firmware[n]
  <2>1. n \in 1 .. Len(firmware) /\ n = ebx + 1 /\ n \in Nat
    BY <1>2, <1>3, <1>6
  <2>2. /\ ebx' = n /\ e820' = IF Answered(entry) THEN Append(e820, entry) ELSE e820
        /\ pc' = IF n = Len(firmware) THEN "create_from" ELSE "e820"
    BY <1>2, <1>6 DEF do_e820
  <2>3. entry \in E820Entry
    BY <1>2, <2>1
  <2>4. 1 .. n = (1 .. ebx) \cup {n} /\ n \notin 1 .. ebx
    BY <1>3, <2>1
  <2>5. entry = firmware[n]
    OBVIOUS
  <2> HIDE DEF n, entry
  <2>6. ebx' \in 0 .. Len(firmware)
    BY <1>2, <2>1, <2>2
  <2>7. /\ pc' = "e820" => ebx' = 0 \/ ebx' < Len(firmware)
        /\ pc' # "e820" => ebx' \in {0, Len(firmware)}
    BY <1>2, <2>1, <2>2
  <2>8. ebx' = n
    BY <2>2
  <2>9. CASE ~ Answered(entry)
    <3>1. e820' = e820 /\ Len(e820) <= n
      BY <1>3, <1>4, <2>1, <2>2, <2>9
    <3>2. \A k \in DOMAIN e820 : \E g \in 1 .. n : Answered(firmware[g]) /\ e820[k] = firmware[g]
      BY <1>3, <2>4 DEF Stored
    <3>3. \A g \in 1 .. n : Answered(firmware[g]) => \E k \in DOMAIN e820 : e820[k] = firmware[g]
      BY <1>3, <2>4, <2>5, <2>9 DEF Stored
    <3>4. \A k, l \in DOMAIN e820 :
             k # l /\ Known(e820[k]) /\ Known(e820[l]) => Clear(from(e820[k]), from(e820[l]))
      BY <1>3 DEF Stored
    <3> QED
      BY <1>1, <1>4, <2>6, <2>7, <2>8, <3>1, <3>2, <3>3, <3>4 DEF Stored
  <2>10. CASE Answered(entry)
    <3> DEFINE stored == Append(e820, entry)
               m == Len(e820) + 1
    <3>1. /\ stored \in Seq(E820Entry) /\ Len(stored) = m /\ m \in Nat
          /\ DOMAIN stored = (1 .. Len(e820)) \cup {m} /\ m \notin 1 .. Len(e820)
          /\ DOMAIN e820 = 1 .. Len(e820)
          /\ \A k \in 1 .. Len(e820) : stored[k] = e820[k]
          /\ stored[m] = entry
      BY <1>4, <2>3
    <3>2. e820' = stored /\ m <= n
      BY <1>3, <1>4, <2>1, <2>2, <2>10
    <3> HIDE DEF stored, m
    <3>3. \A k \in DOMAIN stored : \E g \in 1 .. n : Answered(firmware[g]) /\ stored[k] = firmware[g]
      BY <1>3, <2>4, <2>5, <2>10, <3>1 DEF Stored
    <3>4. ASSUME NEW g \in 1 .. n, Answered(firmware[g])
          PROVE  \E k \in DOMAIN stored : stored[k] = firmware[g]
      <4>1. CASE g = n
        BY <2>5, <3>1, <4>1
      <4>2. CASE g \in 1 .. ebx
        BY <1>3, <3>1, <3>4, <4>2 DEF Stored
      <4> QED
        BY <2>4, <4>1, <4>2
    <3>5. ASSUME NEW k \in DOMAIN stored, NEW l \in DOMAIN stored,
                 k # l, Known(stored[k]), Known(stored[l])
          PROVE  Clear(from(stored[k]), from(stored[l]))
      <4>1. CASE k \in DOMAIN e820 /\ l \in DOMAIN e820
        BY <1>3, <3>1, <3>5, <4>1 DEF Stored
      <4>2. ASSUME NEW j \in DOMAIN e820, Known(e820[j]), Known(entry)
            PROVE  Clear(from(e820[j]), from(entry)) /\ Clear(from(entry), from(e820[j]))
        <5>1. PICK g \in 1 .. ebx : Answered(firmware[g]) /\ e820[j] = firmware[g]
          BY <1>3 DEF Stored
        <5>2. g \in DOMAIN firmware /\ n \in DOMAIN firmware /\ g # n
          BY <1>2, <1>3, <2>1
        <5>3. g \in Listed(firmware) /\ n \in Listed(firmware)
          BY <2>5, <2>10, <4>2, <5>1, <5>2 DEF Listed, Known
        <5> QED
          BY <2>5, <5>1, <5>2, <5>3, TidyEntries
      <4> QED
        BY <3>1, <3>5, <4>1, <4>2
    <3> QED
      <4>1. /\ e820' \in Seq(E820Entry) /\ Len(e820') <= ebx'
            /\ \A k \in DOMAIN e820' : \E g \in 1 .. ebx' :
                  Answered(firmware'[g]) /\ e820'[k] = firmware'[g]
            /\ \A g \in 1 .. ebx' : Answered(firmware'[g]) =>
                  \E k \in DOMAIN e820' : e820'[k] = firmware'[g]
        BY <1>1, <2>8, <3>1, <3>2, <3>3, <3>4
      <4>2. \A k, l \in DOMAIN e820' :
               k # l /\ Known(e820'[k]) /\ Known(e820'[l]) => Clear(from(e820'[k]), from(e820'[l]))
        BY <3>2, <3>5
      <4>3. ebx' \in 0 .. Len(firmware')
        BY <1>1, <2>6
      <4> QED
        BY <1>1, <2>7, <4>1, <4>2, <4>3 DEF Stored
  <2> QED
    BY <2>9, <2>10
<1> QED
  BY <1>2, <1>5, <1>6

(* A call of the BIOS keeps it: what do_e820 stores is as tidy as what the *)
(* BIOS answered.                                                          *)
LEMMA E820Preserves == BInv /\ do_e820 => BInv'
<1> SUFFICES ASSUME BInv, do_e820 PROVE BInv'
  OBVIOUS
<1>1. /\ pc = "e820" /\ pc' \in {"e820", "create_from"}
      /\ UNCHANGED <<firmware, layout, added, memory_map, todo>>
  BY DEF do_e820
<1>2. Tidy' /\ todo' = MarkOrder
  BY <1>1 DEF BInv, Tidy
<1>3. Stored'
  BY E820Stored
<1>4. added' = 0 /\ memory_map' = <<>>
  BY <1>1 DEF BInv
<1>5. Gathered'
  <2>1. memory_map' \in Seq(Region) /\ Len(memory_map') = 0 /\ DOMAIN memory_map' = {}
    BY <1>4
  <2>2. 1 .. added' = {}
    BY <1>4
  <2>3. added' \in 0 .. Len(e820')
    <3>1. Len(e820') \in Nat
      BY <1>3 DEF Stored
    <3> QED
      BY <1>4, <3>1
  <2>4. Len(memory_map') <= MAX_MEMORY_MAP_SIZE
    BY <2>1, MapSizeAssumption
  <2> QED
    BY <2>1, <2>2, <2>3, <2>4 DEF Gathered
<1> QED
  BY <1>1, <1>2, <1>3, <1>4, <1>5 DEF BInv, HasMap

(* stage_4 passes the number of the entries, for there are fewer than 256. *)
LEMMA EntryCountIs ==
    ASSUME Tidy, Stored
    PROVE  Len(e820) \in Nat /\ EntryCount = Len(e820)
<1>1. Len(firmware) \in Nat /\ Len(firmware) < 256
  BY TidyEntries
<1>2. Len(e820) \in Nat /\ Len(e820) <= ebx /\ ebx \in 0 .. Len(firmware)
  BY DEF Stored
<1>3. \A a, b, c \in Nat : a <= b /\ b <= c /\ c < 256 => a < 256
  OBVIOUS
<1>4. ebx \in Nat /\ ebx <= Len(firmware)
  BY <1>1, <1>2
<1>5. Len(e820) < 256
  BY <1>1, <1>2, <1>3, <1>4
<1>6. \A a \in Nat : a < 256 => a % 256 = a
  OBVIOUS
<1> QED
  BY <1>2, <1>5, <1>6 DEF EntryCount

(* The entries create_from has added are kept ones, and of known types. *)
LEMMA StoredEntries ==
    ASSUME Tidy, Stored, NEW l \in DOMAIN e820
    PROVE  e820[l] \in E820Entry /\ Answered(e820[l])
<1>1. e820 \in Seq(E820Entry)
  BY DEF Stored
<1>2. e820[l] \in E820Entry
  BY <1>1
<1> QED
  BY <1>2 DEF Stored

(* A round of the loop of create_from keeps it: the map holds the entries  *)
(* added so far, in order and without overlap.                             *)
LEMMA AddPreserves == BInv /\ add_entry => BInv'
<1> SUFFICES ASSUME BInv, add_entry PROVE BInv'
  OBVIOUS
<1> DEFINE n == added + 1
           entry == e820[n]
           region == from(entry)
           r == add_region(memory_map, region)
<1>1. /\ pc = "create_from" /\ added < EntryCount
      /\ UNCHANGED <<firmware, layout, ebx, e820, todo>>
      /\ IF ~ Known(entry) \/ r.outcome = "panic"
         THEN pc' = "no_map" /\ UNCHANGED <<added, memory_map>>
         ELSE added' = added + 1 /\ memory_map' = r.map /\ pc' = pc
  BY DEF add_entry, Known
<1>2. Tidy /\ Stored /\ Gathered /\ todo = MarkOrder
  BY <1>1 DEF BInv
<1>3. Tidy' /\ todo' = MarkOrder
  BY <1>1, <1>2 DEF Tidy
<1>4. pc' \in {"create_from", "no_map"}
  BY <1>1
<1>5. Stored'
  <2>1. pc' # "e820" /\ pc # "e820"
    BY <1>1, <1>4
  <2>2. ebx \in {0, Len(firmware)}
    BY <1>2, <2>1 DEF Stored
  <2> QED
    BY <1>1, <1>2, <2>1, <2>2 DEF Stored
<1>6. ASSUME pc' = "create_from" PROVE Gathered'
  <2>1. Known(entry) /\ r.outcome # "panic" /\ added' = n /\ memory_map' = r.map
    BY <1>1, <1>6
  <2>2. /\ added \in 0 .. Len(e820) /\ Len(e820) \in Nat /\ n \in 1 .. Len(e820)
        /\ DOMAIN e820 = 1 .. Len(e820) /\ 1 .. n = (1 .. added) \cup {n}
    <3>1. EntryCount = Len(e820) /\ Len(e820) \in Nat
      BY <1>2, EntryCountIs
    <3>2. added \in 0 .. Len(e820)
      BY <1>2 DEF Gathered
    <3>3. DOMAIN e820 = 1 .. Len(e820)
      BY <1>2 DEF Stored
    <3> QED
      BY <1>1, <3>1, <3>2, <3>3
  <2>3. region \in Region /\ ~ is_empty(region)
    BY <1>2, <2>1, <2>2, StoredEntries, FromIs
  <2> DEFINE both == Append(memory_map, region)
             m == Len(memory_map) + 1
  <2>4. memory_map \in Seq(Region) /\ Len(memory_map) \in Nat
    BY <1>2 DEF Gathered
  <2>5. /\ both \in Seq(Region) /\ Len(both) = m /\ m \in Nat
        /\ DOMAIN both = (DOMAIN memory_map) \cup {m} /\ m \notin DOMAIN memory_map
        /\ \A k \in DOMAIN memory_map : both[k] = memory_map[k]
        /\ both[m] = region
    <3> HIDE DEF region
    <3> QED
      BY <2>3, <2>4
  <2>6. m <= MAX_MEMORY_MAP_SIZE /\ r.map = sort(both)
    <3>1. r = IF Len(memory_map) < MAX_MEMORY_MAP_SIZE
              THEN Result("ok", sort(both), NoFrame) ELSE Result("panic", memory_map, NoFrame)
      BY DEF add_region
    <3>2. Len(memory_map) < MAX_MEMORY_MAP_SIZE
      BY <2>1, <3>1 DEF Result
    <3> QED
      BY <2>4, <3>1, <3>2, MapSizeAssumption DEF Result
  <2>7. \A l \in 1 .. n : Known(e820[l]) /\ ~ is_empty(from(e820[l]))
    <3>1. \A l \in 1 .. n : Known(e820[l]) /\ l \in DOMAIN e820
      BY <1>2, <2>1, <2>2 DEF Gathered
    <3> QED
      BY <1>2, <3>1, StoredEntries, FromIs
  <2>8. ASSUME NEW k \in DOMAIN both PROVE \E l \in 1 .. n : both[k] = from(e820[l])
    <3>1. CASE k = m
      BY <2>2, <2>5, <3>1
    <3>2. CASE k \in DOMAIN memory_map
      <4>1. \E l \in 1 .. added : memory_map[k] = from(e820[l])
        BY <1>2, <3>2 DEF Gathered
      <4> HIDE DEF n, region, both
      <4> QED
        BY <2>2, <2>5, <3>2, <4>1
    <3> QED
      BY <2>5, <3>1, <3>2
  <2>9. ASSUME NEW l \in 1 .. n PROVE \E k \in DOMAIN both : both[k] = from(e820[l])
    <3>1. CASE l = n
      BY <2>5, <3>1
    <3>2. CASE l \in 1 .. added
      <4>1. \E k \in DOMAIN memory_map : memory_map[k] = from(e820[l])
        BY <1>2, <3>2 DEF Gathered
      <4> HIDE DEF n, region, both
      <4> QED
        BY <2>5, <4>1
    <3> QED
      BY <2>2, <3>1, <3>2
  <2>10. ASSUME NEW k \in DOMAIN both, NEW l \in DOMAIN both, k # l
         PROVE  Clear(both[k], both[l])
    <3>1. CASE k \in DOMAIN memory_map /\ l \in DOMAIN memory_map
      BY <1>2, <2>5, <2>10, <3>1 DEF Gathered
    <3>2. ASSUME NEW j \in DOMAIN memory_map
          PROVE  Clear(memory_map[j], region) /\ Clear(region, memory_map[j])
      <4>1. PICK q \in 1 .. added : memory_map[j] = from(e820[q])
        BY <1>2 DEF Gathered
      <4>2. q \in DOMAIN e820 /\ n \in DOMAIN e820 /\ q # n
        BY <2>2
      <4>3. Known(e820[q]) /\ Known(e820[n])
        BY <2>2, <2>7
      <4> QED
        BY <1>2, <4>1, <4>2, <4>3 DEF Stored
    <3> QED
      BY <2>5, <2>10, <3>1, <3>2
  <2> HIDE DEF both, m, region, r
  <2> DEFINE s == sort(both)
  <2>11. s \in Seq(Region) /\ Len(s) <= Len(both) /\ Len(s) \in Nat /\ DOMAIN s = 1 .. Len(s)
    BY <2>5, SortIs
  <2>12. \A k \in DOMAIN both : k \in Kept(both)
    BY <2>7, <2>8 DEF Kept
  <2>13. PICK p \in [1 .. Len(s) -> Kept(both)] :
           /\ \A i, j \in 1 .. Len(s) : p[i] = p[j] => i = j
           /\ \A i \in Kept(both) : \E k \in 1 .. Len(s) : p[k] = i
           /\ \A k \in 1 .. Len(s) : s[k] = both[p[k]]
    BY <2>5, SortIs
  <2> HIDE DEF s
  <2>14. Kept(both) \subseteq DOMAIN both
    BY DEF Kept
  <2>15. \A k \in DOMAIN s : \E l \in 1 .. n : s[k] = from(e820[l])
    BY <2>8, <2>11, <2>13, <2>14
  <2>16. \A l \in 1 .. n : \E k \in DOMAIN s : s[k] = from(e820[l])
    BY <2>9, <2>11, <2>12, <2>13
  <2>17. \A k, l \in DOMAIN s : k # l => Clear(s[k], s[l])
    BY <2>10, <2>11, <2>13, <2>14
  <2>18. memory_map' = s /\ Len(s) <= MAX_MEMORY_MAP_SIZE
    BY <2>1, <2>5, <2>6, <2>11, MapSizeAssumption DEF s
  <2>19. added' \in 0 .. Len(e820') /\ added' = n /\ e820' = e820
    BY <1>1, <2>1, <2>2
  <2> HIDE DEF n
  <2> QED
    BY <2>7, <2>11, <2>15, <2>16, <2>17, <2>18, <2>19 DEF Gathered
<1> QED
  BY <1>3, <1>4, <1>5, <1>6 DEF BInv, HasMap

(* The last loop of create_from puts a sorted map in order, if only usable *)
(* regions reach past the start of the next one.                           *)
LEMMA TrimIs ==
    ASSUME NEW s \in Seq(Region),
           \A k \in DOMAIN s : s[k].start <= s[k].end,
           \A k, l \in DOMAIN s : k < l => ~ Before(s[l], s[k]),
           \A k, l \in DOMAIN s : k # l => Clear(s[k], s[l]),
           NEW t, t = trim_usable(s)
    PROVE  /\ t \in Seq(Region) /\ Len(t) = Len(s) /\ DOMAIN t = DOMAIN s
           /\ Ordered(t)
           /\ \A f, type : Owns(t, f, type) => Owns(s, f, type)
           /\ \A f, type : type # "Usable" /\ Owns(s, f, type) => Owns(t, f, type)
           /\ Borders(t) \subseteq Borders(s)
<1>1. Len(s) \in Nat /\ DOMAIN s = 1 .. Len(s)
  OBVIOUS
<1>2. \A k \in DOMAIN s : /\ s[k] \in Region /\ k \in Nat
                          /\ s[k].start \in Nat /\ s[k].end \in Nat
  BY RegionFields
<1>3. ASSUME NEW k \in DOMAIN s, NEW l \in DOMAIN s, k <= l PROVE s[k].start <= s[l].start
  <2>1. CASE k = l
    BY <1>2, <2>1
  <2>2. CASE k < l
    BY <1>2, <2>2 DEF Before
  <2> QED
    BY <1>2, <1>3, <2>1, <2>2
<1> DEFINE Short(k) == k < Len(s) /\ s[k].type = "Usable" /\ s[k].end > s[k + 1].start
<1>4. DOMAIN t = DOMAIN s /\ \A k \in DOMAIN s :
         t[k] = IF Short(k) THEN [s[k] EXCEPT !.end = s[k + 1].start] ELSE s[k]
  BY DEF trim_usable
<1>5. ASSUME NEW k \in DOMAIN s
      PROVE  /\ t[k] \in Region /\ t[k].start = s[k].start /\ t[k].type = s[k].type
             /\ s[k].type # "Usable" => t[k] = s[k]
             /\ s[k].start <= t[k].end /\ t[k].end <= s[k].end
             /\ t[k].end = s[k].end \/ \E j \in DOMAIN s : t[k].end = s[j].start
             /\ \A l \in DOMAIN s : k < l => t[k].end <= s[l].start
  <2>1. CASE Short(k)
    <3> DEFINE n == s[k + 1].start
    <3>1. k + 1 \in DOMAIN s /\ k <= k + 1
      BY <1>1, <1>2, <2>1
    <3>2. n \in Nat /\ s[k].start <= n
      BY <1>2, <1>3, <3>1
    <3>3. t[k] = [s[k] EXCEPT !.end = n] /\ n < s[k].end /\ s[k].type = "Usable"
      BY <1>2, <1>4, <2>1, <3>2
    <3>4. n = s[k + 1].start
      OBVIOUS
    <3> HIDE DEF n, Short
    <3>5. t[k] \in Region /\ t[k].start = s[k].start /\ t[k].end = n /\ t[k].type = s[k].type
      <4>1. s[k] \in Region /\ n \in Nat
        BY <1>2, <3>2
      <4>2. /\ [s[k] EXCEPT !.end = n] \in Region /\ [s[k] EXCEPT !.end = n].start = s[k].start
            /\ [s[k] EXCEPT !.end = n].end = n /\ [s[k] EXCEPT !.end = n].type = s[k].type
        BY <4>1, BorderMoves
      <4> QED
        BY <3>3, <4>2
    <3>6. ASSUME NEW l \in DOMAIN s, k < l PROVE n <= s[l].start
      <4>1. k + 1 <= l
        BY <1>2, <3>6
      <4> QED
        BY <1>3, <3>1, <3>4, <4>1
    <3>7. s[k].start <= t[k].end /\ t[k].end <= s[k].end
      BY <1>2, <3>2, <3>3, <3>5
    <3>8. \E j \in DOMAIN s : t[k].end = s[j].start
      BY <3>1, <3>4, <3>5
    <3>9. \A l \in DOMAIN s : k < l => t[k].end <= s[l].start
      BY <3>5, <3>6
    <3> QED
      BY <3>3, <3>5, <3>7, <3>8, <3>9
  <2>2. CASE ~ Short(k)
    <3>1. t[k] = s[k]
      BY <1>4, <2>2
    <3>2. ASSUME NEW l \in DOMAIN s, k < l PROVE s[k].end <= s[l].start
      <4>1. CASE s[k].type = "Usable"
        <5>1. k < Len(s) /\ k + 1 \in DOMAIN s /\ k + 1 <= l
          BY <1>1, <1>2, <3>2
        <5>2. ~ (s[k].end > s[k + 1].start)
          BY <2>2, <4>1, <5>1
        <5>3. s[k + 1].start <= s[l].start
          BY <1>3, <5>1
        <5> QED
          BY <1>2, <5>1, <5>2, <5>3
      <4>2. CASE s[k].type # "Usable"
        <5>1. k # l
          BY <1>2, <3>2
        <5> QED
          BY <3>2, <4>2, <5>1 DEF Clear
      <4> QED
        BY <4>1, <4>2
    <3> QED
      BY <1>2, <3>1, <3>2
  <2> QED
    BY <2>1, <2>2
<1> HIDE DEF Short
<1>6. t \in Seq(Region) /\ Len(t) = Len(s)
  <2>1. t = [k \in 1 .. Len(s) |-> t[k]]
    BY <1>1 DEF trim_usable
  <2>2. \A k \in 1 .. Len(s) : t[k] \in Region
    BY <1>1, <1>5
  <2>3. t \in [1 .. Len(s) -> Region]
    BY <2>1, <2>2
  <2> QED
    BY <1>1, <2>3
<1>7. Ordered(t)
  <2>1. \A k \in DOMAIN s : t[k].start <= t[k].end
    BY <1>5
  <2>2. \A k, l \in DOMAIN s : k < l => t[k].end <= t[l].start
    BY <1>5
  <2> QED
    BY <1>4, <2>1, <2>2 DEF Ordered
<1>8. \A k \in DOMAIN s : Frames(t[k]) \subseteq Frames(s[k])
  <2> SUFFICES ASSUME NEW k \in DOMAIN s PROVE Frames(t[k]) \subseteq Frames(s[k])
    OBVIOUS
  <2>1. t[k].end \in Nat
    BY <1>5 DEF Region
  <2> QED
    BY <1>2, <1>5, <2>1 DEF Frames
<1>9. \A f, type : Owns(t, f, type) => Owns(s, f, type)
  BY <1>4, <1>5, <1>8 DEF Owns
<1>10. \A f, type : type # "Usable" /\ Owns(s, f, type) => Owns(t, f, type)
  BY <1>4, <1>5 DEF Owns
<1>11. Borders(t) \subseteq Borders(s)
  BY <1>4, <1>5 DEF Borders
<1> QED
  BY <1>4, <1>6, <1>7, <1>9, <1>10, <1>11

(* The map create_from returns. *)
LEMMA TrimPreserves == BInv /\ trim_regions => BInv'
<1> SUFFICES ASSUME BInv, trim_regions PROVE BInv'
  OBVIOUS
<1> DEFINE s == sort(memory_map)
           t == trim_usable(s)
<1>1. /\ pc = "create_from" /\ added = EntryCount
      /\ UNCHANGED <<firmware, layout, ebx, e820, added, todo>>
      /\ memory_map' = t
      /\ pc' = IF memory_map = <<>> THEN "no_map" ELSE "mark"
  BY DEF trim_regions
<1>2. Tidy /\ Stored /\ Gathered /\ todo = MarkOrder
  BY <1>1 DEF BInv
<1>3. Tidy' /\ todo' = MarkOrder
  BY <1>1, <1>2 DEF Tidy
<1>4. pc' \in {"mark", "no_map"}
  BY <1>1
<1>5. Stored'
  <2>1. pc' # "e820" /\ pc # "e820"
    BY <1>1, <1>4
  <2>2. ebx \in {0, Len(firmware)}
    BY <1>2, <2>1 DEF Stored
  <2> QED
    BY <1>1, <1>2, <2>1, <2>2 DEF Stored
<1>6. memory_map \in Seq(Region) /\ Len(memory_map) <= MAX_MEMORY_MAP_SIZE
  BY <1>2 DEF Gathered
<1>7. /\ added = Len(e820) /\ DOMAIN e820 = 1 .. added
      /\ e820 \in Seq(E820Entry) /\ Len(e820) \in Nat
  <2>1. added = Len(e820) /\ Len(e820) \in Nat
    BY <1>1, <1>2, EntryCountIs
  <2>2. e820 \in Seq(E820Entry)
    BY <1>2 DEF Stored
  <2> QED
    BY <2>1, <2>2
<1>8. \A l \in DOMAIN e820 : /\ e820[l] \in E820Entry /\ Answered(e820[l]) /\ Known(e820[l])
                             /\ from(e820[l]).start < from(e820[l]).end
                             /\ ~ is_empty(from(e820[l]))
                             /\ from(e820[l]).type = "Usable" <=> e820[l].type = 1
  BY <1>2, <1>7, StoredEntries, FromIs DEF Gathered
<1>9. ASSUME NEW k \in DOMAIN memory_map PROVE k \in Kept(memory_map)
  <2>1. PICK l \in 1 .. added : memory_map[k] = from(e820[l])
    BY <1>2 DEF Gathered
  <2> QED
    BY <1>7, <1>8, <2>1 DEF Kept
<1>10. /\ s \in Seq(Region) /\ Len(s) <= Len(memory_map) /\ DOMAIN s = 1 .. Len(s)
       /\ Len(s) \in Nat
  <2>1. s \in Seq(Region) /\ Len(s) <= Len(memory_map)
    BY <1>6, SortIs
  <2> HIDE DEF s
  <2> QED
    BY <2>1
<1>11. PICK p \in [1 .. Len(s) -> Kept(memory_map)] :
         /\ \A i, j \in 1 .. Len(s) : p[i] = p[j] => i = j
         /\ \A i \in Kept(memory_map) : \E k \in 1 .. Len(s) : p[k] = i
         /\ \A k \in 1 .. Len(s) : s[k] = memory_map[p[k]]
         /\ \A i, j \in 1 .. Len(s) : i < j => ~ Before(s[j], s[i])
  BY <1>6, SortIs
<1> HIDE DEF s
<1>12. Kept(memory_map) \subseteq DOMAIN memory_map
  BY DEF Kept
<1>13. \A k \in DOMAIN s : \E l \in DOMAIN e820 : s[k] = from(e820[l])
  <2>1. \A k \in DOMAIN memory_map : \E l \in DOMAIN e820 : memory_map[k] = from(e820[l])
    BY <1>2, <1>7 DEF Gathered
  <2> QED
    BY <1>10, <1>11, <1>12, <2>1
<1>14. \A l \in DOMAIN e820 : \E k \in DOMAIN s : s[k] = from(e820[l])
  <2>1. \A l \in DOMAIN e820 : \E k \in DOMAIN memory_map : memory_map[k] = from(e820[l])
    BY <1>2, <1>7 DEF Gathered
  <2> QED
    BY <1>9, <1>10, <1>11, <2>1
<1>15. \A k, l \in DOMAIN s : k # l => Clear(s[k], s[l])
  <2>1. \A k, l \in DOMAIN memory_map : k # l => Clear(memory_map[k], memory_map[l])
    BY <1>2 DEF Gathered
  <2> QED
    BY <1>10, <1>11, <1>12, <2>1
<1>16. \A k \in DOMAIN s : s[k].start <= s[k].end
  <2> SUFFICES ASSUME NEW k \in DOMAIN s PROVE s[k].start <= s[k].end
    OBVIOUS
  <2>1. s[k].start < s[k].end
    BY <1>8, <1>13
  <2>2. s[k].start \in Nat /\ s[k].end \in Nat
    BY <1>10, RegionFields
  <2> QED
    BY <2>1, <2>2
<1>17. /\ t \in Seq(Region) /\ Len(t) = Len(s)
       /\ Ordered(t)
       /\ \A f, type : Owns(t, f, type) => Owns(s, f, type)
       /\ \A f, type : type # "Usable" /\ Owns(s, f, type) => Owns(t, f, type)
       /\ Borders(t) \subseteq Borders(s)
  BY <1>10, <1>11, <1>15, <1>16, TrimIs
<1> HIDE DEF t
<1>18. Mapped'
  <2>1. Len(t) <= MAX_MEMORY_MAP_SIZE
    BY <1>6, <1>10, <1>17, MapSizeAssumption
  <2> QED
    BY <1>1, <1>17, <2>1 DEF Mapped
<1>19. ASSUME memory_map # <<>> PROVE ebx = Len(firmware)
  <2>1. Len(memory_map) # 0
    BY <1>6, <1>19
  <2>2. 1 \in DOMAIN memory_map
    BY <1>6, <2>1
  <2>3. Len(e820) # 0
    BY <1>2, <1>7, <2>2 DEF Gathered
  <2>4. ebx # 0 /\ ebx \in {0, Len(firmware)}
    BY <1>1, <1>2, <1>7, <2>3 DEF Stored
  <2> QED
    BY <2>4
<1>20. ASSUME NEW l \in DOMAIN e820 PROVE \E g \in Listed(firmware) : e820[l] = firmware[g]
  <2>1. PICK g \in 1 .. ebx : Answered(firmware[g]) /\ e820[l] = firmware[g]
    BY <1>2 DEF Stored
  <2>2. g \in DOMAIN firmware
    <3>1. firmware \in Seq(E820Entry) /\ ebx \in 0 .. Len(firmware) /\ Len(firmware) \in Nat
      BY <1>2, TidyEntries DEF Stored
    <3> QED
      BY <2>1, <3>1
  <2> QED
    BY <1>8, <2>1, <2>2 DEF Listed, Known
<1>21. ASSUME NEW f, Owns(t, f, "Usable") PROVE f \in FramesListed({1})
  <2>1. PICK k \in DOMAIN s : s[k].type = "Usable" /\ f \in Frames(s[k])
    BY <1>17, <1>21 DEF Owns
  <2>2. PICK l \in DOMAIN e820 : s[k] = from(e820[l])
    BY <1>13
  <2>3. PICK g \in Listed(firmware) : e820[l] = firmware[g]
    BY <1>20
  <2>4. firmware[g].type = 1 /\ f \in Frames(from(firmware[g]))
    BY <1>8, <2>1, <2>2, <2>3
  <2> QED
    BY <2>4 DEF FramesListed
<1>22. ASSUME memory_map # <<>>, NEW f, Owns(t, f, "Usable") PROVE f \notin ReservedFrames
  <2> SUFFICES ASSUME f \in ReservedFrames PROVE FALSE
    OBVIOUS
  <2>1. PICK g \in Listed(firmware) : firmware[g].type # 1 /\ f \in Frames(from(firmware[g]))
    BY DEF ReservedFrames, FramesListed
  <2>2. g \in 1 .. ebx /\ Answered(firmware[g])
    <3>1. g \in DOMAIN firmware /\ Answered(firmware[g])
      BY DEF Listed
    <3>2. firmware \in Seq(E820Entry)
      BY <1>2, TidyEntries
    <3> QED
      BY <1>19, <1>22, <3>1, <3>2
  <2>3. PICK l \in DOMAIN e820 : e820[l] = firmware[g]
    BY <1>2, <2>2 DEF Stored
  <2>4. PICK k \in DOMAIN s : s[k] = from(e820[l])
    BY <1>14
  <2>5. s[k].type # "Usable" /\ f \in Frames(s[k])
    BY <1>8, <2>1, <2>3, <2>4
  <2>6. Owns(t, f, s[k].type)
    BY <1>17, <2>5 DEF Owns
  <2>7. PICK i \in DOMAIN t : t[i].type = s[k].type /\ f \in Frames(t[i])
    BY <2>6 DEF Owns
  <2>8. PICK j \in DOMAIN t : t[j].type = "Usable" /\ f \in Frames(t[j])
    BY <1>22 DEF Owns
  <2>9. i = j
    BY <1>17, <2>7, <2>8, OneOwner
  <2> QED
    BY <2>5, <2>7, <2>8, <2>9
<1>23. ASSUME NEW type \in MarkTypes PROVE Borders(t) \cap Inside(RegionOf(type)) = {}
  <2>1. PICK i \in DOMAIN MarkOrder : MarkOrder[i] = type
    BY DEF MarkOrder, MarkTypes
  <2>2. ASSUME NEW b \in Borders(s) PROVE b \notin Inside(RegionOf(type))
    <3>1. PICK k \in DOMAIN s : b = s[k].start \/ b = s[k].end
      BY DEF Borders
    <3>2. PICK l \in DOMAIN e820 : s[k] = from(e820[l])
      BY <1>13
    <3>3. PICK g \in Listed(firmware) : e820[l] = firmware[g]
      BY <1>20
    <3>4. {from(firmware[g]).start, from(firmware[g]).end} \cap Inside(RegionIn(layout, MarkOrder[i])) = {}
      BY <1>2 DEF Tidy, TidyMemory
    <3> QED
      BY <2>1, <3>1, <3>2, <3>3, <3>4 DEF RegionOf
  <2> QED
    BY <1>17, <2>2
<1>24. ASSUME memory_map # <<>> PROVE Marked'
  <2>1. /\ todo' \in Seq(MarkTypes) /\ \A k \in DOMAIN todo' : todo'[k] \in MarkTypes
        /\ \A type \in MarkTypes : \E k \in DOMAIN todo' : todo'[k] = type
    BY <1>3 DEF MarkOrder, MarkTypes
  <2>2. \A type : RegionOf(type)' = RegionOf(type)
    BY <1>1 DEF RegionOf
  <2>3. FramesListed({1})' = FramesListed({1}) /\ ReservedFrames' = ReservedFrames
    BY <1>1 DEF ReservedFrames, FramesListed
  <2> QED
    BY <1>1, <1>21, <1>22, <1>23, <1>24, <2>1, <2>2, <2>3 DEF Marked
<1>25. pc' = "mark" => memory_map # <<>>
  BY <1>1
<1> QED
  BY <1>3, <1>4, <1>5, <1>18, <1>24, <1>25 DEF BInv

-----------------------------------------------------------------------------
(* bootloader_main: the marks and the allocations. *)

LEMMA MarkPreserves == BInv /\ mark_used => BInv'
<1> SUFFICES ASSUME BInv, mark_used PROVE BInv'
  OBVIOUS
<1> DEFINE type == Head(todo)
           region == RegionOf(type)
           r == mark_allocated_region(memory_map, region)
<1>1. /\ pc = "mark" /\ todo # <<>>
      /\ UNCHANGED <<firmware, layout, ebx, e820, added>>
      /\ memory_map' = IF r.outcome = "panic" THEN memory_map ELSE r.map
      /\ todo' = Tail(todo)
      /\ pc' = IF r.outcome = "panic" THEN "panic"
               ELSE IF Tail(todo) = <<>> THEN "allocate" ELSE "mark"
  BY DEF mark_used
<1>2. Tidy /\ Stored /\ Mapped /\ Marked
  BY <1>1 DEF BInv, HasMap
<1>3. Tidy'
  BY <1>1, <1>2 DEF Tidy
<1>4. pc' \in {"mark", "allocate", "panic"}
  BY <1>1
<1>5. Stored'
  <2>1. pc' # "e820" /\ pc # "e820"
    BY <1>1, <1>4
  <2>2. ebx \in {0, Len(firmware)}
    BY <1>2, <2>1 DEF Stored
  <2> QED
    BY <1>1, <1>2, <2>1, <2>2 DEF Stored
<1>6. CASE r.outcome = "panic"
  <2>1. pc' = "panic" /\ memory_map' = memory_map
    BY <1>1, <1>6
  <2>2. Mapped'
    BY <1>2, <2>1 DEF Mapped
  <2> QED
    BY <1>3, <1>5, <2>1, <2>2 DEF BInv
<1>7. CASE r.outcome # "panic"
  <2>1. /\ memory_map' = r.map /\ todo' = Tail(todo) /\ pc' \in {"mark", "allocate"}
        /\ pc' = "allocate" => todo' = <<>>
    BY <1>1, <1>7
  <2>2. todo \in Seq(MarkTypes) /\ type \in MarkTypes /\ 1 \in DOMAIN todo /\ type = todo[1]
    <3>1. todo \in Seq(MarkTypes) /\ todo # <<>>
      BY <1>1, <1>2 DEF Marked
    <3> QED
      BY <3>1
  <2>3. region \in Region /\ region.start < region.end /\ region.type = type
    BY <1>2, <2>2, MarkedRegionIs
  <2>4. Borders(memory_map) \cap Inside(region) = {}
    BY <1>2, <2>2 DEF Marked
  <2>5. r = mark_allocated_region(memory_map, region)
    OBVIOUS
  <2> HIDE DEF r, region
  <2>6. /\ r.map \in Seq(Region) /\ Len(r.map) <= MAX_MEMORY_MAP_SIZE
        /\ Ordered(r.map)
        /\ Claims(memory_map, r.map, Frames(region), region.type)
        /\ Borders(r.map) \subseteq Borders(memory_map) \cup {region.start, region.end}
    BY <1>2, <1>7, <2>3, <2>4, <2>5, MarkIs DEF Mapped
  <2>7. Mapped'
    BY <2>1, <2>6 DEF Mapped
  <2>8. region.type # "Usable"
    BY <2>2, <2>3 DEF MarkTypes
  <2>9. ASSUME NEW f, Owns(r.map, f, "Usable")
        PROVE  Owns(memory_map, f, "Usable") /\ f \notin Frames(region)
    BY <2>6, <2>8, <2>9 DEF Claims
  <2>10. /\ todo' \in Seq(MarkTypes)
         /\ \A k \in DOMAIN todo' : k + 1 \in DOMAIN todo /\ todo'[k] = todo[k + 1]
         /\ \A k \in DOMAIN todo : k = 1 \/ (k - 1 \in DOMAIN todo' /\ todo'[k - 1] = todo[k])
    <3>1. todo \in Seq(MarkTypes) /\ todo # <<>> /\ todo' = Tail(todo)
      BY <1>1, <2>1, <2>2
    <3> QED
      BY <3>1
  <2>11. ASSUME NEW other \in MarkTypes, \A k \in DOMAIN todo' : todo'[k] # other,
                NEW f \in Frames(RegionOf(other))
         PROVE  ~ Owns(r.map, f, "Usable")
    <3>1. CASE other = type
      BY <2>9, <3>1 DEF region
    <3>2. CASE other # type
      <4>1. \A k \in DOMAIN todo : todo[k] # other
        BY <2>2, <2>10, <2>11, <3>2
      <4>2. ~ Owns(memory_map, f, "Usable")
        BY <1>2, <4>1 DEF Marked
      <4> QED
        BY <2>9, <4>2
    <3> QED
      BY <3>1, <3>2
  <2>12. ASSUME NEW k \in DOMAIN todo'
         PROVE  Borders(r.map) \cap Inside(RegionOf(todo'[k])) = {}
    <3>1. k + 1 \in DOMAIN todo /\ todo'[k] = todo[k + 1] /\ todo'[k] \in MarkTypes
      BY <2>10
    <3>2. Borders(memory_map) \cap Inside(RegionOf(todo'[k])) = {}
      BY <1>2, <3>1 DEF Marked
    <3>3. {region.start, region.end} \cap Inside(RegionOf(todo'[k])) = {}
      BY <1>2, <2>2, <3>1, MarkedApart DEF region
    <3> QED
      BY <2>6, <3>2, <3>3
  <2>13. \A other : RegionOf(other)' = RegionIn(layout, other)
    BY <1>1 DEF RegionOf
  <2>14. FramesListed({1})' = FramesListed({1}) /\ ReservedFrames' = ReservedFrames
    BY <1>1 DEF ReservedFrames, FramesListed
  <2>15. \A f : Owns(r.map, f, "Usable") => f \in FramesListed({1}) /\ f \notin ReservedFrames
    BY <1>2, <2>9 DEF Marked
  <2>16. Marked'
    <3>1. \A f : Owns(memory_map', f, "Usable") => f \in FramesListed({1})' /\ f \notin ReservedFrames'
      BY <2>1, <2>14, <2>15
    <3>2. \A other \in MarkTypes :
            (\A k \in DOMAIN todo' : todo'[k] # other) =>
                \A f \in Frames(RegionIn(layout', other)) : ~ Owns(memory_map', f, "Usable")
      BY <1>1, <2>1, <2>11 DEF RegionOf
    <3>3. \A k \in DOMAIN todo' : Borders(memory_map') \cap Inside(RegionIn(layout', todo'[k])) = {}
      BY <1>1, <2>1, <2>12 DEF RegionOf
    <3> QED
      BY <2>10, <3>1, <3>2, <3>3 DEF Marked, RegionOf
  <2> QED
    BY <1>3, <1>5, <2>1, <2>7, <2>16 DEF BInv
<1> QED
  BY <1>6, <1>7

(* allocate_frame keeps it: the frame comes out of a usable region, and    *)
(* the other owners keep theirs.                                           *)
LEMMA AllocatePreserves ==
    ASSUME BInv, NEW type \in Allocated, allocate(type)
    PROVE  BInv'
<1> DEFINE r == allocate_frame(memory_map, type)
<1>1. /\ pc = "allocate"
      /\ UNCHANGED <<firmware, layout, ebx, e820, added, todo>>
      /\ memory_map' = IF r.outcome = "panic" THEN memory_map ELSE r.map
      /\ pc' = IF r.outcome = "ok" THEN "allocate" ELSE "panic"
  BY DEF allocate
<1>2. Tidy /\ Stored /\ Mapped /\ Marked /\ todo = <<>>
  BY <1>1 DEF BInv, HasMap
<1>3. Tidy' /\ todo' = <<>>
  BY <1>1, <1>2 DEF Tidy
<1>4. pc' \in {"allocate", "panic"}
  BY <1>1
<1>5. Stored'
  <2>1. pc' # "e820" /\ pc # "e820"
    BY <1>1, <1>4
  <2>2. ebx \in {0, Len(firmware)}
    BY <1>2, <2>1 DEF Stored
  <2> QED
    BY <1>1, <1>2, <2>1, <2>2 DEF Stored
<1>6. CASE r.outcome = "ok"
  <2>1. memory_map' = r.map /\ pc' = "allocate"
    BY <1>1, <1>6
  <2>2. r = allocate_frame(memory_map, type) /\ type \in RegionType /\ type # "Usable"
    BY DEF RegionType, Allocated
  <2> HIDE DEF r
  <2>3. /\ r.map \in Seq(Region) /\ Len(r.map) <= MAX_MEMORY_MAP_SIZE
        /\ Ordered(r.map)
        /\ \E f \in Nat : Owns(memory_map, f, "Usable") /\ Claims(memory_map, r.map, {f}, type)
    BY <1>2, <1>6, <2>2, AllocateIs DEF Mapped
  <2>4. Mapped'
    BY <2>1, <2>3 DEF Mapped
  <2>5. ASSUME NEW f, Owns(r.map, f, "Usable") PROVE Owns(memory_map, f, "Usable")
    BY <2>2, <2>3, <2>5 DEF Claims
  <2>6. Marked'
    <3>1. FramesListed({1})' = FramesListed({1}) /\ ReservedFrames' = ReservedFrames
      BY <1>1 DEF ReservedFrames, FramesListed
    <3>2. \A f : Owns(memory_map', f, "Usable") => f \in FramesListed({1})' /\ f \notin ReservedFrames'
      BY <1>2, <2>1, <2>5, <3>1 DEF Marked
    <3>3. DOMAIN todo = {} /\ todo \in Seq(MarkTypes)
      BY <1>2
    <3>4. \A other \in MarkTypes :
             \A f \in Frames(RegionIn(layout', other)) : ~ Owns(memory_map', f, "Usable")
      BY <1>1, <1>2, <2>1, <2>5, <3>3 DEF Marked, RegionOf
    <3> QED
      BY <1>1, <3>2, <3>3, <3>4 DEF Marked, RegionOf
  <2> QED
    BY <1>3, <1>5, <2>1, <2>4, <2>6 DEF BInv
<1>7. CASE r.outcome # "ok"
  <2>1. pc' = "panic"
    BY <1>1, <1>7
  <2>2. memory_map' = memory_map
    <3>1. (r.outcome = "none" /\ r.map = memory_map) \/ r.outcome = "panic"
      BY <1>7, AllocateFails
    <3> QED
      BY <1>1, <3>1
  <2>3. Mapped'
    BY <1>2, <2>2 DEF Mapped
  <2> QED
    BY <1>3, <1>5, <2>1, <2>3 DEF BInv
<1> QED
  BY <1>6, <1>7

-----------------------------------------------------------------------------
(* It holds when the first stage starts with a tidy BIOS map. *)
LEMMA InitInv == Init /\ Tidy => BInv
<1> SUFFICES ASSUME Init, Tidy PROVE BInv
  OBVIOUS
<1>1. /\ pc = "e820" /\ ebx = 0 /\ e820 = <<>> /\ added = 0 /\ memory_map = <<>>
      /\ todo = MarkOrder
  BY DEF Init
<1>2. Len(firmware) \in Nat
  BY TidyEntries
<1>3. Stored
  <2>1. 1 .. ebx = {} /\ DOMAIN e820 = {} /\ e820 \in Seq(E820Entry) /\ Len(e820) = 0
    BY <1>1
  <2>2. ebx \in 0 .. Len(firmware)
    BY <1>1, <1>2
  <2>3. Len(e820) <= ebx
    BY <1>1, <2>1
  <2> QED
    BY <1>1, <2>1, <2>2, <2>3 DEF Stored
<1> QED
  BY <1>1, <1>3 DEF BInv, HasMap

(* A step of something else keeps it. *)
LEMMA StutterPreserves == BInv /\ UNCHANGED vars => BInv'
<1> SUFFICES ASSUME BInv, UNCHANGED vars PROVE BInv'
  OBVIOUS
<1>1. UNCHANGED <<pc, firmware, layout, ebx, e820, added, memory_map, todo>>
  BY DEF vars
<1>2. Stored' = Stored
  BY <1>1 DEF Stored
<1>3. Gathered' = Gathered
  BY <1>1 DEF Gathered
<1>4. Mapped' = Mapped
  BY <1>1 DEF Mapped
<1>5. Marked' = Marked
  BY <1>1 DEF Marked, RegionOf, ReservedFrames, FramesListed
<1>6. Tidy' = Tidy
  BY <1>1 DEF Tidy
<1> QED
  BY <1>1, <1>2, <1>3, <1>4, <1>5, <1>6 DEF BInv, HasMap

(* The invariant is inductive. *)
LEMMA NextPreserves == BInv /\ [Next]_vars => BInv'
<1> SUFFICES ASSUME BInv, [Next]_vars PROVE BInv'
  OBVIOUS
<1>1. CASE do_e820
  BY <1>1, E820Preserves
<1>2. CASE add_entry
  BY <1>2, AddPreserves
<1>3. CASE trim_regions
  BY <1>3, TrimPreserves
<1>4. CASE mark_used
  BY <1>4, MarkPreserves
<1>5. ASSUME NEW type \in Allocated, allocate(type) PROVE BInv'
  BY <1>5, AllocatePreserves
<1>6. CASE halted
  BY <1>6, StutterPreserves DEF halted
<1>7. CASE UNCHANGED vars
  BY <1>7, StutterPreserves
<1> QED
  BY <1>1, <1>2, <1>3, <1>4, <1>5, <1>6, <1>7 DEF Next, create_from

(* For a tidy list and layout the inductive invariant always holds. *)
THEOREM InvHolds == Spec /\ Tidy => []BInv
<1>1. Init /\ Tidy => BInv
  BY InitInv
<1>2. BInv /\ [Next]_vars => BInv'
  BY NextPreserves
<1> QED
  BY <1>1, <1>2, PTL DEF Spec

(* No frame is in two regions once create_from has returned: for every     *)
(* tidy list and layout, every page size and every capacity of the map,    *)
(* sort, the trim, the marks and the borders allocate_frame moves leave no *)
(* overlap.                                                                *)
THEOREM RegionsDisjointHolds == Spec /\ Tidy => []RegionsDisjoint
<1>1. BInv => RegionsDisjoint
  <2> SUFFICES ASSUME BInv, HasMap PROVE RegionsDisjoint
    BY DEF RegionsDisjoint
  <2>1. memory_map \in Seq(Region) /\ Len(memory_map) <= MAX_MEMORY_MAP_SIZE /\ Ordered(memory_map)
    BY DEF BInv, Mapped
  <2>2. \A r \in Regions : r.start <= r.end
    BY <2>1 DEF Regions, Ordered
  <2>3. ASSUME NEW i \in DOMAIN memory_map, NEW j \in DOMAIN memory_map, i # j
        PROVE  Frames(memory_map[i]) \cap Frames(memory_map[j]) = {}
    BY <2>1, <2>3, OneOwner
  <2> QED
    BY <2>1, <2>2, <2>3 DEF RegionsDisjoint
<1> QED
  BY <1>1, InvHolds, PTL

(* What allocate_frame may hand out is memory the firmware lists as usable *)
(* and nothing else, and none of it holds frame 0, the bootloader, the     *)
(* kernel's file or the page tables in use.                                *)
THEOREM UsableIsUnusedHolds == Spec /\ Tidy => []UsableIsUnused
<1>1. BInv => UsableIsUnused
  <2> SUFFICES ASSUME BInv, pc = "allocate" PROVE UsableIsUnused
    BY DEF UsableIsUnused
  <2>1. Marked /\ todo = <<>>
    BY DEF BInv
  <2>2. ASSUME NEW f \in OwnedBy("Usable") PROVE Owns(memory_map, f, "Usable")
    BY DEF OwnedBy, Regions, Owns
  <2>3. ASSUME NEW i \in DOMAIN MarkOrder, NEW f \in OwnedBy("Usable")
        PROVE  f \notin Frames(RegionOf(MarkOrder[i]))
    <3>1. MarkOrder[i] \in MarkTypes
      BY DEF MarkOrder, MarkTypes
    <3>2. \A k \in DOMAIN todo : todo[k] # MarkOrder[i]
      BY <2>1
    <3> QED
      BY <2>1, <2>2, <3>1, <3>2 DEF Marked
  <2>4. OwnedBy("Usable") \subseteq FramesListed({1}) /\ OwnedBy("Usable") \cap ReservedFrames = {}
    BY <2>1, <2>2 DEF Marked
  <2> QED
    BY <2>3, <2>4 DEF UsableIsUnused
<1> QED
  BY <1>1, InvHolds, PTL

-----------------------------------------------------------------------------
(* Frame ownership. *)

(* The owner of a frame is the type of the one region it is in. *)
LEMMA OwnerOfIs ==
    ASSUME NEW map \in Seq(Region), Ordered(map), NEW f
    PROVE  \/ /\ OwnerOf(map, f) = "Unlisted"
              /\ \A type : ~ Owns(map, f, type)
           \/ /\ OwnerOf(map, f) \in RegionType
              /\ \A type : Owns(map, f, type) <=> type = OwnerOf(map, f)
<1> DEFINE here == {i \in DOMAIN map : f \in Frames(map[i])}
<1>1. OwnerOf(map, f) = IF here = {} THEN "Unlisted" ELSE map[Min(here)].type
  BY DEF OwnerOf
<1>2. CASE here = {}
  BY <1>1, <1>2 DEF Owns
<1>3. CASE here # {}
  <2> DEFINE i == Min(here)
  <2>1. i \in here
    <3>1. here \subseteq Nat
      OBVIOUS
    <3> HIDE DEF here
    <3> QED
      BY <1>3, <3>1, MinIs
  <2>2. OwnerOf(map, f) = map[i].type
    BY <1>1, <1>3
  <2> HIDE DEF i
  <2>3. i \in DOMAIN map /\ f \in Frames(map[i])
    BY <2>1
  <2>4. map[i].type \in RegionType
    BY <2>3, RegionFields
  <2>5. ASSUME NEW j \in DOMAIN map, f \in Frames(map[j]) PROVE j = i
    BY <2>3, <2>5, OneOwner
  <2> QED
    BY <2>2, <2>3, <2>4, <2>5 DEF Owns
<1> QED
  BY <1>2, <1>3

(* Usable frames that are claimed are the only ones whose owner changes. *)
LEMMA ClaimRefines ==
    ASSUME NEW map \in Seq(Region), Ordered(map), NEW map2 \in Seq(Region), Ordered(map2),
           NEW S, NEW o, Claims(map, map2, S, o), \A f \in S : Owns(map, f, "Usable"),
           NEW f, OwnerOf(map2, f) # OwnerOf(map, f)
    PROVE  OwnerOf(map, f) = "Usable" /\ OwnerOf(map2, f) = o
<1>1. \A type : Owns(map2, f, type) <=>
         (f \in S /\ type = o) \/ (f \notin S /\ Owns(map, f, type))
  BY DEF Claims
<1>2. CASE f \in S
  <2>1. OwnerOf(map, f) = "Usable"
    BY <1>2, OwnerOfIs
  <2>2. Owns(map2, f, o)
    BY <1>1, <1>2
  <2>3. OwnerOf(map2, f) = o
    BY <2>2, OwnerOfIs
  <2> QED
    BY <2>1, <2>3
<1>3. CASE f \notin S
  <2>1. \A type : Owns(map2, f, type) <=> Owns(map, f, type)
    BY <1>1, <1>3
  <2>2. CASE \A type : ~ Owns(map, f, type)
    BY <2>1, <2>2, OwnerOfIs
  <2>3. CASE Owns(map, f, OwnerOf(map, f))
    BY <2>1, <2>3, OwnerOfIs
  <2> QED
    BY <2>2, <2>3, OwnerOfIs
<1> QED
  BY <1>2, <1>3

Own == [f \in Frame |-> OwnerOf(IF HasMap THEN memory_map ELSE <<>>, f)]

(* Every frame has an owner of the abstract specification. *)
OwnersTyped ==
    /\ Own \in Ownership!Owners
    /\ ~ HasMap => Own = [f \in Frame |-> "Unlisted"]

(* Once there is a map, the owners of its frames are regions of the types  *)
(* the abstract specification knows.                                       *)
LEMMA OwnersMapped == BInv => OwnersTyped
<1> SUFFICES ASSUME BInv PROVE OwnersTyped
  OBVIOUS
<1>1. RegionType \subseteq {"Reserved", "AcpiReclaimable", "AcpiNvs", "BadMemory", "FrameZero",
                            "Bootloader"} \cup Allocated \cup {"Usable", "Unlisted"}
  BY DEF RegionType
<1>2. CASE ~ HasMap
  <2>1. \A f \in Frame : OwnerOf(<<>>, f) = "Unlisted"
    BY DEF OwnerOf
  <2>2. Own = [f \in Frame |-> "Unlisted"]
    BY <1>2, <2>1 DEF Own
  <2> QED
    BY <2>2 DEF OwnersTyped, Ownership!Owners, Ownership!Unlisted
<1>3. CASE HasMap
  <2>1. memory_map \in Seq(Region) /\ Ordered(memory_map)
    BY <1>3 DEF BInv, Mapped
  <2>2. \A f \in Frame : OwnerOf(memory_map, f) \in RegionType \cup {"Unlisted"}
    BY <2>1, OwnerOfIs
  <2>3. Own = [f \in Frame |-> OwnerOf(memory_map, f)]
    BY <1>3 DEF Own
  <2> QED
    BY <1>1, <1>3, <2>2, <2>3 DEF OwnersTyped, Ownership!Owners, Ownership!Unlisted
<1> QED
  BY <1>2, <1>3

(* A step that claims frames is a step of the abstract specification. *)
LEMMA ClaimStep ==
    ASSUME BInv, BInv', OwnersTyped', HasMap, HasMap', NEW S, NEW o \in RegionType \ {"Usable"},
           Claims(memory_map, memory_map', S, o), \A f \in S : Owns(memory_map, f, "Usable")
    PROVE  Ownership!Next
<1>1. /\ memory_map \in Seq(Region) /\ Ordered(memory_map)
      /\ memory_map' \in Seq(Region) /\ Ordered(memory_map')
  BY DEF BInv, Mapped
<1>2. Own' \in Ownership!Owners
  BY DEF OwnersTyped, Ownership!Owners, Ownership!Unlisted
<1>3. ASSUME NEW f \in Frame, Own'[f] # Own[f] PROVE Own[f] = "Usable" /\ Own'[f] = o
  <2>1. Own[f] = OwnerOf(memory_map, f) /\ Own'[f] = OwnerOf(memory_map', f)
    BY DEF Own, Frame
  <2>2. OwnerOf(memory_map', f) # OwnerOf(memory_map, f)
    BY <1>3, <2>1
  <2>3. OwnerOf(memory_map, f) = "Usable" /\ OwnerOf(memory_map', f) = o
    BY <1>1, <2>2, ClaimRefines
  <2> QED
    BY <2>1, <2>3
<1>4. o \in {"Reserved", "AcpiReclaimable", "AcpiNvs", "BadMemory", "FrameZero",
             "Bootloader"} \cup Allocated
  BY DEF RegionType
<1> QED
  BY <1>2, <1>3, <1>4 DEF Ownership!Next, Ownership!Claim, Own

(* Every step of the bootloader is a step of the abstract specification or *)
(* leaves the owners alone.                                                *)
LEMMA StepRefines ==
    BInv /\ BInv' /\ OwnersTyped /\ OwnersTyped' /\ [Next]_vars => [Ownership!Next]_Own
<1> SUFFICES ASSUME BInv, BInv', OwnersTyped, OwnersTyped', [Next]_vars
             PROVE  Ownership!Next \/ Own' = Own
  OBVIOUS
<1>1. ASSUME ~ HasMap, ~ HasMap' PROVE Own' = Own
  <2>1. Own = [f \in Frame |-> "Unlisted"] /\ Own' = [f \in Frame |-> "Unlisted"]
    BY <1>1 DEF OwnersTyped, Frame
  <2> QED
    BY <2>1
<1>2. CASE do_e820
  BY <1>1, <1>2 DEF do_e820, HasMap
<1>3. CASE add_entry
  BY <1>1, <1>3 DEF add_entry, HasMap
<1>4. CASE trim_regions
  <2>1. ~ HasMap
    BY <1>4 DEF trim_regions, HasMap
  <2>2. Own = [f \in Frame |-> "Unlisted"] /\ Own' \in Ownership!Owners
    BY <2>1 DEF OwnersTyped, Ownership!Owners, Ownership!Unlisted
  <2> QED
    BY <2>2 DEF Ownership!Next, Ownership!List, Ownership!Init, Ownership!Unlisted, Own
<1>5. CASE mark_used
  <2> DEFINE type == Head(todo)
             region == RegionOf(type)
             r == mark_allocated_region(memory_map, region)
  <2>1. HasMap /\ HasMap' /\ pc = "mark" /\ todo # <<>>
    BY <1>5 DEF mark_used, HasMap
  <2>2. CASE r.outcome = "panic"
    <3>1. memory_map' = memory_map
      BY <1>5, <2>2 DEF mark_used
    <3> QED
      BY <2>1, <3>1 DEF Own, Frame
  <2>3. CASE r.outcome # "panic"
    <3>1. memory_map' = r.map
      BY <1>5, <2>3 DEF mark_used
    <3>2. Tidy /\ Mapped /\ Marked
      BY <2>1 DEF BInv
    <3>3. todo \in Seq(MarkTypes) /\ todo # <<>>
      BY <2>1, <3>2 DEF Marked
    <3>4. type \in MarkTypes /\ 1 \in DOMAIN todo /\ type = todo[1]
      BY <3>3
    <3>5. region \in Region /\ region.start < region.end /\ region.type = type
      BY <3>2, <3>4, MarkedRegionIs
    <3>6. Borders(memory_map) \cap Inside(region) = {}
      BY <3>2, <3>4 DEF Marked
    <3>7. r = mark_allocated_region(memory_map, region)
      OBVIOUS
    <3> HIDE DEF r, region, type
    <3>8. /\ \A f \in Frames(region) : Owns(memory_map, f, "Usable")
          /\ Claims(memory_map, r.map, Frames(region), region.type)
      BY <2>3, <3>2, <3>5, <3>6, <3>7, MarkIs DEF Mapped
    <3>9. region.type \in RegionType \ {"Usable"}
      BY <3>4, <3>5 DEF MarkTypes, RegionType, Allocated
    <3> QED
      BY <2>1, <3>1, <3>8, <3>9, ClaimStep
  <2> QED
    BY <2>2, <2>3
<1>6. ASSUME NEW type \in Allocated, allocate(type) PROVE Ownership!Next \/ Own' = Own
  <2> DEFINE r == allocate_frame(memory_map, type)
  <2>1. HasMap /\ HasMap' /\ pc = "allocate"
    BY <1>6 DEF allocate, HasMap
  <2>2. CASE r.outcome = "ok"
    <3>1. memory_map' = r.map
      BY <1>6, <2>2 DEF allocate
    <3>2. Mapped
      BY <2>1 DEF BInv
    <3>3. r = allocate_frame(memory_map, type) /\ type \in RegionType \ {"Usable"}
      BY DEF RegionType, Allocated
    <3> HIDE DEF r
    <3>4. PICK f \in Nat : Owns(memory_map, f, "Usable") /\ Claims(memory_map, r.map, {f}, type)
      BY <2>2, <3>2, <3>3, AllocateIs DEF Mapped
    <3> QED
      BY <2>1, <3>1, <3>3, <3>4, ClaimStep
  <2>3. CASE r.outcome # "ok"
    <3>1. (r.outcome = "none" /\ r.map = memory_map) \/ r.outcome = "panic"
      BY <2>3, AllocateFails
    <3>2. memory_map' = memory_map
      BY <1>6, <3>1 DEF allocate
    <3> QED
      BY <2>1, <3>2 DEF Own, Frame
  <2> QED
    BY <2>2, <2>3
<1>7. CASE UNCHANGED vars
  BY <1>7 DEF vars, Own, Frame, HasMap
<1>8. CASE halted
  BY <1>7, <1>8 DEF halted
<1> QED
  BY <1>2, <1>3, <1>4, <1>5, <1>6, <1>7, <1>8 DEF Next, create_from

(* The map the bootloader keeps implements frame ownership: for a tidy list*)
(* and layout a frame changes owner only from usable, and to the owner that*)
(* asked for it, and never again.                                          *)
THEOREM OwnershipImplemented == Spec /\ Tidy => ImplementsOwnership
<1>1. Init => Ownership!Init
  <2> SUFFICES ASSUME Init PROVE Ownership!Init
    OBVIOUS
  <2>1. ~ HasMap
    BY DEF Init, HasMap
  <2>2. \A f \in Frame : OwnerOf(<<>>, f) = "Unlisted"
    BY DEF OwnerOf
  <2> QED
    BY <2>1, <2>2 DEF Ownership!Init, Ownership!Unlisted
<1>2. BInv => OwnersTyped
  BY OwnersMapped
<1>3. BInv /\ BInv' /\ OwnersTyped /\ OwnersTyped' /\ [Next]_vars => [Ownership!Next]_Own
  BY StepRefines
<1>4. Spec /\ Tidy => []BInv
  BY InvHolds
<1> QED
  BY <1>1, <1>2, <1>3, <1>4, PTL DEF Spec, ImplementsOwnership, Ownership!Spec, Own
=============================================================================
