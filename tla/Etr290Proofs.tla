---------------------------- MODULE Etr290Proofs ----------------------------
(***************************************************************************)
(* What the ETR 290 monitor shows is right, whatever TSDuck posts and for  *)
(* any number of intervals: totals are sums, PID maps are whole.           *)
(*                                                                         *)
(* A sum over all intervals is a recursive function, and facts about it    *)
(* are proved from the least number for which they would fail.             *)
(***************************************************************************)
EXTENDS Etr290MonitorProofs, FiniteSetTheorems, WellFoundedInduction

-----------------------------------------------------------------------------
(* Least and greatest numbers.                                             *)

LEMMA LeastNumber ==
  ASSUME NEW T \in SUBSET Nat, T # {}
  PROVE  \E n \in T : \A m \in T : n <= m
<1>1. PICK R : R = OpToRel(<, Nat)
  OBVIOUS
<1>2. R = {ss \in Nat \X Nat : ss[1] < ss[2]}
  BY <1>1 DEF OpToRel
<1>3. IsWellFoundedOn(R, Nat)
  BY <1>1, NatLessThanWellFounded
<1>4. \E n \in T : \A m \in T : ~(<<m, n>> \in R)
  BY <1>3, WFMin
<1>5. ASSUME NEW m \in Nat, NEW n \in Nat, ~(<<m, n>> \in R)
      PROVE  n <= m
  <2>1. <<m, n>> \in Nat \X Nat /\ <<m, n>>[1] = m /\ <<m, n>>[2] = n
    OBVIOUS
  <2>2. m < n => <<m, n>> \in R
    BY <1>2, <2>1, Zenon
  <2>3. QED
    BY <1>5, <2>2
<1>6. QED
  BY <1>4, <1>5

LEMMA GreatestNumber ==
  ASSUME NEW T \in SUBSET Nat, T # {}, NEW bound \in Nat, \A m \in T : m <= bound
  PROVE  \E n \in T : \A m \in T : m <= n
<1> DEFINE U == {k \in Nat : \A m \in T : m <= k}
<1>1. PICK n \in U : \A k \in U : n <= k
  <2>1. U \in SUBSET Nat /\ bound \in U
    OBVIOUS
  <2> HIDE DEF U
  <2>2. QED
    BY <2>1, LeastNumber
<1>2. n \in T
  <2>1. SUFFICES ASSUME n \notin T PROVE FALSE
    OBVIOUS
  <2>2. PICK m \in T : TRUE
    OBVIOUS
  <2>3. n > 0
    BY <2>1, <2>2
  <2>4. n - 1 \in U
    BY <2>1, <2>3
  <2>5. QED
    BY <1>1, <2>3, <2>4
<1>3. QED
  BY <1>2

-----------------------------------------------------------------------------
(* Running sums.                                                           *)

IsSumOf(sum, g, n) ==
  sum = [k \in 0 .. n |-> IF k = 0 THEN 0 ELSE sum[k - 1] + g[k]]

LEMMA SumExists ==
  ASSUME NEW g, NEW n \in Nat
  PROVE  \E sum : IsSumOf(sum, g, n)
<1> DEFINE Without == {m \in Nat : \A sum : ~IsSumOf(sum, g, m)}
<1>1. SUFFICES ASSUME n \in Without PROVE FALSE
  OBVIOUS
<1>2. PICK m \in Without : \A k \in Without : m <= k
  <2>1. Without \in SUBSET Nat
    OBVIOUS
  <2> HIDE DEF Without
  <2>2. QED
    BY <1>1, <2>1, LeastNumber
<1>3. m # 0
  <2>1. IsSumOf([k \in 0 .. 0 |-> 0], g, 0)
    BY DEF IsSumOf
  <2>2. QED
    BY <2>1
<1>4. PICK sum : IsSumOf(sum, g, m - 1)
  BY <1>2, <1>3
<1> DEFINE more == [k \in 0 .. m |-> IF k = m THEN sum[m - 1] + g[m] ELSE sum[k]]
<1>5. \A k \in 0 .. m : more[k] = IF k = 0 THEN 0 ELSE more[k - 1] + g[k]
  BY <1>3, <1>4 DEF IsSumOf
<1>6. IsSumOf(more, g, m)
  BY <1>5 DEF IsSumOf
<1>7. QED
  BY <1>6

Alike(g, h, n) == \A k \in 1 .. n : g[k] = h[k]

\* Running sums over the same numbers, and one more, agree.
LEMMA SumsAgree ==
  ASSUME NEW g, NEW h, NEW m \in Nat, NEW s, NEW t,
         IsSumOf(s, g, m), IsSumOf(t, h, m + 1), Alike(g, h, m)
  PROVE  s[m] = t[m]
<1> DEFINE Apart == {k \in 0 .. m : s[k] # t[k]}
<1>1. SUFFICES ASSUME Apart # {} PROVE FALSE
  <2>1. m \in 0 .. m
    OBVIOUS
  <2>2. QED
    BY <2>1
<1>2. PICK k \in Apart : \A j \in Apart : k <= j
  <2>1. Apart \in SUBSET Nat
    OBVIOUS
  <2> HIDE DEF Apart
  <2>2. QED
    BY <1>1, <2>1, LeastNumber
<1>3. k # 0
  BY DEF IsSumOf
<1>4. s[k - 1] = t[k - 1]
  BY <1>2, <1>3
<1>5. s[k] = s[k - 1] + g[k] /\ t[k] = t[k - 1] + h[k]
  BY <1>3 DEF IsSumOf
<1>6. QED
  BY <1>3, <1>4, <1>5 DEF Alike

-----------------------------------------------------------------------------
(* The total over one interval more.                                       *)

\* What each of the bodies says of a counter.
SaidBy(bodies, n) == [k \in 1 .. Len(bodies) |-> Said(bodies[k], n)]

LEMMA TotalIsSum ==
  ASSUME NEW bodies, Len(bodies) \in Nat, NEW n
  PROVE  \E sum : /\ IsSumOf(sum, SaidBy(bodies, n), Len(bodies))
                  /\ TotalOver(bodies, n) = sum[Len(bodies)]
<1> DEFINE Adds(sum) == sum = [k \in 0 .. Len(bodies) |->
                                 IF k = 0 THEN 0 ELSE sum[k - 1] + Said(bodies[k], n)]
<1>1. \A k \in 1 .. Len(bodies) : SaidBy(bodies, n)[k] = Said(bodies[k], n)
  BY DEF SaidBy
<1>2. ASSUME NEW sum
      PROVE  IsSumOf(sum, SaidBy(bodies, n), Len(bodies)) <=> Adds(sum)
  <2>1. [k \in 0 .. Len(bodies) |-> IF k = 0 THEN 0 ELSE sum[k - 1] + SaidBy(bodies, n)[k]]
          = [k \in 0 .. Len(bodies) |-> IF k = 0 THEN 0 ELSE sum[k - 1] + Said(bodies[k], n)]
    BY <1>1
  <2>2. QED
    BY <2>1, Zenon DEF IsSumOf
<1>3. \E sum : Adds(sum)
  BY <1>2, SumExists
<1>4. TotalOver(bodies, n) = (CHOOSE sum : Adds(sum))[Len(bodies)]
  BY DEF TotalOver
<1> HIDE DEF Adds
<1>5. Adds(CHOOSE sum : Adds(sum))
  BY <1>3
<1>6. QED
  BY <1>2, <1>4, <1>5

LEMMA TotalOfNothing ==
  ASSUME NEW n
  PROVE  TotalOver(<<>>, n) = 0
<1>1. Len(<<>>) = 0
  OBVIOUS
<1>2. PICK sum : /\ IsSumOf(sum, SaidBy(<<>>, n), 0)
                 /\ TotalOver(<<>>, n) = sum[0]
  BY <1>1, TotalIsSum
<1>3. sum[0] = 0
  BY <1>2 DEF IsSumOf
<1>4. QED
  BY <1>2, <1>3

LEMMA TotalWithOneMore ==
  ASSUME NEW bodies \in Seq(Bodies), NEW body \in Bodies, NEW n
  PROVE  TotalOver(Append(bodies, body), n) = TotalOver(bodies, n) + Said(body, n)
<1> DEFINE more == Append(bodies, body)
<1>1. /\ Len(bodies) \in Nat /\ Len(more) = Len(bodies) + 1
      /\ more[Len(bodies) + 1] = body
      /\ \A k \in 1 .. Len(bodies) : more[k] = bodies[k]
  OBVIOUS
<1>2. PICK len \in Nat : len = Len(bodies)
  BY <1>1
<1> HIDE DEF more
<1>3. PICK s : IsSumOf(s, SaidBy(bodies, n), len) /\ TotalOver(bodies, n) = s[len]
  BY <1>2, TotalIsSum
<1>4. PICK t : IsSumOf(t, SaidBy(more, n), len + 1) /\ TotalOver(more, n) = t[len + 1]
  BY <1>1, <1>2, TotalIsSum
<1>5. /\ Alike(SaidBy(bodies, n), SaidBy(more, n), len)
      /\ SaidBy(more, n)[len + 1] = Said(body, n)
  BY <1>1, <1>2 DEF SaidBy, Alike
<1>6. s[len] = t[len]
  BY <1>3, <1>4, <1>5, SumsAgree
<1>7. t[len + 1] = t[len] + Said(body, n)
  BY <1>4, <1>5 DEF IsSumOf
<1>8. QED
  BY <1>3, <1>4, <1>6, <1>7 DEF more

-----------------------------------------------------------------------------
(* One interval.                                                           *)

\* The last of some lines.
LEMMA LastLine ==
  ASSUME NEW body \in Bodies, NEW lines \in SUBSET DOMAIN body, lines # {}
  PROVE  LET latest == CHOOSE k \in lines : \A j \in lines : j <= k IN
           latest \in lines /\ \A j \in lines : j <= latest
<1>1. DOMAIN body = 1 .. Len(body) /\ Len(body) \in Nat
  BY BodiesAssumption
<1>2. lines \in SUBSET Nat /\ \A k \in lines : k <= Len(body)
  BY <1>1
<1>3. \E k \in lines : \A j \in lines : j <= k
  BY <1>1, <1>2, GreatestNumber
<1>4. QED
  BY <1>3

\* The interval says of a counter what its body says.
LEMMA RollupSays ==
  ASSUME NEW body \in Bodies, NEW n \in ALL_P12_COUNTERS
  PROVE  LET entry == rollup_etr290_snapshot(parse_influx_body(body)).counters[n] IN
           /\ entry.value = Said(body, n)
           /\ entry \in [value : Nat, severity : {1, 2}]
<1> DEFINE lines  == {k \in DOMAIN body : IsCounter(body[k]) /\ body[k].name = n}
           latest == CHOOSE k \in lines : \A j \in lines : j <= k
           rows   == [i \in {k \in DOMAIN body : IsCounter(body[k])} |-> body[i]]
           of     == {i \in DOMAIN rows : rows[i].name = n}
           lastOf == CHOOSE i \in of : \A j \in of : j <= i
           entry  == rollup_etr290_snapshot(parse_influx_body(body)).counters[n]
<1>1. Said(body, n) = IF lines = {} THEN 0 ELSE body[latest].value
  BY Zenon DEF Said
<1>2. entry = IF of = {} THEN ZeroCounters[n]
              ELSE [value |-> rows[lastOf].value, severity |-> rows[lastOf].severity]
  BY DEF rollup_etr290_snapshot, parse_influx_body
<1>3. of = lines /\ lines \in SUBSET DOMAIN body
  OBVIOUS
<1>4. CASE lines = {}
  <2>1. entry = [value |-> 0, severity |-> IF n \in P1_COUNTERS THEN 1 ELSE 2]
    BY <1>2, <1>3, <1>4 DEF ZeroCounters
  <2>2. QED
    BY <1>1, <1>4, <2>1
<1>5. CASE lines # {}
  <2>1. latest \in lines /\ \A j \in lines : j <= latest
    <3> HIDE DEF lines
    <3>1. QED
      BY <1>3, <1>5, LastLine
  <2>2. lastOf \in of /\ \A j \in of : j <= lastOf
    <3>1. of \in SUBSET DOMAIN body /\ of # {}
      BY <1>3, <1>5
    <3> HIDE DEF of
    <3>2. QED
      BY <3>1, LastLine
  <2>3. lines \in SUBSET Nat
    BY BodiesAssumption
  <2>4. lastOf = latest
    <3> HIDE DEF lines, of, latest, lastOf
    <3>1. QED
      BY <1>3, <2>1, <2>2, <2>3
  <2>5. latest \in DOMAIN body /\ rows[latest] = body[latest] /\ IsCounter(body[latest])
    BY <2>1
  <2>6. body[latest].value \in Nat /\ body[latest].severity \in {1, 2}
    BY <2>5, BodiesAssumption DEF IsCounter
  <2>7. entry = [value |-> body[latest].value, severity |-> body[latest].severity]
    <3> HIDE DEF lines, of, latest, lastOf, rows, entry
    <3>1. QED
      BY <1>2, <1>3, <1>5, <2>4, <2>5
  <2> HIDE DEF lines, latest, entry
  <2>8. QED
    BY <1>1, <1>5, <2>6, <2>7 DEF entry
<1>6. QED
  BY <1>4, <1>5

\* The number of errors it reports, if any.
LEMMA RollupErrors ==
  ASSUME NEW body \in Bodies
  PROVE  rollup_etr290_snapshot(parse_influx_body(body)).errors \in SUBSET Nat
BY BodiesAssumption DEF rollup_etr290_snapshot, parse_influx_body, LastValue

-----------------------------------------------------------------------------
(* The PID map.                                                            *)

\* The order of pids_out.sort.
Before(pids, j, i) ==
  pids[j].id < pids[i].id \/ (pids[j].id = pids[i].id /\ j <= i)

UpTo(pids, i) == {j \in DOMAIN pids : Before(pids, j, i)}

Places(pids) == [i \in DOMAIN pids |-> Cardinality(UpTo(pids, i))]

Numbered(pids, n) == DOMAIN pids = 1 .. n /\ \A i \in 1 .. n : pids[i].id \in Nat

LEMMA BeforeOrders ==
  ASSUME NEW pids, NEW n \in Nat, Numbered(pids, n), NEW i \in 1 .. n, NEW j \in 1 .. n
  PROVE  /\ Before(pids, i, i)
         /\ Before(pids, i, j) \/ Before(pids, j, i)
         /\ Before(pids, i, j) /\ Before(pids, j, i) => i = j
         /\ \A k \in 1 .. n : Before(pids, k, i) /\ Before(pids, i, j) => Before(pids, k, j)
BY DEF Before, Numbered

LEMMA PlacesGrow ==
  ASSUME NEW pids, NEW n \in Nat, Numbered(pids, n)
  PROVE  /\ Places(pids) \in [1 .. n -> 1 .. n]
         /\ \A i, j \in 1 .. n :
              i # j /\ Before(pids, i, j) => Places(pids)[i] < Places(pids)[j]
<1>1. IsFiniteSet(1 .. n) /\ Cardinality(1 .. n) = n
  BY FS_Interval
<1>2. \A i \in 1 .. n : UpTo(pids, i) \in SUBSET (1 .. n) /\ i \in UpTo(pids, i)
  BY BeforeOrders DEF UpTo, Numbered
<1>3. ASSUME NEW i \in 1 .. n
      PROVE  IsFiniteSet(UpTo(pids, i)) /\ Cardinality(UpTo(pids, i)) \in 1 .. n
  <2>1. IsFiniteSet(UpTo(pids, i)) /\ Cardinality(UpTo(pids, i)) <= n
    BY <1>1, <1>2, FS_Subset
  <2>2. Cardinality(UpTo(pids, i)) \in Nat /\ Cardinality(UpTo(pids, i)) # 0
    BY <1>2, <2>1, FS_CardinalityType, FS_EmptySet
  <2>3. QED
    BY <2>1, <2>2
<1>4. Places(pids) \in [1 .. n -> 1 .. n]
  BY <1>3 DEF Places, Numbered
<1>5. ASSUME NEW i \in 1 .. n, NEW j \in 1 .. n, i # j, Before(pids, i, j)
      PROVE  Places(pids)[i] < Places(pids)[j]
  <2>1. UpTo(pids, i) \in SUBSET UpTo(pids, j)
    BY <1>5, BeforeOrders DEF UpTo, Numbered
  <2>2. j \notin UpTo(pids, i)
    BY <1>5, BeforeOrders DEF UpTo, Numbered
  <2>3. UpTo(pids, i) # UpTo(pids, j)
    BY <1>2, <2>2
  <2>4. /\ Cardinality(UpTo(pids, i)) <= Cardinality(UpTo(pids, j))
        /\ Cardinality(UpTo(pids, i)) # Cardinality(UpTo(pids, j))
    BY <1>3, <2>1, <2>3, FS_Subset
  <2>5. QED
    BY <1>3, <2>4 DEF Places, Numbered
<1>6. QED
  BY <1>4, <1>5

\* Every place is taken, by one PID.
LEMMA PlacesAreTaken ==
  ASSUME NEW pids, NEW n \in Nat, Numbered(pids, n)
  PROVE  /\ \A k \in 1 .. n : \E i \in 1 .. n : Places(pids)[i] = k
         /\ \A i, j \in 1 .. n : Places(pids)[i] = Places(pids)[j] => i = j
<1>1. \A i, j \in 1 .. n : Places(pids)[i] = Places(pids)[j] => i = j
  <2> SUFFICES ASSUME NEW i \in 1 .. n, NEW j \in 1 .. n, i # j
               PROVE  Places(pids)[i] # Places(pids)[j]
    OBVIOUS
  <2>1. Places(pids)[i] \in 1 .. n /\ Places(pids)[j] \in 1 .. n
    BY PlacesGrow
  <2>2. Places(pids)[i] < Places(pids)[j] \/ Places(pids)[j] < Places(pids)[i]
    BY PlacesGrow, BeforeOrders
  <2>3. QED
    BY <2>1, <2>2
<1>2. Places(pids) \in Injection(1 .. n, 1 .. n)
  BY <1>1, PlacesGrow DEF Injection, IsInjective
<1>3. Places(pids) \in Surjection(1 .. n, 1 .. n)
  BY <1>2, FS_Injection, FS_Interval
<1>4. QED
  BY <1>1, <1>3 DEF Surjection

\* Sorted, a list of different PIDs that has the null PID is whole.
LEMMA SortedIsWhole ==
  ASSUME NEW pids, NEW n \in Nat, Numbered(pids, n),
         \A i, j \in 1 .. n : pids[i].id = pids[j].id => i = j,
         \E i \in 1 .. n : pids[i].id = MPEG_TS_NULL_PID,
         \A i \in 1 .. n : pids[i].stuffing <=> pids[i].id = MPEG_TS_NULL_PID
  PROVE  IsWhole(SortedById(pids))
<1> DEFINE at(k) == CHOOSE i \in DOMAIN pids : Places(pids)[i] = k
           sorted == SortedById(pids)
<1>1. DOMAIN pids = 1 .. n
  BY DEF Numbered
<1>2. sorted = [k \in DOMAIN pids |-> pids[at(k)]]
  BY Zenon DEF SortedById, Places, UpTo, Before
<1>3. ASSUME NEW k \in 1 .. n
      PROVE  at(k) \in 1 .. n /\ Places(pids)[at(k)] = k
  <2>1. \E i \in 1 .. n : Places(pids)[i] = k
    BY PlacesAreTaken
  <2>2. \E i \in DOMAIN pids : Places(pids)[i] = k
    BY <1>1, <2>1
  <2>3. at(k) \in DOMAIN pids /\ Places(pids)[at(k)] = k
    BY <2>2, Zenon
  <2>4. QED
    BY <1>1, <2>3
<1> HIDE DEF at, sorted
<1>4. DOMAIN sorted = 1 .. n /\ \A k \in 1 .. n : sorted[k] = pids[at(k)]
  BY <1>1, <1>2
<1>5. ASSUME NEW k \in 1 .. n, NEW l \in 1 .. n, k < l
      PROVE  sorted[k].id < sorted[l].id
  <2>1. at(k) \in 1 .. n /\ at(l) \in 1 .. n /\ at(k) # at(l)
    BY <1>3, <1>5
  <2>2. ~Before(pids, at(l), at(k))
    <3>1. SUFFICES ASSUME Before(pids, at(l), at(k)) PROVE FALSE
      OBVIOUS
    <3>2. Places(pids)[at(l)] < Places(pids)[at(k)]
      BY <2>1, <3>1, PlacesGrow
    <3>3. QED
      BY <1>3, <1>5, <3>2
  <2>3. pids[at(k)].id \in Nat /\ pids[at(l)].id \in Nat /\ pids[at(k)].id # pids[at(l)].id
    BY <2>1 DEF Numbered
  <2>4. QED
    BY <1>4, <2>2, <2>3 DEF Before
<1>6. \E k \in 1 .. n : sorted[k].id = MPEG_TS_NULL_PID
  <2>1. PICK i \in 1 .. n : pids[i].id = MPEG_TS_NULL_PID
    OBVIOUS
  <2>2. PICK k \in 1 .. n : Places(pids)[i] = k
    BY PlacesGrow
  <2>3. at(k) = i
    <3>1. \A j \in 1 .. n : Places(pids)[j] = Places(pids)[i] => j = i
      BY PlacesAreTaken
    <3>2. QED
      BY <1>3, <2>2, <3>1
  <2>4. QED
    BY <1>4, <2>1, <2>3
<1>7. \A k \in 1 .. n : sorted[k].stuffing <=> sorted[k].id = MPEG_TS_NULL_PID
  <2>1. TAKE k \in 1 .. n
  <2>2. at(k) \in 1 .. n /\ sorted[k] = pids[at(k)]
    BY <1>3, <1>4
  <2>3. pids[at(k)].stuffing <=> pids[at(k)].id = MPEG_TS_NULL_PID
    BY <2>2
  <2>4. QED
    BY <2>2, <2>3, Zenon
<1>8. QED
  BY <1>4, <1>5, <1>6, <1>7 DEF IsWhole, sorted

LEMMA LabelledKeeps ==
  ASSUME NEW pid
  PROVE  /\ Labelled(pid).id = pid.id
         /\ Labelled(pid).stuffing <=> pid.id = MPEG_TS_NULL_PID
BY DEF Labelled

LEMMA ExtractIsWhole ==
  ASSUME NEW report \in Reports
  PROVE  IsWhole(extract_pid_structure(report))
<1> DEFINE known == [i \in DOMAIN report |-> Labelled(report[i])]
           sawNull == \E i \in DOMAIN known : known[i].id = MPEG_TS_NULL_PID
           n == Len(report)
<1>1. n \in Nat /\ DOMAIN report = 1 .. n
  BY ReportsAssumption
<1>2. /\ DOMAIN known = 1 .. n
      /\ \A i \in 1 .. n : /\ known[i].id = report[i].id
                           /\ known[i].stuffing <=> known[i].id = MPEG_TS_NULL_PID
  BY <1>1, LabelledKeeps
<1>3. /\ \A i \in 1 .. n : known[i].id \in Nat
      /\ \A i, j \in 1 .. n : known[i].id = known[j].id => i = j
  <2>1. /\ \A i \in 1 .. n : report[i].id \in Nat
        /\ \A i, j \in 1 .. n : report[i].id = report[j].id => i = j
    BY <1>1, ReportsAssumption
  <2> HIDE DEF known, n
  <2>2. QED
    BY <1>2, <2>1
<1>4. extract_pid_structure(report) =
        SortedById(IF sawNull THEN known ELSE Append(known, NullPadding))
  BY Zenon DEF extract_pid_structure
<1> HIDE DEF known, n
<1>5. CASE sawNull
  <2>1. Numbered(known, n) /\ \E i \in 1 .. n : known[i].id = MPEG_TS_NULL_PID
    BY <1>2, <1>3, <1>5 DEF Numbered
  <2>2. IsWhole(SortedById(known))
    BY <1>1, <1>2, <1>3, <2>1, SortedIsWhole
  <2>3. QED
    BY <1>4, <1>5, <2>2
<1>6. CASE ~sawNull
  <2> DEFINE all == Append(known, NullPadding)
  <2>1. /\ DOMAIN all = 1 .. n + 1
        /\ \A i \in 1 .. n : all[i] = known[i]
        /\ all[n + 1] = NullPadding
    <3>1. known \in Seq({known[i] : i \in 1 .. n}) /\ Len(known) = n
      BY <1>1, <1>2 DEF known
    <3>2. QED
      BY <1>1, <3>1
  <2>2. NullPadding.id = MPEG_TS_NULL_PID /\ NullPadding.stuffing = TRUE
    BY DEF NullPadding
  <2> HIDE DEF all
  <2>3. \A i \in 1 .. n + 1 : i \in 1 .. n \/ i = n + 1
    BY <1>1
  <2>4. Numbered(all, n + 1)
    BY <1>3, <2>1, <2>2, <2>3, CountersAssumption DEF Numbered
  <2>5. \A i, j \in 1 .. n + 1 : all[i].id = all[j].id => i = j
    BY <1>2, <1>3, <1>6, <2>1, <2>2, <2>3
  <2>6. \E i \in 1 .. n + 1 : all[i].id = MPEG_TS_NULL_PID
    BY <1>1, <2>1, <2>2
  <2>7. \A i \in 1 .. n + 1 : all[i].stuffing <=> all[i].id = MPEG_TS_NULL_PID
    BY <1>2, <2>1, <2>2, <2>3
  <2>8. IsWhole(SortedById(all))
    BY <1>1, <2>4, <2>5, <2>6, <2>7, SortedIsWhole
  <2>9. QED
    BY <1>4, <1>6, <2>8 DEF all
<1>7. QED
  BY <1>5, <1>6

-----------------------------------------------------------------------------
(* A sound snapshot.                                                       *)

TotalsAreSound(totals, heard) ==
  /\ \A n \in ALL_P12_COUNTERS :
       /\ totals.counters[n] \in [value : Nat, severity : {1, 2}]
       /\ totals.counters[n].value = TotalOver(heard, n)
  /\ totals.worst = WorstSeverity(totals.counters)
  /\ totals.errors \in SUBSET Nat /\ Cardinality(totals.errors) = 1

Sound(s) ==
  /\ IsSnap(s)
  /\ s.kind \in Reasons \cup {"session"} /\ s.age \in 0 .. Stale
  /\ TotalsAreSound(s.totals, s.heard)
  /\ s.structure # <<>> => IsWhole(s.structure)

LEMMA EmptyIsSound == TotalsAreSound(empty_etr290_session, <<>>)
<1>1. /\ empty_etr290_session.counters = ZeroCounters /\ empty_etr290_session.worst = 0
      /\ empty_etr290_session.errors = {0}
  BY DEF empty_etr290_session
<1>2. \A n \in ALL_P12_COUNTERS :
        ZeroCounters[n] \in [value : Nat, severity : {1, 2}] /\ ZeroCounters[n].value = 0
  BY DEF ZeroCounters
<1>3. WorstSeverity(ZeroCounters) = 0
  <2> DEFINE raised == {ZeroCounters[n].severity :
                          n \in {m \in DOMAIN ZeroCounters : ZeroCounters[m].value > 0}}
  <2>1. WorstSeverity(ZeroCounters) = IF 1 \in raised THEN 1 ELSE IF 2 \in raised THEN 2 ELSE 0
    BY Zenon DEF WorstSeverity
  <2>2. \A m \in DOMAIN ZeroCounters : ~(ZeroCounters[m].value > 0)
    BY <1>2 DEF ZeroCounters
  <2>3. raised = {}
    BY <2>2
  <2>4. QED
    BY <2>1, <2>3
<1>4. Cardinality({0}) = 1
  BY FS_Singleton
<1>5. QED
  BY <1>1, <1>2, <1>3, <1>4, TotalOfNothing DEF TotalsAreSound

LEMMA BlankIsSound ==
  ASSUME NEW kind \in Reasons \cup {"session"}
  PROVE  Sound(Blank(kind))
<1>1. /\ Blank(kind).kind = kind /\ Blank(kind).age = 0 /\ Blank(kind).heard = <<>>
      /\ Blank(kind).totals = empty_etr290_session /\ Blank(kind).structure = <<>>
  BY DEF Blank
<1>2. <<>> \in Seq(Bodies)
  OBVIOUS
<1>3. IsSnap(Blank(kind))
  BY <1>2 DEF IsSnap, Blank
<1>4. QED
  BY <1>1, <1>3, EmptyIsSound, BoundAssumption DEF Sound

\* One interval more is added, counter by counter.
LEMMA AccumulateIsSound ==
  ASSUME NEW totals, NEW heard \in Seq(Bodies), NEW body \in Bodies,
         TotalsAreSound(totals, heard)
  PROVE  TotalsAreSound(accumulate_etr290_snapshot(
                          totals, rollup_etr290_snapshot(parse_influx_body(body))),
                        Append(heard, body))
<1>1. PICK interval : interval = rollup_etr290_snapshot(parse_influx_body(body))
  OBVIOUS
<1> DEFINE sum == accumulate_etr290_snapshot(totals, interval)
<1>2. /\ \A n \in ALL_P12_COUNTERS :
           sum.counters[n] = [value |-> totals.counters[n].value + interval.counters[n].value,
                              severity |-> interval.counters[n].severity]
      /\ sum.worst = WorstSeverity(sum.counters)
      /\ sum.errors = {Number(totals.errors) + Number(interval.errors)}
  BY DEF accumulate_etr290_snapshot
<1>3. ASSUME NEW n \in ALL_P12_COUNTERS
      PROVE  /\ sum.counters[n] \in [value : Nat, severity : {1, 2}]
             /\ sum.counters[n].value = TotalOver(Append(heard, body), n)
  <2>1. /\ interval.counters[n] \in [value : Nat, severity : {1, 2}]
        /\ interval.counters[n].value = Said(body, n)
    BY <1>1, RollupSays
  <2>2. /\ totals.counters[n] \in [value : Nat, severity : {1, 2}]
        /\ totals.counters[n].value = TotalOver(heard, n)
    BY DEF TotalsAreSound
  <2>3. TotalOver(Append(heard, body), n) = TotalOver(heard, n) + Said(body, n)
    BY TotalWithOneMore
  <2> HIDE DEF sum
  <2>4. /\ interval.counters[n].severity \in {1, 2} /\ Said(body, n) \in Nat
        /\ totals.counters[n].value \in Nat
    BY <2>1, <2>2
  <2>5. sum.counters[n] = [value |-> totals.counters[n].value + Said(body, n),
                           severity |-> interval.counters[n].severity]
    BY <1>2, <2>1
  <2>6. QED
    BY <2>2, <2>3, <2>4, <2>5
<1>4. sum.errors \in SUBSET Nat /\ Cardinality(sum.errors) = 1
  <2>1. \A opt \in SUBSET Nat : Number(opt) \in Nat
    BY DEF Number
  <2>2. interval.errors \in SUBSET Nat /\ totals.errors \in SUBSET Nat
    BY <1>1, RollupErrors DEF TotalsAreSound
  <2>3. Number(totals.errors) + Number(interval.errors) \in Nat
    BY <2>1, <2>2
  <2> HIDE DEF sum
  <2>4. QED
    BY <1>2, <2>3, FS_Singleton
<1> HIDE DEF sum
<1>5. TotalsAreSound(sum, Append(heard, body))
  BY <1>2, <1>3, <1>4 DEF TotalsAreSound
<1>6. QED
  BY <1>1, <1>5 DEF sum

LEMMA OtherAgeIsSound ==
  ASSUME NEW s, Sound(s), NEW age \in 0 .. Stale
  PROVE  Sound([s EXCEPT !.age = age])
<1> DEFINE t == [s EXCEPT !.age = age]
<1>1. /\ IsSnap(t) /\ t.kind = s.kind /\ t.heard = s.heard /\ t.age = age
      /\ t.totals = s.totals /\ t.structure = s.structure
  BY DEF Sound, IsSnap
<1> HIDE DEF t
<1>2. Sound(t)
  BY <1>1 DEF Sound
<1>3. QED
  BY <1>2 DEF t

LEMMA OlderIsSound ==
  ASSUME NEW s, Sound(s)
  PROVE  Sound(Older(s))
<1>1. PICK age : age = IF s.age < Stale THEN s.age + 1 ELSE s.age
  OBVIOUS
<1>2. age \in 0 .. Stale
  BY <1>1, BoundAssumption DEF Sound
<1>3. Older(s) = [s EXCEPT !.age = age]
  BY <1>1 DEF Older
<1>4. QED
  BY <1>2, <1>3, OtherAgeIsSound

LEMMA OtherStructureIsSound ==
  ASSUME NEW s, Sound(s), NEW structure, structure # <<>> => IsWhole(structure)
  PROVE  Sound([s EXCEPT !.structure = structure])
<1> DEFINE t == [s EXCEPT !.structure = structure]
<1>1. /\ IsSnap(t) /\ t.kind = s.kind /\ t.heard = s.heard /\ t.age = s.age
      /\ t.totals = s.totals /\ t.structure = structure
  BY DEF Sound, IsSnap
<1> HIDE DEF t
<1>2. Sound(t)
  BY <1>1 DEF Sound
<1>3. QED
  BY <1>2 DEF t

LEMMA ResetIsSound ==
  ASSUME NEW s, Sound(s)
  PROVE  Sound([Blank("session") EXCEPT !.structure = s.structure, !.era = s.era + 1])
<1> DEFINE b == Blank("session")
           u == [b EXCEPT !.structure = s.structure]
           t == [u EXCEPT !.era = s.era + 1]
<1>1. Sound(u)
  BY BlankIsSound, OtherStructureIsSound DEF Sound
<1>2. s.era + 1 \in Nat
  BY DEF Sound, IsSnap
<1> HIDE DEF u, b
<1>3. /\ IsSnap(t) /\ t.kind = u.kind /\ t.heard = u.heard /\ t.age = u.age
      /\ t.totals = u.totals /\ t.structure = u.structure
  <2>1. PICK kind, totals, structure, age, era, heard :
          u = [kind |-> kind, totals |-> totals, structure |-> structure,
               age |-> age, era |-> era, heard |-> heard]
    BY <1>1, Zenon DEF Sound, IsSnap
  <2>2. u.heard \in Seq(Bodies)
    BY <1>1 DEF Sound, IsSnap
  <2>3. t = [kind |-> kind, totals |-> totals, structure |-> structure,
             age |-> age, era |-> s.era + 1, heard |-> heard]
    BY <2>1
  <2> HIDE DEF t
  <2>4. QED
    BY <1>2, <2>1, <2>2, <2>3 DEF IsSnap
<1>4. Sound(t)
  <2> HIDE DEF t
  <2>1. QED
    BY <1>1, <1>3 DEF Sound
<1>5. t = [Blank("session") EXCEPT !.structure = s.structure, !.era = s.era + 1]
  BY DEF u, b
<1>6. QED
  BY <1>4, <1>5

LEMMA IntervalIsSound ==
  ASSUME NEW s, Sound(s), NEW body \in Bodies
  PROVE  Sound([s EXCEPT !.kind = "session", !.age = 0,
                  !.totals = accumulate_etr290_snapshot(
                               s.totals, rollup_etr290_snapshot(parse_influx_body(body))),
                  !.heard = Append(s.heard, body)])
<1>1. PICK totals : totals = accumulate_etr290_snapshot(
                      s.totals, rollup_etr290_snapshot(parse_influx_body(body)))
  OBVIOUS
<1>2. PICK heard : heard = Append(s.heard, body)
  OBVIOUS
<1>3. TotalsAreSound(totals, heard) /\ heard \in Seq(Bodies)
  BY <1>1, <1>2, AccumulateIsSound DEF Sound, IsSnap
<1> DEFINE k == [s EXCEPT !.kind = "session"]
           u == [k EXCEPT !.age = 0]
           v == [u EXCEPT !.totals = totals]
           t == [v EXCEPT !.heard = heard]
<1>4. IsSnap(u) /\ u.kind = "session" /\ u.age = 0 /\ u.structure = s.structure
  <2>1. IsSnap(k) /\ k.kind = "session" /\ k.structure = s.structure
    BY DEF Sound, IsSnap
  <2> HIDE DEF k
  <2>2. QED
    BY <2>1 DEF IsSnap
<1>5. /\ IsSnap(v) /\ v.kind = "session" /\ v.age = 0 /\ v.structure = s.structure
      /\ v.totals = totals
  <2> HIDE DEF u
  <2>1. QED
    BY <1>4 DEF IsSnap
<1>6. /\ IsSnap(t) /\ t.kind = "session" /\ t.age = 0 /\ t.structure = s.structure
      /\ t.totals = totals /\ t.heard = heard
  <2> HIDE DEF v
  <2>1. QED
    BY <1>3, <1>5 DEF IsSnap
<1>7. Sound(t)
  <2> HIDE DEF t
  <2>1. QED
    BY <1>3, <1>6, BoundAssumption DEF Sound
<1>8. t = [s EXCEPT !.kind = "session", !.age = 0, !.totals = totals, !.heard = heard]
  OBVIOUS
<1>9. QED
  BY <1>1, <1>2, <1>7, <1>8

-----------------------------------------------------------------------------
(* Every snapshot is sound, wherever it has been copied to.                *)

RestType ==
  /\ live \in BOOLEAN /\ started \in BOOLEAN /\ asked \in Nat
  /\ resetFile \in BOOLEAN /\ stopFile \in BOOLEAN
  /\ analyze \in Reports \cup {<<>>}
  /\ tsp \in [Sidecars -> BOOLEAN]
  /\ left \in [posts : Nat, resets : Nat, faults : Nat]

SnapsAreSound ==
  /\ Sound(json) /\ Sound(last) /\ Sound(shown)
  /\ snap = [i \in Sidecars |-> snap[i]]
  /\ \A i \in Sidecars : Sound(snap[i])

LEMMA SpendKeepsType ==
  ASSUME RestType, NEW b \in {"posts", "resets", "faults"}, Spend(b)
  PROVE  left' \in [posts : Nat, resets : Nat, faults : Nat]
BY DEF RestType, Spend

LEMMA RestInit == Init => RestType
<1> SUFFICES ASSUME Init PROVE RestType
  OBVIOUS
<1>1. left \in [posts : Nat, resets : Nat, faults : Nat]
  BY BoundAssumption DEF Init
<1>2. QED
  BY <1>1 DEF Init, RestType

LEMMA RestStep == RestType /\ [Next]_vars => RestType'
<1> SUFFICES ASSUME RestType, [Next]_vars PROVE RestType'
  OBVIOUS
<1> USE DEF childVars, fileVars, sidecarVars
<1>1. CASE UNCHANGED vars
  BY <1>1 DEF vars, RestType
<1>2. CASE Connect \/ Quit \/ QuitEnds \/ DropDead \/ MediaComesAndGoes \/ Tick
  <2>1. CASE Connect
    BY <2>1 DEF Connect, RestType
  <2>2. CASE Quit \/ QuitEnds
    <3>1. stopFile' \in BOOLEAN
      BY <2>2, Zenon DEF Quit, QuitEnds
    <3>2. UNCHANGED <<live, started, asked, resetFile, analyze, tsp, left>>
      BY <2>2 DEF Quit, QuitEnds
    <3>3. QED
      BY <3>1, <3>2 DEF RestType
  <2>3. CASE MediaComesAndGoes
    <3>1. live' \in BOOLEAN
      BY <2>3, Zenon DEF MediaComesAndGoes
    <3>2. UNCHANGED <<started, asked, fileVars, tsp, left>>
      BY <2>3 DEF MediaComesAndGoes
    <3>3. QED
      BY <3>1, <3>2 DEF RestType
  <2>4. CASE DropDead \/ Tick
    <3>1. UNCHANGED <<live, started, asked, resetFile, stopFile, analyze, tsp, left>>
      BY <2>4 DEF DropDead, Tick
    <3>2. QED
      BY <3>1 DEF RestType
  <2>5. QED
    BY <1>2, <2>1, <2>2, <2>3, <2>4
<1>3. CASE Reset
  BY <1>3, SpendKeepsType DEF Reset, RestType
<1>4. ASSUME NEW data, WriteStatus(data), left' \in [posts : Nat, resets : Nat, faults : Nat]
      PROVE  RestType'
  <2>1. tsp' \in [Sidecars -> BOOLEAN] /\ started' \in BOOLEAN /\ stopFile' \in BOOLEAN
    BY <1>4 DEF WriteStatus, RestType
  <2>2. UNCHANGED <<live, asked, analyze, resetFile>>
    BY <1>4 DEF WriteStatus
  <2>3. QED
    BY <1>4, <2>1, <2>2 DEF RestType
<1>5. CASE Poll
  <2>1. CASE ReadsJson
    BY <1>4, <2>1 DEF ReadsJson, RestType
  <2>2. CASE ForwardReset
    BY <2>2 DEF ForwardReset, RestType
  <2>3. QED
    BY <1>5, <2>1, <2>2 DEF Poll
<1>6. CASE Fault
  <2>1. CASE ReadsHalfWritten
    BY <1>4, <2>1, SpendKeepsType DEF ReadsHalfWritten
  <2>2. CASE LoseReset \/ ForwardResetFails \/ ChildDies
    <3>1. left' \in [posts : Nat, resets : Nat, faults : Nat]
      BY <2>2, SpendKeepsType DEF LoseReset, ForwardResetFails, ChildDies
    <3>2. QED
      BY <2>2, <3>1 DEF LoseReset, ForwardResetFails, ChildDies, RestType
  <2>3. ASSUME NEW i \in Sidecars, TspDies(i) \/ SidecarDies(i)
        PROVE  RestType'
    <3>1. left' \in [posts : Nat, resets : Nat, faults : Nat]
      BY <2>3, SpendKeepsType DEF TspDies, SidecarDies
    <3>2. QED
      BY <2>3, <3>1 DEF TspDies, SidecarDies, RestType
  <2>4. QED
    BY <1>6, <2>1, <2>2, <2>3 DEF Fault
<1>7. ASSUME NEW i \in Sidecars, NEW body \in Bodies, Accumulate(i, body)
      PROVE  RestType'
  <2>1. left' \in [posts : Nat, resets : Nat, faults : Nat]
    BY <1>7, SpendKeepsType DEF Accumulate
  <2>2. UNCHANGED <<childVars, fileVars, tsp>>
    BY <1>7 DEF Accumulate
  <2>3. QED
    BY <2>1, <2>2 DEF RestType
<1>8. ASSUME NEW i \in Sidecars, SidecarStep(i)
      PROVE  RestType'
  <2>1. CASE Finish(i)
    BY <2>1 DEF Finish, RestType
  <2>2. CASE StopSeen(i) \/ TspExitSeen(i) \/ ResetSeen(i) \/ UnlinkReset(i) \/ Publish(i)
    <3>1. /\ UNCHANGED <<live, started, asked, analyze, stopFile, tsp, left>>
          /\ resetFile' \in {resetFile, FALSE}
      BY <2>2 DEF StopSeen, TspExitSeen, ResetSeen, UnlinkReset, Publish
    <3>2. QED
      BY <3>1 DEF RestType
  <2>3. QED
    BY <1>8, <2>1, <2>2 DEF SidecarStep
<1>9. ASSUME NEW i \in Sidecars, NEW report \in Reports, Analyze(i, report)
      PROVE  RestType'
  BY <1>9 DEF Analyze, RestType
<1>10. QED
  <2>1. UNCHANGED vars \/ Next
    OBVIOUS
  <2>2. CASE Next
    BY <1>2, <1>3, <1>5, <1>6, <1>7, <1>8, <1>9, <2>2, Zenon DEF Next
  <2>3. QED
    BY <1>1, <2>1, <2>2

LEMMA SoundNext ==
  ASSUME Sound(json'), Sound(last'), Sound(shown'),
         snap' = [i \in Sidecars |-> snap'[i]], \A i \in Sidecars : Sound(snap'[i])
  PROVE  SnapsAreSound'
BY DEF SnapsAreSound, Sound, IsSnap, TotalsAreSound

\* Steps that write one snapshot of a sidecar, and perhaps its file.
LEMMA SoundUpdate ==
  ASSUME SnapsAreSound, NEW i \in Sidecars, NEW s, Sound(s),
         snap' = [snap EXCEPT ![i] = s], json' = json \/ json' = snap'[i],
         UNCHANGED <<last, shown>>
  PROVE  SnapsAreSound'
<1>1. snap'[i] = s /\ \A j \in Sidecars : j # i => snap'[j] = snap[j]
  BY DEF SnapsAreSound
<1>2. snap' = [j \in Sidecars |-> snap'[j]]
  BY DEF SnapsAreSound
<1>3. \A j \in Sidecars : Sound(snap'[j])
  BY <1>1 DEF SnapsAreSound
<1>4. Sound(json') /\ Sound(last') /\ Sound(shown')
  BY <1>1 DEF SnapsAreSound
<1>5. QED
  BY <1>2, <1>3, <1>4, SoundNext

LEMMA SoundSidecar ==
  ASSUME RestType, SnapsAreSound, NEW i \in Sidecars,
         \/ \E body \in Bodies : Accumulate(i, body)
         \/ ResetSeen(i) \/ Publish(i)
  PROVE  SnapsAreSound'
<1> USE DEF childVars, fileVars
<1>1. Sound(snap[i]) /\ snap = [j \in Sidecars |-> snap[j]]
  BY DEF SnapsAreSound
<1>2. ASSUME snap' = snap, json' = json, UNCHANGED <<last, shown>>
      PROVE  SnapsAreSound'
  BY <1>2 DEF SnapsAreSound
<1>3. ASSUME NEW body \in Bodies, Accumulate(i, body)
      PROVE  SnapsAreSound'
  <2>1. json' = json /\ UNCHANGED <<last, shown>>
    BY <1>3 DEF Accumulate
  <2>2. PICK s : s = [snap[i] EXCEPT !.kind = "session", !.age = 0,
                  !.totals = accumulate_etr290_snapshot(
                     snap[i].totals, rollup_etr290_snapshot(parse_influx_body(body))),
                  !.heard = Append(snap[i].heard, body)]
    OBVIOUS
  <2>3. snap' = snap \/ snap' = [snap EXCEPT ![i] = s]
    BY <1>3, <2>2 DEF Accumulate
  <2>4. Sound(s)
    BY <1>1, <2>2, IntervalIsSound
  <2>5. QED
    BY <1>2, <2>1, <2>3, <2>4, SoundUpdate
<1>4. CASE ResetSeen(i)
  <2>1. PICK s : s = [Blank("session") EXCEPT !.structure = snap[i].structure,
                                              !.era = snap[i].era + 1]
    OBVIOUS
  <2>2. /\ \/ snap' = snap /\ json' = json
           \/ snap' = [snap EXCEPT ![i] = s] /\ json' = snap'[i]
        /\ UNCHANGED <<last, shown>>
    BY <1>4, <2>1 DEF ResetSeen
  <2>3. Sound(s)
    BY <1>1, <2>1, ResetIsSound
  <2>4. QED
    BY <1>2, <2>2, <2>3, SoundUpdate
<1>5. CASE Publish(i)
  <2>1. PICK structure : structure = IF analyze = <<>> THEN snap[i].structure
                                     ELSE load_pid_structure[analyze]
    OBVIOUS
  <2>2. structure # <<>> => IsWhole(structure)
    <3>1. CASE analyze = <<>>
      BY <1>1, <2>1, <3>1 DEF Sound
    <3>2. CASE analyze # <<>>
      <4>1. analyze \in Reports
        BY <3>2 DEF RestType
      <4>2. structure = extract_pid_structure(analyze)
        BY <2>1, <3>2, <4>1 DEF load_pid_structure
      <4>3. QED
        BY <4>1, <4>2, ExtractIsWhole
    <3>3. QED
      BY <3>1, <3>2
  <2>3. PICK s : s = [snap[i] EXCEPT !.structure = structure]
    OBVIOUS
  <2>4. Sound(s)
    BY <1>1, <2>2, <2>3, OtherStructureIsSound
  <2>5. /\ snap' = [snap EXCEPT ![i] = s]
        /\ json' = json \/ json' = snap'[i]
        /\ UNCHANGED <<last, shown>>
    BY <1>5, <2>1, <2>3 DEF Publish
  <2>6. QED
    BY <2>4, <2>5, SoundUpdate
<1>6. QED
  BY <1>3, <1>4, <1>5

LEMMA SoundStep == RestType /\ SnapsAreSound /\ [Next]_vars => SnapsAreSound'
<1> SUFFICES ASSUME RestType, SnapsAreSound, [Next]_vars PROVE SnapsAreSound'
  OBVIOUS
<1> USE DEF childVars, fileVars, sidecarVars
<1>blank. \A kind \in Reasons : Sound(Blank(kind))
  BY BlankIsSound
<1>1. ASSUME json' = json \/ (\E kind \in Reasons : json' = Blank(kind)),
             last' = last \/ (\E kind \in Reasons : last' = Blank(kind)),
             shown' = shown \/ (\E kind \in Reasons : shown' = Blank(kind)),
             snap' = snap
      PROVE  SnapsAreSound'
  <2>1. Sound(json') /\ Sound(last') /\ Sound(shown')
    BY <1>1, <1>blank DEF SnapsAreSound
  <2>2. snap' = [i \in Sidecars |-> snap'[i]] /\ \A i \in Sidecars : Sound(snap'[i])
    BY <1>1, Zenon DEF SnapsAreSound
  <2>3. QED
    BY <2>1, <2>2, SoundNext
<1>kinds. {"nothing", "failed"} \subseteq Reasons
  BY DEF Reasons
<1>2. CASE UNCHANGED vars \/ Reset \/ Quit \/ QuitEnds \/ DropDead \/ MediaComesAndGoes
             \/ Connect \/ ForwardReset \/ LoseReset \/ ForwardResetFails \/ ChildDies
  BY <1>1, <1>2, <1>kinds
  DEF vars, Reset, Quit, QuitEnds, DropDead, MediaComesAndGoes, Connect, ForwardReset,
      LoseReset, ForwardResetFails, ChildDies
<1>3. ASSUME NEW i \in Sidecars,
             \/ StopSeen(i) \/ TspExitSeen(i) \/ UnlinkReset(i) \/ Finish(i)
             \/ TspDies(i) \/ SidecarDies(i)
             \/ \E report \in Reports : Analyze(i, report)
      PROVE  SnapsAreSound'
  BY <1>1, <1>3, <1>kinds
  DEF StopSeen, TspExitSeen, UnlinkReset, Finish, TspDies, SidecarDies, Analyze
<1>4. ASSUME NEW data, WriteStatus(data), Sound(data)
      PROVE  SnapsAreSound'
  <2>1. PICK payload : payload = Payload(data)
    OBVIOUS
  <2>2. payload \in {Blank("nothing"), Blank("stale"), data, last}
    BY <2>1 DEF Payload
  <2>3. Sound(payload)
    BY <1>4, <1>blank, <2>2 DEF SnapsAreSound, Reasons
  <2>4. /\ shown' = [payload EXCEPT !.age = 0] /\ last' \in {payload, last}
        /\ UNCHANGED <<json, snap>>
    BY <1>4, <2>1 DEF WriteStatus
  <2>5. Sound(shown')
    BY <2>3, <2>4, OtherAgeIsSound, BoundAssumption
  <2>6. Sound(last') /\ Sound(json')
    BY <2>3, <2>4 DEF SnapsAreSound
  <2>7. snap' = [i \in Sidecars |-> snap'[i]] /\ \A i \in Sidecars : Sound(snap'[i])
    BY <2>4, Zenon DEF SnapsAreSound
  <2>8. QED
    BY <2>5, <2>6, <2>7, SoundNext
<1>5. CASE ReadsJson \/ ReadsHalfWritten
  BY <1>4, <1>5, <1>blank, <1>kinds DEF ReadsJson, ReadsHalfWritten, SnapsAreSound
<1>6. CASE Tick
  <2>1. /\ json' = Older(json) /\ last' = Older(last) /\ shown' = shown
        /\ snap' = [i \in Sidecars |-> Older(snap[i])]
    BY <1>6 DEF Tick
  <2>2. Sound(json') /\ Sound(last') /\ Sound(shown')
    BY <2>1, OlderIsSound DEF SnapsAreSound
  <2>3. \A i \in Sidecars : Sound(snap'[i])
    BY <2>1, OlderIsSound DEF SnapsAreSound
  <2>4. snap' = [i \in Sidecars |-> snap'[i]]
    BY <2>1
  <2>5. QED
    BY <2>2, <2>3, <2>4, SoundNext
<1>7. ASSUME NEW i \in Sidecars,
             \/ \E body \in Bodies : Accumulate(i, body)
             \/ SidecarStep(i)
             \/ \E report \in Reports : Analyze(i, report)
      PROVE  SnapsAreSound'
  BY <1>3, <1>7, SoundSidecar DEF SidecarStep
<1>8. CASE Fault
  BY <1>2, <1>3, <1>5, <1>8 DEF Fault
<1>9. QED
  <2>1. UNCHANGED vars \/ Next
    OBVIOUS
  <2>2. CASE Next
    BY <1>2, <1>5, <1>6, <1>7, <1>8, <2>2, Zenon DEF Next, Poll
  <2>3. QED
    BY <1>2, <2>1, <2>2

LEMMA SoundInit == Init => SnapsAreSound
<1> SUFFICES ASSUME Init PROVE SnapsAreSound
  OBVIOUS
<1>1. Sound(Blank("nothing")) /\ Sound(Blank("no interval yet"))
  BY BlankIsSound DEF Reasons
<1>2. /\ json = Blank("nothing") /\ last = Blank("nothing") /\ shown = Blank("nothing")
      /\ snap = [i \in Sidecars |-> Blank("no interval yet")]
  BY DEF Init
<1>3. QED
  BY <1>1, <1>2, Zenon DEF SnapsAreSound

LEMMA MeterAlways == Spec => [](PlaceInv /\ RestType /\ SnapsAreSound)
<1>1. Init => RestType /\ SnapsAreSound
  BY RestInit, SoundInit
<1>2. RestType /\ SnapsAreSound /\ [Next]_vars => RestType' /\ SnapsAreSound'
  BY RestStep, SoundStep
<1>3. QED
  BY <1>1, <1>2, PlaceAlways, PTL DEF Spec

LEMMA CopiesAreSound ==
  ASSUME SnapsAreSound, NEW s \in Copies
  PROVE  Sound(s)
BY Zenon DEF SnapsAreSound, Copies

-----------------------------------------------------------------------------
(* What the proofs amount to.                                              *)

\* All variables keep their types.  For the totals this says that every
\* counter has a number and a priority whatever rows an interval had, and
\* that the errors of a session are one number (accumulate_etr290_snapshot
\* adds up None as nothing).
THEOREM MonitorTypeCorrect == Spec => []TypeOK
<1>1. ASSUME PlaceInv, RestType, SnapsAreSound
      PROVE  TypeOK
  <2>1. ASSUME NEW s \in {last, shown, json} \cup {snap[i] : i \in Sidecars}
        PROVE  /\ s.kind \in Reasons \cup {"session"} /\ s.age \in 0 .. Stale
               /\ \A n \in ALL_P12_COUNTERS :
                    s.totals.counters[n] \in [value : Nat, severity : {1, 2}]
               /\ s.totals.worst \in 0 .. 2
               /\ s.totals.errors \subseteq Nat /\ Cardinality(s.totals.errors) = 1
    <3>1. s \in Copies
      BY Zenon DEF Copies
    <3>2. Sound(s)
      BY <1>1, <3>1, CopiesAreSound
    <3>3. s.totals.worst \in 0 .. 2
      BY <3>2 DEF Sound, TotalsAreSound, WorstSeverity
    <3>4. QED
      BY <3>2, <3>3, Zenon DEF Sound, TotalsAreSound
  <2>2. QED
    BY <1>1, <2>1, Zenon DEF TypeOK, PlaceInv, PlaceType, RestType
<1>2. QED
  BY <1>1, MeterAlways, PTL

\* Wherever the totals of a session have been copied to (the sidecar, its file,
\* the child's last reading and the status), every counter is the sum of what
\* the intervals since the last reset said of it, and the worst severity is
\* that of these counters: no interval added by _InfluxStubHandler is lost or
\* counted twice, whatever is reset, restarted or killed in between.
THEOREM ShownTotalsAreSums == Spec => []TotalsAreSums
<1>1. ASSUME SnapsAreSound
      PROVE  TotalsAreSums
  <2>1. \A s \in Copies : TotalsAreSound(s.totals, s.heard)
    BY <1>1, CopiesAreSound DEF Sound
  <2>2. QED
    BY <2>1, Zenon DEF TotalsAreSums, TotalsAreSound
<1>2. QED
  BY <1>1, MeterAlways, PTL

\* Every PID map on show is in the order of the PIDs and has the null PID, once
\* and flagged as stuffing (extract_pid_structure), whatever tsanalyze lists.
THEOREM PidMapsAreWhole == Spec => []StructureIsWhole
<1>1. ASSUME SnapsAreSound
      PROVE  StructureIsWhole
  <2>1. \A s \in Copies : Sound(s)
    BY <1>1, CopiesAreSound
  <2>2. QED
    BY <2>1 DEF StructureIsWhole, Sound
<1>2. QED
  BY <1>1, MeterAlways, PTL
=============================================================================
