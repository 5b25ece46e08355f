----------------------- MODULE LocationHistory_proofs -----------------------
(***************************************************************************)
(* Proofs for modules LocationHistory and Pedometer: the order of the      *)
(* columns, what the trim forgets, that a location is kept until it is old *)
(* and a count of steps until its weekday comes again, for any number of   *)
(* tasks, locations, reports, minutes and days.                            *)
(***************************************************************************)
EXTENDS Pedometer, TLAPS, WellFoundedInduction

Entries(s) == s \in Seq(Entry)

(* In the order of time, nothing later than c. *)
Sorted(s, c) == Entries(s) /\ InOrder(s) /\ \A k \in DOMAIN s : s[k].at <= c

Task0 == [pc : {"idle", "read", "stamp", "write"}, pos : Place, at : 0 .. MaxTime,
          row : [Column -> Seq(Entry)]]

Types ==
  /\ clock \in 0 .. MaxTime
  /\ row \in [Column -> Seq(Entry)]
  /\ task \in [Task -> Task0] /\ \A t \in Task : task[t].at <= clock
  /\ handled \in Seq(Entry)

(* What a task has read is not later than the time it takes next. *)
Order ==
  /\ \A c \in Column : Sorted(row[c], clock)
  /\ \A t \in Task, c \in Column :
       /\ Sorted(task[t].row[c], clock)
       /\ At(t, "write") => Sorted(task[t].row[c], task[t].at)

(* Without overlap the task that has read the row has it to itself. *)
Solo ==
  ~overlapped =>
    /\ \A t, u \in Task : HasRead(t) /\ HasRead(u) => t = u
    /\ \A t \in Task : HasRead(t) => task[t].row = row

(* Without overlap text is null before the first location only. *)
TextStarted == ~overlapped /\ row.text = <<>> => handled = <<>>

HInv ==
  /\ Types /\ overlapped \in BOOLEAN /\ Order /\ Solo
  /\ LocationKept /\ TextKept /\ TextStarted

-----------------------------------------------------------------------------
(* What the helpers compute. *)

(* A set of numbers has a first one. *)
LEMMA Least ==
  ASSUME NEW S, S \subseteq Nat, S # {}
  PROVE  First(S) \in S /\ \A j \in S : First(S) <= j
<1> DEFINE R == OpToRel(<, Nat)
<1>1. IsWellFoundedOn(R, Nat)
  BY NatLessThanWellFounded
<1>2. \A x, y \in Nat : y < x => <<y, x>> \in R
  BY DEF OpToRel
<1> HIDE DEF R
<1>3. PICK x \in S : \A y \in S : <<y, x>> \notin R
  BY <1>1, WFMin
<1>4. ASSUME NEW y \in S PROVE x <= y
  <2>1. x \in Nat /\ y \in Nat /\ <<y, x>> \notin R
    BY <1>3
  <2>2. ~(y < x)
    BY <1>2, <2>1
  <2> QED
    BY <2>1, <2>2
<1>5. \E k \in S : \A j \in S : k <= j
  BY <1>4
<1> QED
  BY <1>5, Zenon DEF First

(* Trimmed cuts off a beginning of entries that are not young; what it     *)
(* leaves of these is equal to the last one it cut off.                    *)
LEMMA TrimmedCuts ==
  ASSUME NEW s \in Seq(Entry), NEW now \in Nat
  PROVE  \E j \in 0 .. Len(s) :
           /\ Trimmed(s, now) = SubSeq(s, j + 1, Len(s))
           /\ \A k \in 1 .. j : ~Young(s[k], now)
           /\ \/ YoungAt(s, now) = {}
              \/ \E k \in j + 1 .. Len(s) :
                   /\ Young(s[k], now) /\ \A i \in 1 .. k - 1 : ~Young(s[i], now)
                   /\ \/ k = 1 /\ j = 0
                      \/ j >= 1 /\ k > 1 /\ s[j] = s[k - 1]
<1> DEFINE young == YoungAt(s, now)
<1>0. DOMAIN s = 1 .. Len(s) /\ Len(s) \in Nat /\ young \subseteq DOMAIN s /\ young \subseteq Nat
      /\ s = SubSeq(s, 1, Len(s))
  BY DEF YoungAt
<1>1. CASE young = {}
  <2>1. Trimmed(s, now) = s
    BY <1>1 DEF Trimmed
  <2>2. /\ 0 \in 0 .. Len(s) /\ Trimmed(s, now) = SubSeq(s, 0 + 1, Len(s))
        /\ \A k \in 1 .. 0 : ~Young(s[k], now)
    BY <1>0, <2>1
  <2> QED
    BY <1>1, <2>2
<1>2. CASE young # {}
  <2>1. PICK k : k = First(young)
    OBVIOUS
  <2>2. k \in young /\ \A j \in young : k <= j
    BY <1>0, <1>2, <2>1, Least
  <2>3. k \in 1 .. Len(s) /\ Young(s[k], now)
    BY <1>0, <2>2 DEF YoungAt
  <2>4. \A i \in 1 .. k - 1 : ~Young(s[i], now)
    BY <1>0, <2>2, <2>3 DEF YoungAt
  <2>5. CASE k = 1
    <3>1. Trimmed(s, now) = s
      BY <2>1, <2>5 DEF Trimmed
    <3> QED
      BY <1>0, <2>3, <2>4, <2>5, <3>1
  <2>6. CASE k > 1
    <3> DEFINE same == {j \in DOMAIN s : s[j] = s[k - 1]}
    <3>1. k - 1 \in same /\ same \subseteq Nat
      BY <1>0, <2>3, <2>6
    <3>2. PICK j : j = First(same)
      OBVIOUS
    <3>3. j \in same /\ j <= k - 1
      BY <3>1, <3>2, Least
    <3>4. Trimmed(s, now) = SubSeq(s, j + 1, Len(s))
      <4>1. k # 1 /\ k = First(YoungAt(s, now)) /\ YoungAt(s, now) # {}
        BY <1>0, <1>2, <2>1, <2>3, <2>6
      <4>2. j = First({i \in DOMAIN s : s[i] = s[k - 1]})
        BY <3>2
      <4> QED
        BY <4>1, <4>2 DEF Trimmed
    <3>5. j \in 1 .. k - 1 /\ s[j] = s[k - 1] /\ j \in 0 .. Len(s) /\ k \in j + 1 .. Len(s)
      BY <1>0, <2>3, <3>3
    <3>6. \A i \in 1 .. j : ~Young(s[i], now)
      BY <2>3, <2>4, <3>5
    <3> QED
      BY <2>3, <2>4, <2>6, <3>4, <3>5, <3>6
  <2>7. k = 1 \/ k > 1
    BY <1>0, <2>3
  <2> QED
    BY <2>5, <2>6, <2>7
<1> QED
  BY <1>1, <1>2

(* A sequence without its first j elements. *)
LEMMA EndOf ==
  ASSUME NEW s \in Seq(Entry), NEW j \in 0 .. Len(s)
  PROVE  /\ SubSeq(s, j + 1, Len(s)) \in Seq(Entry)
         /\ Len(SubSeq(s, j + 1, Len(s))) = Len(s) - j
         /\ Len(s) - j \in Nat
         /\ DOMAIN SubSeq(s, j + 1, Len(s)) = 1 .. Len(s) - j
         /\ \A k \in 1 .. Len(s) - j :
              /\ j + k \in 1 .. Len(s)
              /\ SubSeq(s, j + 1, Len(s))[k] = s[j + k]
<1>1. Len(s) \in Nat /\ j \in Nat /\ j <= Len(s) /\ Len(s) - j \in Nat
  OBVIOUS
<1>2. SubSeq(s, j + 1, Len(s)) \in Seq(Entry)
  BY <1>1
<1>3. Len(SubSeq(s, j + 1, Len(s))) = Len(s) - j
  BY <1>1
<1>4. ASSUME NEW k \in 1 .. Len(s) - j
      PROVE  j + k \in 1 .. Len(s) /\ SubSeq(s, j + 1, Len(s))[k] = s[j + k]
  BY <1>1
<1> QED
  BY <1>1, <1>2, <1>3, <1>4

(* A column without its first entries is in the order of time. *)
LEMMA CutSorted ==
  ASSUME NEW s, NEW c \in Nat, Sorted(s, c), NEW j \in 0 .. Len(s)
  PROVE  Sorted(SubSeq(s, j + 1, Len(s)), c)
<1> DEFINE r == SubSeq(s, j + 1, Len(s))
<1>1. s \in Seq(Entry) /\ Len(s) \in Nat /\ DOMAIN s = 1 .. Len(s)
  BY DEF Sorted, Entries
<1>2. /\ r \in Seq(Entry) /\ DOMAIN r = 1 .. Len(s) - j
      /\ \A i \in 1 .. Len(s) - j : r[i] = s[j + i] /\ j + i \in DOMAIN s
  BY <1>1, EndOf
<1>3. InOrder(r)
  <2> SUFFICES ASSUME NEW i \in DOMAIN r, NEW k \in DOMAIN r, i <= k
               PROVE  r[i].at <= r[k].at
    BY DEF InOrder
  <2>1. r[i] = s[j + i] /\ r[k] = s[j + k] /\ j + i \in DOMAIN s /\ j + k \in DOMAIN s
    BY <1>2
  <2>2. j + i <= j + k
    BY <1>1, <1>2
  <2> QED
    BY <2>1, <2>2 DEF Sorted, InOrder
<1>4. ASSUME NEW k \in DOMAIN r PROVE r[k].at <= c
  <2>1. r[k] = s[j + k] /\ j + k \in DOMAIN s
    BY <1>2
  <2> QED
    BY <2>1 DEF Sorted
<1> QED
  BY <1>2, <1>3, <1>4 DEF Sorted, Entries

(* A trim keeps a column in the order of time. *)
LEMMA TrimmedSorted ==
  ASSUME NEW s, NEW c \in Nat, NEW now \in Nat, Sorted(s, c)
  PROVE  Sorted(Trimmed(s, now), c)
<1>1. s \in Seq(Entry)
  BY DEF Sorted, Entries
<1>2. PICK j \in 0 .. Len(s) : Trimmed(s, now) = SubSeq(s, j + 1, Len(s))
  BY <1>1, TrimmedCuts
<1> QED
  BY <1>2, CutSorted

(* An entry that is not earlier may be appended. *)
LEMMA AppendSorted ==
  ASSUME NEW s, NEW c \in Nat, NEW e \in Entry, Sorted(s, c), c <= e.at
  PROVE  Sorted(Append(s, e), e.at)
<1> DEFINE r == Append(s, e)
<1>1. s \in Seq(Entry) /\ Len(s) \in Nat /\ DOMAIN s = 1 .. Len(s) /\ e.at \in Nat
  BY HistoryAssumption DEF Sorted, Entries, Entry
<1>2. /\ r \in Seq(Entry) /\ DOMAIN r = 1 .. Len(s) + 1
      /\ \A i \in DOMAIN s : r[i] = s[i]
      /\ r[Len(s) + 1] = e
  BY <1>1
<1>3. ASSUME NEW k \in DOMAIN s PROVE s[k].at <= c /\ s[k].at \in Nat
  <2>1. s[k] \in Entry
    BY <1>1
  <2>2. s[k].at \in 0 .. MaxTime
    BY <2>1 DEF Entry
  <2> QED
    BY <2>2, HistoryAssumption DEF Sorted
<1>4. ASSUME NEW k \in DOMAIN r PROVE r[k].at <= e.at
  <2>1. CASE k \in DOMAIN s
    BY <1>1, <1>2, <1>3, <2>1
  <2>2. CASE k = Len(s) + 1
    BY <1>1, <1>2, <2>2
  <2> QED
    BY <1>1, <1>2, <2>1, <2>2
<1>5. ASSUME NEW i \in DOMAIN r, NEW k \in DOMAIN r, i <= k PROVE r[i].at <= r[k].at
  <2>1. CASE k \in DOMAIN s
    <3>1. i \in DOMAIN s
      BY <1>1, <1>2, <1>5, <2>1
    <3>2. r[i] = s[i] /\ r[k] = s[k]
      BY <1>2, <2>1, <3>1
    <3> QED
      BY <1>5, <2>1, <3>1, <3>2 DEF Sorted, InOrder
  <2>2. CASE k = Len(s) + 1
    BY <1>2, <1>4, <2>2
  <2> QED
    BY <1>1, <1>2, <2>1, <2>2
<1> QED
  BY <1>2, <1>4, <1>5 DEF Sorted, Entries, InOrder

(* Both columns of a row that is written. *)
LEMMA NewSorted ==
  ASSUME NEW s, NEW e \in Entry, Sorted(s, e.at)
  PROVE  Sorted(NewText(s, e), e.at) /\ Sorted(NewLocation(s, e), e.at)
<1>1. e.at \in Nat /\ e.at <= e.at
  BY HistoryAssumption DEF Entry
<1>2. Sorted(Append(s, e), e.at)
  BY <1>1, AppendSorted
<1>3. Sorted(Trimmed(s, e.at), e.at) /\ Sorted(Trimmed(Append(s, e), e.at), e.at)
  BY <1>1, <1>2, TrimmedSorted
<1>4. s = <<>> => <<e>> = Append(s, e)
  OBVIOUS
<1> QED
  BY <1>2, <1>3, <1>4, Zenon DEF NewText, NewLocation

(* Later times may pass. *)
LEMMA SortedLater ==
  ASSUME NEW s, NEW c \in Nat, NEW d \in Nat, Sorted(s, c), c <= d
  PROVE  Sorted(s, d)
<1>1. s \in Seq(Entry) /\ \A k \in DOMAIN s : s[k] \in Entry
  BY DEF Sorted, Entries
<1>2. \A k \in DOMAIN s : s[k].at \in Nat
  BY <1>1, HistoryAssumption DEF Entry
<1> QED
  BY <1>2 DEF Sorted

(* What is kept of a history stays its end when both get an entry. *)
LEMMA SuffixAppend ==
  ASSUME NEW s \in Seq(Entry), NEW all \in Seq(Entry), NEW e \in Entry,
         IsSuffixOf(s, all), ForgottenAreOld(s, all)
  PROVE  IsSuffixOf(Append(s, e), Append(all, e)) /\ ForgottenAreOld(Append(s, e), Append(all, e))
<1> DEFINE n == Len(all) - Len(s)
           s1 == Append(s, e)
           all1 == Append(all, e)
<1>1. /\ Len(s) \in Nat /\ Len(all) \in Nat /\ n \in Nat
      /\ s = SubSeq(all, n + 1, Len(all))
  BY DEF IsSuffixOf
<1>2. /\ s1 \in Seq(Entry) /\ all1 \in Seq(Entry)
      /\ Len(s1) = Len(s) + 1 /\ Len(all1) = Len(all) + 1
      /\ \A k \in 1 .. Len(s) : s1[k] = s[k]
      /\ \A k \in 1 .. Len(all) : all1[k] = all[k]
      /\ s1[Len(s) + 1] = e /\ all1[Len(all) + 1] = e
  BY <1>1
<1>3. Len(all1) - Len(s1) = n
  BY <1>1, <1>2
<1>4. \A k \in 1 .. Len(s) : s[k] = all[n + k]
  BY <1>1
<1> DEFINE r == SubSeq(all1, n + 1, Len(all1))
<1>5. r \in Seq(Entry) /\ Len(r) = Len(s) + 1
      /\ \A k \in 1 .. Len(s) + 1 : r[k] = all1[n + k]
  <2> HIDE DEF all1
  <2>1. n \in 0 .. Len(all1) /\ Len(all1) - n = Len(s) + 1
    BY <1>1, <1>2
  <2> QED
    BY <1>2, <2>1, EndOf
<1>6. ASSUME NEW k \in 1 .. Len(s) + 1 PROVE s1[k] = r[k]
  <2>1. CASE k \in 1 .. Len(s)
    <3>1. n + k \in 1 .. Len(all)
      BY <1>1, <2>1
    <3> QED
      BY <1>2, <1>4, <1>5, <2>1, <3>1
  <2>2. CASE k = Len(s) + 1
    <3>1. n + k = Len(all) + 1 /\ k \in 1 .. Len(s) + 1
      BY <1>1, <2>2
    <3>2. r[k] = all1[n + k]
      BY <1>5
    <3> QED
      BY <1>2, <2>2, <3>1, <3>2
  <2>3. k \in 1 .. Len(s) \/ k = Len(s) + 1
    BY <1>1
  <2> QED
    BY <2>1, <2>2, <2>3
<1>7. s1 = r
  BY <1>1, <1>2, <1>5, <1>6
<1>8. IsSuffixOf(s1, all1)
  BY <1>1, <1>2, <1>3, <1>7 DEF IsSuffixOf
<1>9. ASSUME NEW k \in 1 .. n PROVE ~Young(all1[k], clock)
  <2>1. all1[k] = all[k]
    BY <1>1, <1>2
  <2> QED
    BY <2>1 DEF ForgottenAreOld
<1> QED
  BY <1>3, <1>8, <1>9 DEF ForgottenAreOld

(* What is old stays old. *)
LEMMA OldLater ==
  ASSUME NEW e \in Entry, NEW now \in Nat, NEW later \in Nat, now <= later, ~Young(e, now)
  PROVE  ~Young(e, later)
BY HistoryAssumption DEF Young, Entry

(* ... and when old entries are cut off. *)
LEMMA SuffixCut ==
  ASSUME NEW s \in Seq(Entry), NEW all \in Seq(Entry), NEW j \in 0 .. Len(s), NEW now \in Nat,
         clock \in Nat, now <= clock, \A k \in 1 .. j : ~Young(s[k], now),
         IsSuffixOf(s, all), ForgottenAreOld(s, all)
  PROVE  /\ IsSuffixOf(SubSeq(s, j + 1, Len(s)), all)
         /\ ForgottenAreOld(SubSeq(s, j + 1, Len(s)), all)
<1> DEFINE n == Len(all) - Len(s)
           r == SubSeq(s, j + 1, Len(s))
<1>1. /\ Len(s) \in Nat /\ Len(all) \in Nat /\ n \in Nat
      /\ s = SubSeq(all, n + 1, Len(all))
  BY DEF IsSuffixOf
<1>2. \A k \in 1 .. Len(s) : s[k] = all[n + k]
  BY <1>1
<1>3. /\ r \in Seq(Entry) /\ Len(r) = Len(s) - j
      /\ \A k \in 1 .. Len(s) - j : r[k] = s[j + k] /\ j + k \in 1 .. Len(s)
  BY EndOf
<1>4. Len(all) - Len(r) = n + j
  <2>1. Len(r) = Len(s) - j /\ j \in Nat
    BY <1>1, <1>3
  <2> HIDE DEF r
  <2> QED
    BY <1>1, <2>1
<1> DEFINE q == SubSeq(all, n + j + 1, Len(all))
<1>5. q \in Seq(Entry) /\ Len(q) = Len(s) - j
      /\ \A k \in 1 .. Len(s) - j : q[k] = all[n + j + k]
  <2>1. n + j \in 0 .. Len(all) /\ Len(all) - (n + j) = Len(s) - j
    BY <1>1
  <2> QED
    BY <2>1, EndOf
<1>6. ASSUME NEW k \in 1 .. Len(s) - j PROVE r[k] = q[k]
  <2>1. r[k] = s[j + k] /\ j + k \in 1 .. Len(s) /\ n + (j + k) = n + j + k
    BY <1>1, <1>3
  <2> QED
    BY <1>2, <1>5, <2>1
<1>7. r = q
  <2>1. r \in Seq(Entry) /\ q \in Seq(Entry) /\ Len(r) = Len(q)
    BY <1>3, <1>5
  <2>2. \A k \in 1 .. Len(r) : r[k] = q[k]
    BY <1>3, <1>6
  <2> HIDE DEF r, q
  <2> QED
    BY <2>1, <2>2
<1>8. IsSuffixOf(r, all)
  <2>1. r = SubSeq(all, Len(all) - Len(r) + 1, Len(all))
    BY <1>4, <1>7
  <2>2. Len(r) <= Len(all)
    <3> HIDE DEF r
    <3> QED
      BY <1>1, <1>3
  <2> QED
    BY <2>1, <2>2 DEF IsSuffixOf
<1>9. ASSUME NEW k \in 1 .. n + j PROVE ~Young(all[k], clock)
  <2>1. CASE k \in 1 .. n
    BY <2>1 DEF ForgottenAreOld
  <2>2. CASE k > n
    <3>1. PICK i \in 1 .. j : k = n + i
      <4>1. k - n \in 1 .. j /\ k = n + (k - n)
        BY <1>1, <2>2
      <4> QED
        BY <4>1
    <3>2. i \in 1 .. Len(s) /\ s[i] = all[k]
      BY <1>1, <1>2, <3>1
    <3>3. s[i] \in Entry
      BY <3>2
    <3>4. ~Young(s[i], now)
      OBVIOUS
    <3> QED
      BY <3>2, <3>3, <3>4, OldLater
  <2> QED
    BY <1>1, <2>1, <2>2
<1> QED
  BY <1>4, <1>8, <1>9 DEF ForgottenAreOld

(* What the write leaves of column location. *)
LEMMA LocationGrows ==
  ASSUME NEW s \in Seq(Entry), NEW all \in Seq(Entry), NEW e \in Entry,
         clock \in Nat, e.at <= clock, IsSuffixOf(s, all), ForgottenAreOld(s, all)
  PROVE  /\ IsSuffixOf(NewLocation(s, e), Append(all, e))
         /\ ForgottenAreOld(NewLocation(s, e), Append(all, e))
<1> DEFINE s1 == Append(s, e)
           all1 == Append(all, e)
<1>1. s1 \in Seq(Entry) /\ all1 \in Seq(Entry) /\ e.at \in Nat
  BY HistoryAssumption DEF Entry
<1>2. IsSuffixOf(s1, all1) /\ ForgottenAreOld(s1, all1)
  BY SuffixAppend
<1>3. IsSuffixOf(Trimmed(s1, e.at), all1) /\ ForgottenAreOld(Trimmed(s1, e.at), all1)
  <2>1. PICK j \in 0 .. Len(s1) :
          /\ Trimmed(s1, e.at) = SubSeq(s1, j + 1, Len(s1))
          /\ \A k \in 1 .. j : ~Young(s1[k], e.at)
    BY <1>1, TrimmedCuts
  <2> HIDE DEF s1, all1
  <2> QED
    BY <1>1, <1>2, <2>1, SuffixCut
<1>4. s = <<>> => <<e>> = s1
  OBVIOUS
<1> QED
  BY <1>2, <1>3, <1>4, Zenon DEF NewLocation

(* What text holds of the locations it is given, when another one comes.   *)
LEMMA HoldsAppend ==
  ASSUME NEW s \in Seq(Entry), NEW all \in Seq(Entry), NEW e \in Entry, NEW now,
         NEW S, S \subseteq DOMAIN all, HoldsAllBut(s, all, S, now)
  PROVE  HoldsAllBut(Append(s, e), Append(all, e), S \cup {Len(all) + 1}, now)
<1> DEFINE s1 == Append(s, e)
           all1 == Append(all, e)
           S1 == S \cup {Len(all) + 1}
<1>1. PICK place \in [DOMAIN s -> S] :
        /\ \A j, k \in DOMAIN s : j < k => place[j] < place[k]
        /\ \A k \in DOMAIN s : s[k] = all[place[k]]
        /\ \A n \in S : \/ \E k \in DOMAIN s : place[k] = n
                        \/ ~Young(all[n], now) /\ \A k \in DOMAIN s : n < place[k]
  BY DEF HoldsAllBut
<1>2. /\ Len(s) \in Nat /\ Len(all) \in Nat /\ DOMAIN s = 1 .. Len(s) /\ DOMAIN all = 1 .. Len(all)
      /\ DOMAIN s1 = 1 .. Len(s) + 1
      /\ \A k \in 1 .. Len(s) : s1[k] = s[k]
      /\ \A k \in 1 .. Len(all) : all1[k] = all[k]
      /\ s1[Len(s) + 1] = e /\ all1[Len(all) + 1] = e
  OBVIOUS
<1> DEFINE place1 == [k \in DOMAIN s1 |-> IF k = Len(s) + 1 THEN Len(all) + 1 ELSE place[k]]
<1> HIDE DEF s1, all1
<1>3. /\ place1 \in [DOMAIN s1 -> S1]
      /\ \A k \in 1 .. Len(s) : place1[k] = place[k] /\ place[k] \in 1 .. Len(all)
      /\ place1[Len(s) + 1] = Len(all) + 1
  BY <1>1, <1>2
<1> HIDE DEF place1
<1>4. ASSUME NEW j \in DOMAIN s1, NEW k \in DOMAIN s1, j < k PROVE place1[j] < place1[k]
  <2>1. j \in 1 .. Len(s)
    BY <1>2, <1>4
  <2>2. CASE k \in 1 .. Len(s)
    BY <1>1, <1>2, <1>3, <1>4, <2>1, <2>2
  <2>3. CASE k = Len(s) + 1
    <3>1. place1[j] \in 1 .. Len(all) /\ place1[k] = Len(all) + 1
      BY <1>3, <2>1, <2>3
    <3> QED
      BY <1>2, <3>1
  <2> QED
    BY <1>2, <2>2, <2>3
<1>5. \A k \in DOMAIN s1 : s1[k] = all1[place1[k]]
  BY <1>1, <1>2, <1>3
<1>6. ASSUME NEW n \in S1
      PROVE  \/ \E k \in DOMAIN s1 : place1[k] = n
             \/ ~Young(all1[n], now) /\ \A k \in DOMAIN s1 : n < place1[k]
  <2>1. CASE n = Len(all) + 1
    BY <1>2, <1>3, <2>1
  <2>2. CASE n \in S /\ \E k \in DOMAIN s : place[k] = n
    BY <1>2, <1>3, <2>2
  <2>3. CASE n \in S /\ ~Young(all[n], now) /\ \A k \in DOMAIN s : n < place[k]
    <3>1. n \in 1 .. Len(all) /\ all1[n] = all[n]
      BY <1>2, <2>3
    <3>2. \A k \in DOMAIN s1 : n < place1[k]
      BY <1>2, <1>3, <2>3, <3>1
    <3> QED
      BY <2>3, <3>1, <3>2
  <2> QED
    BY <1>1, <2>1, <2>2, <2>3
<1> QED
  BY <1>3, <1>4, <1>5, <1>6 DEF HoldsAllBut, s1, all1

(* ... when it is not given the one that comes, *)
LEMMA HoldsOther ==
  ASSUME NEW s \in Seq(Entry), NEW all \in Seq(Entry), NEW e \in Entry, NEW now,
         NEW S, S \subseteq DOMAIN all, HoldsAllBut(s, all, S, now)
  PROVE  HoldsAllBut(s, Append(all, e), S, now)
<1>1. \A n \in S : Append(all, e)[n] = all[n]
  OBVIOUS
<1>2. PICK place \in [DOMAIN s -> S] :
        /\ \A j, k \in DOMAIN s : j < k => place[j] < place[k]
        /\ \A k \in DOMAIN s : s[k] = all[place[k]]
        /\ \A n \in S : \/ \E k \in DOMAIN s : place[k] = n
                        \/ ~Young(all[n], now) /\ \A k \in DOMAIN s : n < place[k]
  BY DEF HoldsAllBut
<1>3. /\ \A k \in DOMAIN s : s[k] = Append(all, e)[place[k]]
      /\ \A n \in S : \/ \E k \in DOMAIN s : place[k] = n
                      \/ ~Young(Append(all, e)[n], now) /\ \A k \in DOMAIN s : n < place[k]
  BY <1>1, <1>2
<1> QED
  BY <1>2, <1>3 DEF HoldsAllBut

(* ... when old entries are cut off, *)
LEMMA HoldsCut ==
  ASSUME NEW s \in Seq(Entry), NEW all \in Seq(Entry), NEW j \in 0 .. Len(s),
         NEW then \in Nat, NEW now \in Nat, then <= now, \A k \in 1 .. j : ~Young(s[k], then),
         NEW S, S \subseteq DOMAIN all, HoldsAllBut(s, all, S, now)
  PROVE  HoldsAllBut(SubSeq(s, j + 1, Len(s)), all, S, now)
<1> DEFINE r == SubSeq(s, j + 1, Len(s))
<1>1. PICK place \in [DOMAIN s -> S] :
        /\ \A i, k \in DOMAIN s : i < k => place[i] < place[k]
        /\ \A k \in DOMAIN s : s[k] = all[place[k]]
        /\ \A n \in S : \/ \E k \in DOMAIN s : place[k] = n
                        \/ ~Young(all[n], now) /\ \A k \in DOMAIN s : n < place[k]
  BY DEF HoldsAllBut
<1>2. /\ DOMAIN s = 1 .. Len(s) /\ Len(s) \in Nat /\ j \in Nat /\ j <= Len(s)
      /\ DOMAIN r = 1 .. Len(s) - j /\ \A k \in 1 .. Len(s) - j : r[k] = s[j + k]
      /\ \A k \in DOMAIN r : j + k \in DOMAIN s
  BY EndOf
<1> DEFINE place1 == [k \in DOMAIN r |-> place[j + k]]
<1> HIDE DEF r
<1>3. place1 \in [DOMAIN r -> S] /\ \A k \in DOMAIN r : place1[k] = place[j + k]
  BY <1>1, <1>2
<1> HIDE DEF place1
<1>4. ASSUME NEW i \in DOMAIN r, NEW k \in DOMAIN r, i < k PROVE place1[i] < place1[k]
  <2>1. j + i < j + k /\ j + i \in DOMAIN s /\ j + k \in DOMAIN s
    BY <1>2, <1>4
  <2> QED
    BY <1>1, <1>3, <2>1
<1>5. \A k \in DOMAIN r : r[k] = all[place1[k]]
  BY <1>1, <1>2, <1>3
<1>6. ASSUME NEW n \in S
      PROVE  \/ \E k \in DOMAIN r : place1[k] = n
             \/ ~Young(all[n], now) /\ \A k \in DOMAIN r : n < place1[k]
  <2>1. ASSUME NEW k \in 1 .. j, place[k] = n
        PROVE  ~Young(all[n], now) /\ \A i \in DOMAIN r : n < place1[i]
    <3>1. k \in DOMAIN s /\ s[k] = all[n] /\ s[k] \in Entry
      BY <1>1, <1>2, <2>1
    <3>2. ~Young(all[n], now)
      BY <3>1, OldLater
    <3>3. ASSUME NEW i \in DOMAIN r PROVE n < place1[i]
      <4>1. k < j + i /\ j + i \in DOMAIN s
        BY <1>2
      <4> QED
        BY <1>1, <1>3, <2>1, <3>1, <4>1
    <3> QED
      BY <3>2, <3>3
  <2>2. ASSUME NEW k \in DOMAIN s, k > j, place[k] = n
        PROVE  \E i \in DOMAIN r : place1[i] = n
    <3>1. k - j \in DOMAIN r /\ j + (k - j) = k
      BY <1>2, <2>2
    <3> QED
      BY <1>3, <2>2, <3>1
  <2>3. CASE ~Young(all[n], now) /\ \A k \in DOMAIN s : n < place[k]
    BY <1>2, <1>3, <2>3
  <2>4. \A k \in DOMAIN s : k \in 1 .. j \/ k > j
    BY <1>2
  <2> QED
    BY <1>1, <2>1, <2>2, <2>3, <2>4
<1> QED
  BY <1>3, <1>4, <1>5, <1>6 DEF HoldsAllBut, r

(* ... and when time passes. *)
LEMMA HoldsLater ==
  ASSUME NEW s \in Seq(Entry), NEW all \in Seq(Entry), NEW now \in Nat, NEW later \in Nat,
         now <= later, NEW S, S \subseteq DOMAIN all, HoldsAllBut(s, all, S, now)
  PROVE  HoldsAllBut(s, all, S, later)
<1>1. \A n \in S : all[n] \in Entry
  OBVIOUS
<1>2. \A n \in S : ~Young(all[n], now) => ~Young(all[n], later)
  BY <1>1, OldLater
<1>3. PICK place \in [DOMAIN s -> S] :
        /\ \A j, k \in DOMAIN s : j < k => place[j] < place[k]
        /\ \A k \in DOMAIN s : s[k] = all[place[k]]
        /\ \A n \in S : \/ \E k \in DOMAIN s : place[k] = n
                        \/ ~Young(all[n], now) /\ \A k \in DOMAIN s : n < place[k]
  BY DEF HoldsAllBut
<1>4. \A n \in S : \/ \E k \in DOMAIN s : place[k] = n
                   \/ ~Young(all[n], later) /\ \A k \in DOMAIN s : n < place[k]
  BY <1>2, <1>3
<1> QED
  BY <1>3, <1>4 DEF HoldsAllBut

(* A trim leaves something of a column that holds something. *)
LEMMA TrimmedNotEmpty ==
  ASSUME NEW s \in Seq(Entry), NEW now \in Nat, s # <<>>
  PROVE  Trimmed(s, now) # <<>>
<1>1. PICK j \in 0 .. Len(s) :
        /\ Trimmed(s, now) = SubSeq(s, j + 1, Len(s))
        /\ YoungAt(s, now) = {} \/ \E k : k \in j + 1 .. Len(s)
  BY TrimmedCuts
<1>2. CASE YoungAt(s, now) = {}
  BY <1>2 DEF Trimmed
<1>3. CASE \E k : k \in j + 1 .. Len(s)
  <2>1. Len(s) - j > 0 /\ Len(s) \in Nat
    BY <1>3
  <2>2. Len(Trimmed(s, now)) > 0
    BY <1>1, <2>1, EndOf
  <2>3. Len(<<>>) = 0
    OBVIOUS
  <2> QED
    BY <2>2, <2>3
<1> QED
  BY <1>1, <1>2, <1>3

TextedOf(all) == {k \in DOMAIN all : k = 1 \/ all[k].at \notin TrimTime}

(* What the write leaves of column text. *)
LEMMA TextGrows ==
  ASSUME NEW s \in Seq(Entry), NEW all \in Seq(Entry), NEW e \in Entry,
         clock \in Nat, e.at <= clock, s = <<>> => all = <<>>,
         HoldsAllBut(s, all, TextedOf(all), clock)
  PROVE  /\ HoldsAllBut(NewText(s, e), Append(all, e), TextedOf(Append(all, e)), clock)
         /\ NewText(s, e) # <<>>
<1> DEFINE S == TextedOf(all)
           all1 == Append(all, e)
           S1 == TextedOf(all1)
<1>1. /\ Len(all) \in Nat /\ DOMAIN all = 1 .. Len(all) /\ DOMAIN all1 = 1 .. Len(all) + 1
      /\ \A k \in 1 .. Len(all) : all1[k] = all[k]
      /\ all1[Len(all) + 1] = e /\ all1 \in Seq(Entry) /\ e.at \in Nat
  BY HistoryAssumption DEF Entry
<1>2. S \subseteq DOMAIN all /\ S \subseteq DOMAIN all1
  BY <1>1 DEF TextedOf
<1>3. S1 = IF Len(all) + 1 = 1 \/ e.at \notin TrimTime THEN S \cup {Len(all) + 1} ELSE S
  <2> HIDE DEF all1
  <2>1. \A k : k \in DOMAIN all1 <=> k \in DOMAIN all \/ k = Len(all) + 1
    BY <1>1
  <2>2. Len(all) + 1 \notin DOMAIN all
    BY <1>1
  <2>3. \A k \in DOMAIN all : k \in S1 <=> k \in S
    BY <1>1, <2>1 DEF TextedOf
  <2>4. Len(all) + 1 \in S1 <=> Len(all) + 1 = 1 \/ e.at \notin TrimTime
    BY <1>1, <2>1 DEF TextedOf
  <2>5. S1 \subseteq DOMAIN all1
    BY DEF TextedOf
  <2> HIDE DEF S, S1
  <2>6. \A k : k \in S1 => k \in S \/ k = Len(all) + 1
    BY <2>1, <2>3, <2>5
  <2>7. \A k : k \in S => k \in S1
    BY <1>2, <2>3
  <2> DEFINE n == Len(all) + 1
  <2> HIDE DEF n
  <2>8. CASE n = 1 \/ e.at \notin TrimTime
    <3>1. n \in S1
      BY <2>4, <2>8 DEF n
    <3> QED
      BY <2>6, <2>7, <2>8, <3>1 DEF n
  <2>9. CASE ~(n = 1 \/ e.at \notin TrimTime)
    <3>1. n \notin S1
      BY <2>4, <2>9 DEF n
    <3>2. \A k : k \in S1 <=> k \in S
      BY <2>6, <2>7, <3>1 DEF n
    <3>3. S1 = S
      BY <3>2
    <3> QED
      BY <2>9, <3>3 DEF n
  <2> QED
    BY <2>8, <2>9
<1> HIDE DEF S, S1
<1>4. HoldsAllBut(s, all, S, clock)
  BY DEF S
<1>5. CASE s = <<>>
  <2>1. all = <<>>
    BY <1>5
  <2>2. Len(all) + 1 = 1
    BY <2>1
  <2>3. S1 = S \cup {Len(all) + 1}
    BY <1>3, <2>2
  <2>4. HoldsAllBut(Append(s, e), all1, S1, clock)
    BY <1>2, <1>4, <2>3, HoldsAppend
  <2>5. NewText(s, e) = Append(s, e) /\ <<e>> # <<>>
    BY <1>5 DEF NewText
  <2> QED
    BY <1>5, <2>4, <2>5 DEF NewText, S1
<1>6. CASE s # <<>>
  <2>1. Len(all) + 1 # 1
    <3>1. 1 \in DOMAIN s
      BY <1>6
    <3>2. PICK place \in [DOMAIN s -> S] : TRUE
      BY <1>4 DEF HoldsAllBut
    <3>3. place[1] \in DOMAIN all
      BY <1>2, <3>1, <3>2
    <3> QED
      BY <1>1, <3>3
  <2>2. CASE e.at \in TrimTime
    <3>1. NewText(s, e) = Trimmed(s, e.at) /\ S1 = S
      BY <1>3, <1>6, <2>1, <2>2 DEF NewText
    <3>2. PICK j \in 0 .. Len(s) :
            /\ Trimmed(s, e.at) = SubSeq(s, j + 1, Len(s))
            /\ \A k \in 1 .. j : ~Young(s[k], e.at)
      BY <1>1, TrimmedCuts
    <3>3. HoldsAllBut(s, all1, S, clock)
      BY <1>2, <1>4, HoldsOther
    <3>4. HoldsAllBut(Trimmed(s, e.at), all1, S, clock)
      <4> HIDE DEF all1
      <4> QED
        BY <1>1, <1>2, <3>2, <3>3, HoldsCut
    <3>5. Trimmed(s, e.at) # <<>>
      BY <1>1, <1>6, TrimmedNotEmpty
    <3> QED
      BY <3>1, <3>4, <3>5 DEF S1
  <2>3. CASE e.at \notin TrimTime
    <3>1. NewText(s, e) = Append(s, e) /\ S1 = S \cup {Len(all) + 1}
      BY <1>3, <1>6, <2>3 DEF NewText
    <3>2. HoldsAllBut(Append(s, e), all1, S1, clock)
      BY <1>2, <1>4, <3>1, HoldsAppend
    <3>3. Append(s, e) # <<>>
      OBVIOUS
    <3> QED
      BY <3>1, <3>2, <3>3 DEF S1
  <2> QED
    BY <2>2, <2>3
<1> QED
  BY <1>5, <1>6

-----------------------------------------------------------------------------
(* The invariant, one lemma per action. *)

LEMMA NoTaskType ==
  /\ NoTask \in Task0 /\ NoTask.pc = "idle" /\ NoTask.at = 0 /\ NoTask.row = NoRow
  /\ NoRow \in [Column -> Seq(Entry)] /\ \A c \in Column : NoRow[c] = <<>>
<1>1. NoRow \in [Column -> Seq(Entry)] /\ \A c \in Column : NoRow[c] = <<>>
  BY DEF NoRow
<1>2. (CHOOSE p \in Place : TRUE) \in Place
  BY HistoryAssumption
<1>3. 0 \in 0 .. MaxTime
  BY HistoryAssumption
<1> QED
  BY <1>1, <1>2, <1>3 DEF NoTask, Task0

LEMMA EmptySorted == ASSUME NEW c \in Nat PROVE Sorted(<<>>, c)
BY DEF Sorted, Entries, InOrder

LEMMA InitHInv == Init => HInv
<1> SUFFICES ASSUME Init PROVE HInv
  OBVIOUS
<1>1. /\ clock = 0 /\ row = NoRow /\ task = [t \in Task |-> NoTask]
      /\ handled = <<>> /\ overlapped = FALSE
  BY DEF Init
<1>2. clock \in 0 .. MaxTime /\ clock \in Nat
  BY <1>1, HistoryAssumption
<1>3. \A t \in Task : task[t] = NoTask
  BY <1>1
<1>4. Types
  BY <1>1, <1>2, <1>3, NoTaskType DEF Types
<1>5. Order
  <2>1. \A c \in Column : Sorted(row[c], clock)
    BY <1>1, <1>2, NoTaskType, EmptySorted
  <2>2. \A t \in Task, c \in Column : Sorted(task[t].row[c], clock) /\ ~At(t, "write")
    BY <1>2, <1>3, NoTaskType, EmptySorted DEF At
  <2> QED
    BY <2>1, <2>2 DEF Order
<1>6. Solo
  BY <1>3, NoTaskType DEF Solo, HasRead
<1>7. LocationKept
  <2>1. row.location = <<>>
    BY <1>1, NoTaskType DEF Column, NoRow
  <2> QED
    BY <1>1, <2>1 DEF LocationKept, IsSuffixOf, ForgottenAreOld
<1>8. TextKept /\ TextStarted
  <2>1. row.text = <<>> /\ handled = <<>>
    BY <1>1, NoTaskType DEF Column, NoRow
  <2>2. DOMAIN row.text = {} /\ Texted = {}
    BY <2>1 DEF Texted
  <2>3. [k \in {} |-> 1] \in [DOMAIN row.text -> Texted]
    BY <2>2
  <2> QED
    BY <2>1, <2>2, <2>3 DEF TextKept, TextStarted, HoldsAllBut
<1> QED
  BY <1>1, <1>4, <1>5, <1>6, <1>7, <1>8 DEF HInv

(* The facts about the types that the steps need again and again. *)
LEMMA TypeFacts ==
  ASSUME Types
  PROVE  /\ clock \in Nat /\ clock \in 0 .. MaxTime
         /\ \A c \in Column : row[c] \in Seq(Entry)
         /\ \A t \in Task : /\ task[t] \in Task0 /\ task[t].at \in Nat /\ task[t].at <= clock
                            /\ task[t].at \in 0 .. MaxTime /\ EntryOf(t) \in Entry
                            /\ EntryOf(t).at = task[t].at
                            /\ \A c \in Column : task[t].row[c] \in Seq(Entry)
<1>1. clock \in Nat /\ clock \in 0 .. MaxTime
  BY HistoryAssumption DEF Types
<1>2. \A c \in Column : row[c] \in Seq(Entry)
  BY DEF Types
<1>3. ASSUME NEW t \in Task
      PROVE  /\ task[t] \in Task0 /\ task[t].at \in Nat /\ task[t].at <= clock
             /\ task[t].at \in 0 .. MaxTime /\ EntryOf(t) \in Entry /\ EntryOf(t).at = task[t].at
             /\ \A c \in Column : task[t].row[c] \in Seq(Entry)
  <2>1. task[t] \in Task0 /\ task[t].at <= clock
    BY DEF Types
  <2>2. task[t].at \in 0 .. MaxTime /\ task[t].pos \in Place /\ task[t].row \in [Column -> Seq(Entry)]
    BY <2>1 DEF Task0
  <2>3. EntryOf(t) \in Entry /\ EntryOf(t).at = task[t].at
    BY <2>2 DEF EntryOf, Entry
  <2> QED
    BY <2>1, <2>2, <2>3, HistoryAssumption
<1> QED
  BY <1>1, <1>2, <1>3

(* Text and the locations it is given stay as they are. *)
LEMMA TextStays ==
  ASSUME TextKept, TextStarted, clock' = clock, row' = row, handled' = handled,
         overlapped => overlapped'
  PROVE  TextKept' /\ TextStarted'
<1>1. Texted' = Texted
  BY DEF Texted
<1> QED
  BY <1>1 DEF TextKept, TextStarted

LEMMA TickHInv == HInv /\ Tick => HInv'
<1> SUFFICES ASSUME HInv, Tick PROVE HInv'
  OBVIOUS
<1> USE DEF HInv
<1>1. /\ clock < MaxTime /\ clock' = clock + 1
      /\ row' = row /\ task' = task /\ handled' = handled /\ overlapped' = overlapped
  BY DEF Tick
<1>2. clock \in Nat /\ clock' \in Nat /\ clock <= clock' /\ clock' \in 0 .. MaxTime
  BY <1>1, TypeFacts, HistoryAssumption
<1>3. Types'
  <2>1. \A t \in Task : task'[t].at <= clock'
    BY <1>1, <1>2, TypeFacts
  <2> QED
    BY <1>1, <1>2, <2>1 DEF Types
<1>4. Order'
  <2>1. \A c \in Column : Sorted(row'[c], clock')
    BY <1>1, <1>2, SortedLater DEF Order
  <2>2. \A t \in Task, c \in Column : Sorted(task'[t].row[c], clock')
    BY <1>1, <1>2, SortedLater DEF Order
  <2>3. \A t \in Task, c \in Column : At(t, "write")' => Sorted(task'[t].row[c], task'[t].at)
    BY <1>1 DEF Order, At
  <2> QED
    BY <2>1, <2>2, <2>3 DEF Order, Sorted, InOrder, Entries
<1>5. Solo'
  BY <1>1 DEF Solo, HasRead
<1>6. LocationKept'
  <2> SUFFICES ASSUME ~overlapped
               PROVE  IsSuffixOf(row.location, handled) /\ ForgottenAreOld(row.location, handled)'
    BY <1>1 DEF LocationKept, IsSuffixOf
  <2>1. IsSuffixOf(row.location, handled) /\ ForgottenAreOld(row.location, handled)
    BY DEF LocationKept
  <2>2. ASSUME NEW k \in 1 .. Len(handled) - Len(row.location)
        PROVE  ~Young(handled[k], clock')
    <3>1. handled \in Seq(Entry) /\ row.location \in Seq(Entry)
      BY TypeFacts DEF Types, Column
    <3>2. Len(row.location) \in Nat /\ Len(handled) \in Nat
      BY <3>1
    <3>3. k \in 1 .. Len(handled)
      BY <3>2
    <3>4. handled[k] \in Entry
      BY <3>1, <3>3
    <3>5. ~Young(handled[k], clock)
      BY <2>1 DEF ForgottenAreOld
    <3> QED
      BY <1>2, <3>4, <3>5, OldLater
  <2> QED
    BY <1>1, <2>1, <2>2 DEF ForgottenAreOld
<1>7. TextKept' /\ TextStarted'
  <2>1. row.text \in Seq(Entry) /\ handled \in Seq(Entry) /\ Texted \subseteq DOMAIN handled
    BY TypeFacts DEF Types, Column, Texted
  <2>2. ~overlapped => HoldsAllBut(row.text, handled, Texted, clock')
    BY <1>2, <2>1, HoldsLater DEF TextKept
  <2>3. Texted' = Texted
    BY <1>1 DEF Texted
  <2> QED
    BY <1>1, <2>2, <2>3 DEF TextKept, TextStarted
<1> QED
  BY <1>1, <1>3, <1>4, <1>5, <1>6, <1>7

LEMMA ArriveHInv ==
  ASSUME HInv, NEW t \in Task, NEW p \in Place, Arrive(t, p) PROVE HInv'
<1> USE DEF HInv
<1>1. /\ task' = [task EXCEPT ![t].pc = "read", ![t].pos = p]
      /\ At(t, "idle")
      /\ clock' = clock /\ row' = row /\ handled' = handled /\ overlapped' = overlapped
  BY DEF Arrive
<1>2. task \in [Task -> Task0]
  BY DEF Types
<1>3. /\ task' \in [Task -> Task0]
      /\ task'[t].pc = "read" /\ task'[t].at = task[t].at /\ task'[t].row = task[t].row
      /\ \A u \in Task : u # t => task'[u] = task[u]
  BY <1>1, <1>2 DEF Task0
<1>4. /\ \A u \in Task : task'[u].at = task[u].at /\ task'[u].row = task[u].row
      /\ \A u \in Task : HasRead(u)' => HasRead(u)
      /\ \A u \in Task : At(u, "write")' => At(u, "write")
  BY <1>3 DEF HasRead, At
<1>5. Types'
  BY <1>1, <1>3, <1>4 DEF Types
<1>6. Order'
  <2>1. ASSUME NEW u \in Task, NEW c \in Column
        PROVE  /\ Sorted(task'[u].row[c], clock)
               /\ At(u, "write")' => Sorted(task'[u].row[c], task'[u].at)
    <3>1. task'[u].at = task[u].at /\ task'[u].row = task[u].row /\ Sorted(task[u].row[c], clock)
      BY <1>4 DEF Order
    <3>2. CASE At(u, "write")'
      BY <1>4, <3>1, <3>2 DEF Order
    <3> QED
      BY <3>1, <3>2
  <2>2. \A c \in Column : Sorted(row'[c], clock)
    BY <1>1 DEF Order
  <2> QED
    BY <1>1, <2>1, <2>2 DEF Order, Sorted, InOrder, Entries
<1>7. Solo'
  BY <1>1, <1>4 DEF Solo
<1>8. LocationKept'
  BY <1>1 DEF LocationKept, ForgottenAreOld, IsSuffixOf
<1> QED
  BY <1>1, <1>5, <1>6, <1>7, <1>8, TextStays

LEMMA ReadHInv ==
  ASSUME HInv, NEW t \in Task, ReadRow(t) PROVE HInv'
<1> USE DEF HInv
<1>1. /\ task' = [task EXCEPT ![t].pc = "stamp", ![t].row = row]
      /\ At(t, "read")
      /\ overlapped' = (overlapped \/ \E u \in Task : HasRead(u))
      /\ clock' = clock /\ row' = row /\ handled' = handled
  BY DEF ReadRow
<1>2. task \in [Task -> Task0] /\ row \in [Column -> Seq(Entry)]
  BY DEF Types
<1>3. /\ task' \in [Task -> Task0]
      /\ task'[t].pc = "stamp" /\ task'[t].at = task[t].at /\ task'[t].row = row
      /\ \A u \in Task : u # t => task'[u] = task[u]
  BY <1>1, <1>2 DEF Task0
<1>4. Types'
  <2>1. \A u \in Task : task'[u].at <= clock
    BY <1>3 DEF Types
  <2> QED
    BY <1>1, <1>3, <2>1 DEF Types
<1>5. Order'
  <2>1. ASSUME NEW u \in Task, NEW c \in Column
        PROVE  /\ Sorted(task'[u].row[c], clock)
               /\ At(u, "write")' => Sorted(task'[u].row[c], task'[u].at)
    <3>1. CASE u = t
      BY <1>3, <3>1 DEF Order, At
    <3>2. CASE u # t
      BY <1>3, <3>2 DEF Order, At
    <3> QED
      BY <3>1, <3>2
  <2>2. \A c \in Column : Sorted(row'[c], clock)
    BY <1>1 DEF Order
  <2> QED
    BY <1>1, <2>1, <2>2 DEF Order, Sorted, InOrder, Entries
<1>6. Solo'
  <2> SUFFICES ASSUME ~overlapped'
               PROVE  /\ \A u, v \in Task : HasRead(u)' /\ HasRead(v)' => u = v
                      /\ \A u \in Task : HasRead(u)' => task'[u].row = row'
    BY DEF Solo
  <2>1. \A u \in Task : ~HasRead(u)
    BY <1>1
  <2>2. \A u \in Task : HasRead(u)' => u = t
    BY <1>3, <2>1 DEF HasRead
  <2> QED
    BY <1>1, <1>3, <2>2
<1>7. LocationKept'
  BY <1>1 DEF LocationKept, ForgottenAreOld, IsSuffixOf
<1>8. overlapped' \in BOOLEAN
  BY <1>1
<1> QED
  BY <1>1, <1>4, <1>5, <1>6, <1>7, <1>8, TextStays

LEMMA StampHInv ==
  ASSUME HInv, NEW t \in Task, Stamp(t) PROVE HInv'
<1> USE DEF HInv
<1>1. /\ task' = [task EXCEPT ![t].pc = "write", ![t].at = clock]
      /\ At(t, "stamp")
      /\ clock' = clock /\ row' = row /\ handled' = handled /\ overlapped' = overlapped
  BY DEF Stamp
<1>2. task \in [Task -> Task0] /\ clock \in 0 .. MaxTime /\ clock <= clock
  BY TypeFacts DEF Types
<1>3. /\ task' \in [Task -> Task0]
      /\ task'[t].pc = "write" /\ task'[t].at = clock /\ task'[t].row = task[t].row
      /\ \A u \in Task : u # t => task'[u] = task[u]
  BY <1>1, <1>2 DEF Task0
<1>4. Types'
  <2>1. \A u \in Task : task'[u].at <= clock
    BY <1>2, <1>3 DEF Types
  <2> QED
    BY <1>1, <1>3, <2>1 DEF Types
<1>5. Order'
  <2>1. ASSUME NEW u \in Task, NEW c \in Column
        PROVE  /\ Sorted(task'[u].row[c], clock)
               /\ At(u, "write")' => Sorted(task'[u].row[c], task'[u].at)
    <3>1. CASE u = t
      BY <1>3, <3>1 DEF Order
    <3>2. CASE u # t
      BY <1>3, <3>2 DEF Order, At
    <3> QED
      BY <3>1, <3>2
  <2>2. \A c \in Column : Sorted(row'[c], clock)
    BY <1>1 DEF Order
  <2> QED
    BY <1>1, <2>1, <2>2 DEF Order, Sorted, InOrder, Entries
<1>6. Solo'
  <2>1. \A u \in Task : HasRead(u)' <=> HasRead(u)
    BY <1>1, <1>3 DEF HasRead, At
  <2>2. \A u \in Task : task'[u].row = task[u].row
    BY <1>3
  <2> QED
    BY <1>1, <2>1, <2>2 DEF Solo
<1>7. LocationKept'
  BY <1>1 DEF LocationKept, ForgottenAreOld, IsSuffixOf
<1> QED
  BY <1>1, <1>4, <1>5, <1>6, <1>7, TextStays

(* A task that ends without a write leaves all as it is. *)
LEMMA FailsHInv ==
  ASSUME HInv, NEW t \in Task, ReadFails(t) \/ WriteFails(t) PROVE HInv'
<1> USE DEF HInv
<1>1. /\ task' = [task EXCEPT ![t] = NoTask]
      /\ clock' = clock /\ row' = row /\ handled' = handled /\ overlapped' = overlapped
  BY DEF ReadFails, WriteFails
<1>2. /\ task' \in [Task -> Task0] /\ task'[t] = NoTask
      /\ \A u \in Task : u # t => task'[u] = task[u]
  BY <1>1, NoTaskType DEF Types
<1>3. Types'
  <2>1. ASSUME NEW u \in Task PROVE task'[u].at <= clock
    <3>1. CASE u = t
      BY <1>2, <3>1, NoTaskType, TypeFacts DEF Types
    <3>2. CASE u # t
      BY <1>2, <3>2 DEF Types
    <3> QED
      BY <3>1, <3>2
  <2> QED
    BY <1>1, <1>2, <2>1 DEF Types
<1>4. Order'
  <2>1. ASSUME NEW u \in Task, NEW c \in Column
        PROVE  /\ Sorted(task'[u].row[c], clock)
               /\ At(u, "write")' => Sorted(task'[u].row[c], task'[u].at)
    <3>1. CASE u = t
      <4>1. clock \in Nat /\ Sorted(<<>>, clock)
        BY TypeFacts, EmptySorted
      <4> QED
        BY <1>2, <3>1, <4>1, NoTaskType DEF At
    <3>2. CASE u # t
      BY <1>2, <3>2 DEF Order, At
    <3> QED
      BY <3>1, <3>2
  <2>2. \A c \in Column : Sorted(row'[c], clock)
    BY <1>1 DEF Order
  <2> QED
    BY <1>1, <2>1, <2>2 DEF Order, Sorted, InOrder, Entries
<1>5. Solo'
  <2>1. \A u \in Task : HasRead(u)' => u # t /\ HasRead(u) /\ task'[u] = task[u]
    BY <1>2, NoTaskType DEF HasRead
  <2> QED
    BY <1>1, <2>1 DEF Solo
<1>6. LocationKept'
  BY <1>1 DEF LocationKept, ForgottenAreOld, IsSuffixOf
<1> QED
  BY <1>1, <1>3, <1>4, <1>5, <1>6, TextStays

LEMMA WriteHInv ==
  ASSUME HInv, NEW t \in Task, WriteRow(t) PROVE HInv'
<1> USE DEF HInv
<1> DEFINE e == EntryOf(t)
<1>1. /\ row' = [text |-> NewText(task[t].row.text, e),
                 location |-> NewLocation(task[t].row.location, e)]
      /\ handled' = Append(handled, e)
      /\ task' = [task EXCEPT ![t] = NoTask]
      /\ clock' = clock /\ overlapped' = overlapped /\ At(t, "write")
  BY DEF WriteRow
<1>2. e \in Entry /\ e.at = task[t].at /\ e.at \in Nat /\ e.at <= clock /\ clock \in Nat
  BY TypeFacts
<1> HIDE DEF e
<1>3. /\ Sorted(task[t].row.text, e.at) /\ Sorted(task[t].row.location, e.at)
      /\ task[t].row.location \in Seq(Entry)
  BY <1>1, <1>2, TypeFacts DEF Order, Column
<1>4. Sorted(row'.text, e.at) /\ Sorted(row'.location, e.at)
  BY <1>1, <1>2, <1>3, NewSorted
<1>5. Sorted(row'.text, clock) /\ Sorted(row'.location, clock)
  BY <1>2, <1>4, SortedLater
<1>6. task' \in [Task -> Task0] /\ task'[t] = NoTask /\ \A u \in Task : u # t => task'[u] = task[u]
  BY <1>1, NoTaskType DEF Types
<1>7. Types'
  <2>1. ASSUME NEW u \in Task PROVE task'[u].at <= clock
    <3>1. CASE u = t
      BY <1>2, <1>6, <3>1, NoTaskType
    <3>2. CASE u # t
      BY <1>6, <3>2 DEF Types
    <3> QED
      BY <3>1, <3>2
  <2>2. row' \in [Column -> Seq(Entry)]
    <3>1. row'.text \in Seq(Entry) /\ row'.location \in Seq(Entry)
      BY <1>5 DEF Sorted, Entries
    <3> QED
      BY <1>1, <3>1 DEF Column
  <2>3. handled' \in Seq(Entry)
    BY <1>1, <1>2 DEF Types
  <2> QED
    BY <1>1, <1>6, <2>1, <2>2, <2>3 DEF Types
<1>8. Order'
  <2>1. ASSUME NEW u \in Task, NEW c \in Column
        PROVE  /\ Sorted(task'[u].row[c], clock)
               /\ At(u, "write")' => Sorted(task'[u].row[c], task'[u].at)
    <3>1. CASE u = t
      BY <1>2, <1>6, <3>1, NoTaskType, EmptySorted DEF At
    <3>2. CASE u # t
      BY <1>6, <3>2 DEF Order, At
    <3> QED
      BY <3>1, <3>2
  <2>2. \A c \in Column : Sorted(row'[c], clock)
    BY <1>5 DEF Column
  <2> QED
    BY <1>1, <2>1, <2>2 DEF Order, Sorted, InOrder, Entries
<1>9. Solo'
  <2> SUFFICES ASSUME ~overlapped
               PROVE  \A u \in Task : ~HasRead(u)'
    BY <1>1 DEF Solo
  <2>1. HasRead(t) /\ \A u, v \in Task : HasRead(u) /\ HasRead(v) => u = v
    BY <1>1 DEF Solo, HasRead, At
  <2>2. \A u \in Task : u # t => ~HasRead(u)
    BY <2>1
  <2> QED
    BY <1>6, <2>2, NoTaskType DEF HasRead
<1>10. LocationKept'
  <2> SUFFICES ASSUME ~overlapped
               PROVE  /\ IsSuffixOf(row'.location, handled')
                      /\ ForgottenAreOld(row'.location, handled')
    BY <1>1 DEF LocationKept, IsSuffixOf, ForgottenAreOld
  <2>1. task[t].row = row
    BY <1>1 DEF Solo, HasRead, At
  <2>2. /\ row.location \in Seq(Entry) /\ handled \in Seq(Entry)
        /\ IsSuffixOf(row.location, handled) /\ ForgottenAreOld(row.location, handled)
    BY <1>3, <2>1 DEF LocationKept, Types
  <2>3. row'.location = NewLocation(row.location, e)
    BY <1>1, <2>1
  <2> QED
    BY <1>1, <1>2, <2>2, <2>3, LocationGrows
<1>11. TextKept' /\ TextStarted'
  <2> SUFFICES ASSUME ~overlapped
               PROVE  /\ HoldsAllBut(row'.text, handled', Texted', clock)
                      /\ row'.text # <<>>
    BY <1>1 DEF TextKept, TextStarted
  <2>1. task[t].row = row
    BY <1>1 DEF Solo, HasRead, At
  <2>2. /\ row.text \in Seq(Entry) /\ handled \in Seq(Entry)
        /\ HoldsAllBut(row.text, handled, TextedOf(handled), clock)
        /\ row.text = <<>> => handled = <<>>
    BY TypeFacts DEF TextKept, TextStarted, Types, Texted, TextedOf, Column
  <2>3. row'.text = NewText(row.text, e)
    BY <1>1, <2>1
  <2>4. Texted' = TextedOf(handled')
    BY DEF Texted, TextedOf
  <2> QED
    BY <1>1, <1>2, <2>2, <2>3, <2>4, TextGrows
<1> QED
  BY <1>1, <1>7, <1>8, <1>9, <1>10, <1>11

LEMMA StepHInv == HInv /\ [Next]_vars => HInv'
<1> SUFFICES ASSUME HInv, [Next]_vars PROVE HInv'
  OBVIOUS
<1>1. CASE Tick
  BY <1>1, TickHInv
<1>2. CASE \E t \in Task, p \in Place : Arrive(t, p)
  BY <1>2, ArriveHInv
<1>3. CASE \E t \in Task : ReadRow(t)
  BY <1>3, ReadHInv
<1>4. CASE \E t \in Task : Stamp(t)
  BY <1>4, StampHInv
<1>5. CASE \E t \in Task : WriteRow(t)
  BY <1>5, WriteHInv
<1>6. CASE \E t \in Task : ReadFails(t) \/ WriteFails(t)
  BY <1>6, FailsHInv
<1>7. CASE UNCHANGED vars
  <2>1. clock' = clock /\ row' = row /\ task' = task /\ handled' = handled /\ overlapped' = overlapped
    BY <1>7 DEF vars
  <2> QED
    BY <2>1, TextStays DEF HInv, Types, Order, Solo, LocationKept, Sorted, InOrder, Entries,
                           HasRead, At, IsSuffixOf, ForgottenAreOld
<1> QED
  BY <1>1, <1>2, <1>3, <1>4, <1>5, <1>6, <1>7 DEF Next

-----------------------------------------------------------------------------
(* What a trim leaves. *)

(* The entries that a trim leaves although they are old are of one time.   *)
LEMMA TrimmedOld ==
  ASSUME NEW s, NEW c \in Nat, NEW now \in Nat, Sorted(s, c),
         NEW r, r = Trimmed(s, now), YoungAt(r, now) # {},
         NEW a \in DOMAIN r, NEW b \in DOMAIN r, ~Young(r[a], now), ~Young(r[b], now)
  PROVE  r[a].at = r[b].at
<1>1. s \in Seq(Entry) /\ Len(s) \in Nat /\ DOMAIN s = 1 .. Len(s)
  BY DEF Sorted, Entries
<1>2. \A i \in DOMAIN s : s[i].at \in Nat
  <2>1. \A i \in DOMAIN s : s[i] \in Entry
    BY <1>1
  <2> QED
    BY <2>1, HistoryAssumption DEF Entry
<1>3. PICK j \in 0 .. Len(s) :
        /\ r = SubSeq(s, j + 1, Len(s))
        /\ \/ YoungAt(s, now) = {}
           \/ \E k \in j + 1 .. Len(s) :
                /\ Young(s[k], now) /\ \A i \in 1 .. k - 1 : ~Young(s[i], now)
                /\ \/ k = 1 /\ j = 0
                   \/ j >= 1 /\ k > 1 /\ s[j] = s[k - 1]
  BY <1>1, TrimmedCuts
<1>4. /\ DOMAIN r = 1 .. Len(s) - j
      /\ \A i \in DOMAIN r : j + i \in DOMAIN s /\ r[i] = s[j + i]
  BY <1>1, <1>3, EndOf
<1>5. YoungAt(s, now) # {}
  <2>1. PICK i \in DOMAIN r : Young(r[i], now)
    BY DEF YoungAt
  <2>2. j + i \in DOMAIN s /\ Young(s[j + i], now)
    BY <1>4, <2>1
  <2> QED
    BY <2>2 DEF YoungAt
<1>6. PICK k \in j + 1 .. Len(s) :
        /\ Young(s[k], now) /\ \A i \in 1 .. k - 1 : ~Young(s[i], now)
        /\ \/ k = 1 /\ j = 0
           \/ j >= 1 /\ k > 1 /\ s[j] = s[k - 1]
  BY <1>3, <1>5
<1>7. k \in DOMAIN s /\ k \in Nat /\ j \in Nat
  BY <1>1, <1>6
<1>8. ASSUME NEW i \in DOMAIN s, k <= i PROVE Young(s[i], now)
  <2>1. s[k].at <= s[i].at
    BY <1>7, <1>8 DEF Sorted, InOrder
  <2> QED
    BY <1>2, <1>6, <1>7, <2>1, HistoryAssumption DEF Young
<1>9. ASSUME NEW i \in DOMAIN r, ~Young(r[i], now)
      PROVE  j >= 1 /\ r[i].at = s[j].at
  <2>1. j + i \in DOMAIN s /\ ~Young(s[j + i], now) /\ r[i] = s[j + i] /\ i \in Nat /\ i >= 1
    BY <1>1, <1>4, <1>9
  <2>2. j + i < k
    BY <1>1, <1>7, <1>8, <2>1
  <2>3. j >= 1 /\ k > 1 /\ s[j] = s[k - 1]
    BY <1>6, <1>7, <2>1, <2>2
  <2>4. j \in DOMAIN s /\ k - 1 \in DOMAIN s /\ j <= j + i /\ j + i <= k - 1
    BY <1>1, <1>7, <2>1, <2>2, <2>3
  <2>5. s[j].at <= s[j + i].at /\ s[j + i].at <= s[k - 1].at
    BY <2>1, <2>4 DEF Sorted, InOrder
  <2>6. s[j].at \in Nat /\ s[j + i].at \in Nat /\ s[k - 1].at = s[j].at
    BY <1>2, <2>1, <2>3, <2>4
  <2>7. s[j + i].at = s[j].at
    BY <2>5, <2>6
  <2> QED
    BY <2>1, <2>3, <2>7
<1> QED
  BY <1>9

(* The same of a column that is written at a time of trimming.             *)
LEMMA NewOld ==
  ASSUME NEW s, NEW e \in Entry, Sorted(s, e.at), e.at \in TrimTime,
         NEW r, r = NewText(s, e) \/ r = NewLocation(s, e), YoungAt(r, e.at) # {}
  PROVE  \A a, b \in DOMAIN r : ~Young(r[a], e.at) /\ ~Young(r[b], e.at) => r[a].at = r[b].at
<1> SUFFICES ASSUME NEW a \in DOMAIN r, NEW b \in DOMAIN r, ~Young(r[a], e.at), ~Young(r[b], e.at)
             PROVE  r[a].at = r[b].at
  OBVIOUS
<1>1. e.at \in Nat /\ e.at <= e.at
  BY HistoryAssumption DEF Entry
<1>2. Sorted(Append(s, e), e.at)
  BY <1>1, AppendSorted
<1>3. CASE s = <<>>
  <2>1. r = <<e>>
    BY <1>3 DEF NewText, NewLocation
  <2>2. a = 1 /\ b = 1
    BY <2>1
  <2> QED
    BY <2>2
<1>4. CASE s # <<>>
  <2>1. r = Trimmed(s, e.at) \/ r = Trimmed(Append(s, e), e.at)
    BY <1>4, Zenon DEF NewText, NewLocation
  <2>2. CASE r = Trimmed(s, e.at)
    BY <1>1, <2>2, TrimmedOld
  <2>3. CASE r = Trimmed(Append(s, e), e.at)
    BY <1>1, <1>2, <2>3, TrimmedOld
  <2> QED
    BY <2>1, <2>2, <2>3
<1> QED
  BY <1>3, <1>4

(* Only its own WriteRow takes a task away from its write with its         *)
(* location written.                                                       *)
LEMMA OnlyWriteEnds ==
  ASSUME HInv, [Next]_vars, NEW t \in Task, At(t, "write"), ~At(t, "write")', handled' # handled
  PROVE  WriteRow(t)
<1>1. task \in [Task -> Task0] /\ task[t].pc = "write" /\ task'[t] # task[t]
  BY DEF HInv, Types, At
<1>2. CASE Tick
  BY <1>1, <1>2 DEF Tick
<1>3. ASSUME NEW u \in Task, NEW p \in Place, Arrive(u, p) PROVE FALSE
  BY <1>1, <1>3 DEF Arrive, At
<1>4. ASSUME NEW u \in Task, ReadRow(u) PROVE FALSE
  BY <1>1, <1>4 DEF ReadRow, At
<1>5. ASSUME NEW u \in Task, Stamp(u) PROVE FALSE
  BY <1>1, <1>5 DEF Stamp, At
<1>6. ASSUME NEW u \in Task, WriteRow(u) PROVE u = t
  BY <1>1, <1>6 DEF WriteRow
<1>7. ASSUME NEW u \in Task, ReadFails(u) \/ WriteFails(u) PROVE FALSE
  BY <1>7 DEF ReadFails, WriteFails
<1>8. CASE UNCHANGED vars
  BY <1>1, <1>8 DEF vars
<1> QED
  BY <1>2, <1>3, <1>4, <1>5, <1>6, <1>7, <1>8 DEF Next

LEMMA WriteForgetsTheOld ==
  ASSUME HInv, NEW t \in Task, NEW c \in Column, WriteRow(t),
         task[t].at \in TrimTime, YoungAt(row'[c], task[t].at) # {}
  PROVE  \A a, b \in DOMAIN row'[c] :
           ~Young(row'[c][a], task[t].at) /\ ~Young(row'[c][b], task[t].at)
           => row'[c][a].at = row'[c][b].at
<1>1. PICK e, s, r : e = EntryOf(t) /\ s = task[t].row[c] /\ r = row'[c]
  OBVIOUS
<1>2. e \in Entry /\ e.at = task[t].at
  BY <1>1, TypeFacts DEF HInv
<1>3. Sorted(s, e.at)
  BY <1>1, <1>2 DEF HInv, Order, WriteRow
<1>4. r = NewText(s, e) \/ r = NewLocation(s, e)
  BY <1>1 DEF WriteRow, Column
<1>5. e.at \in TrimTime /\ YoungAt(r, e.at) # {}
  BY <1>1, <1>2
<1>6. \A i, k \in DOMAIN r : ~Young(r[i], e.at) /\ ~Young(r[k], e.at) => r[i].at = r[k].at
  BY <1>2, <1>3, <1>4, <1>5, NewOld
<1> QED
  BY <1>1, <1>2, <1>6

-----------------------------------------------------------------------------
(* The theorems. *)

(* The invariant holds of every run of saveLocation's tasks: the columns,  *)
(* the copies the tasks have read, and the only task of a row not shared.  *)
THEOREM HistoryCorrect == Spec => []HInv
<1> QED
  BY InitHInv, StepHInv, PTL DEF Spec

(* The type invariant: clock, columns, tasks, and no entry of the future.  *)
THEOREM HistoryTypeCorrect == Spec => []TypeOK
<1>1. HInv => TypeOK
  <2> SUFFICES ASSUME HInv PROVE TypeOK
    OBVIOUS
  <2>1. ASSUME NEW t \in Task
        PROVE  task[t] \in [pc : {"idle", "read", "stamp", "write"}, pos : Place,
                            at : 0 .. clock, row : [Column -> Seq(Entry)]]
    <3>1. task[t] \in Task0 /\ task[t].at \in 0 .. clock
      BY TypeFacts DEF HInv
    <3> QED
      BY <3>1 DEF Task0
  <2> QED
    BY <2>1 DEF HInv, Types, TypeOK
<1> QED
  BY <1>1, HistoryCorrect, PTL

(* Whatever tasks overlap, both columns are in the order of time.          *)
THEOREM HistoryInOrder == Spec => []ColumnsInOrder
<1>1. HInv => ColumnsInOrder
  BY DEF HInv, Order, ColumnsInOrder, Sorted
<1> QED
  BY <1>1, HistoryCorrect, PTL

(* Without overlapping tasks column location keeps every young location.   *)
THEOREM HistoryKept == Spec => []LocationKept
<1>1. HInv => LocationKept
  BY DEF HInv
<1> QED
  BY <1>1, HistoryCorrect, PTL

(* Without overlapping tasks column text keeps the young locations that it *)
(* is given: those of minutes 30 and 59 it never gets.                     *)
THEOREM HistoryTextKept == Spec => []TextKept
<1>1. HInv => TextKept
  BY DEF HInv
<1> QED
  BY <1>1, HistoryCorrect, PTL

(* What a trim leaves of the old entries is of one second.                 *)
THEOREM HistoryTrims == Spec => TrimForgetsTheOld
<1>1. HInv /\ [Next]_vars
      => [\A t \in Task, c \in Column :
           LET now == task[t].at
               old == {k \in DOMAIN row'[c] : ~Young(row'[c][k], now)}
           IN  /\ At(t, "write") /\ ~At(t, "write")' /\ handled' # handled /\ now \in TrimTime
               /\ YoungAt(row'[c], now) # {}
               => \A j, k \in old : row'[c][j].at = row'[c][k].at]_vars
  <2> SUFFICES ASSUME HInv, [Next]_vars, NEW t \in Task, NEW c \in Column,
                      At(t, "write"), ~At(t, "write")', handled' # handled,
                      task[t].at \in TrimTime, YoungAt(row'[c], task[t].at) # {}
               PROVE  \A j, k \in {i \in DOMAIN row'[c] : ~Young(row'[c][i], task[t].at)} :
                        row'[c][j].at = row'[c][k].at
    OBVIOUS
  <2>1. WriteRow(t)
    BY OnlyWriteEnds
  <2> QED
    BY <2>1, WriteForgetsTheOld
<1> QED
  BY <1>1, HistoryCorrect, PTL DEF Spec, TrimForgetsTheOld

-----------------------------------------------------------------------------
(* The pedometer beside it. *)

(* The tasks for frames 7101 leave those of saveLocation alone.            *)
THEOREM RecordsAreHistory == RecordsSpec => Spec
<1>1. RecordsInit => Init
  BY DEF RecordsInit
<1>2. [RecordsNext]_recordVars => [Next]_vars
  BY DEF RecordsNext, HistoryStep, StepReport, recordVars, Next
<1> QED
  BY <1>1, <1>2, PTL DEF RecordsSpec, Spec

Looked(t) == walk[t].pc \in {"date", "write"}

(* Without overlap one task is at work on the row, and what it has found   *)
(* is still there.                                                         *)
AloneWithWeek ==
  ~mixed =>
    /\ \A t, u \in Task : Walking(t) /\ Walking(u) => t = u
    /\ \A t \in Task : Looked(t) => walk[t].found = weeks

WInv == HInv /\ PedTypeOK /\ AloneWithWeek /\ WeekKept

Walk == [pc : {"idle", "find", "date", "write"}, steps : Steps \cup {"garbled"},
         day : 0 .. clock, found : {<<>>} \cup {<<w>> : w \in WeekRow}]

LEMMA WalkFacts ==
  ASSUME HInv, PedTypeOK
  PROVE  /\ clock \in Nat /\ clock \in 0 .. MaxTime /\ MaxTime \in Nat
         /\ walk \in [Task -> Walk] /\ NoWalk \in Walk
         /\ weeks \in Seq(WeekRow) /\ reported \in WeekRow /\ EmptyWeek \in WeekRow
<1>1. clock \in 0 .. MaxTime /\ MaxTime \in Nat
  BY HistoryAssumption DEF HInv, Types
<1>2. walk \in [Task -> Walk] /\ weeks \in Seq(WeekRow) /\ reported \in WeekRow
  BY DEF PedTypeOK, Walk
<1>3. NoWalk \in Walk
  BY <1>1 DEF NoWalk, Walk
<1>4. EmptyWeek \in WeekRow
  BY DEF EmptyWeek, WeekRow
<1> QED
  BY <1>1, <1>2, <1>3, <1>4

LEMMA InitWInv == RecordsInit => WInv
<1> SUFFICES ASSUME RecordsInit PROVE WInv
  OBVIOUS
<1>1. HInv
  BY InitHInv DEF RecordsInit
<1>2. clock \in 0 .. MaxTime /\ MaxTime \in Nat
  BY <1>1, HistoryAssumption DEF HInv, Types
<1>3. PedTypeOK
  <2>1. NoWalk \in Walk
    BY <1>2 DEF NoWalk, Walk
  <2>2. EmptyWeek \in WeekRow
    BY DEF EmptyWeek, WeekRow
  <2>3. reports \in 0 .. MaxReports /\ failures \in 0 .. MaxFailures
    BY PedometerAssumption DEF RecordsInit, PedInit
  <2>4. weeks \in Seq(WeekRow)
    BY DEF RecordsInit, PedInit
  <2>5. mixed \in BOOLEAN
    BY Zenon DEF RecordsInit, PedInit
  <2> QED
    BY <2>1, <2>2, <2>3, <2>4, <2>5 DEF RecordsInit, PedInit, PedTypeOK, Walk
<1>4. AloneWithWeek /\ WeekKept
  BY DEF RecordsInit, PedInit, AloneWithWeek, Looked, Walking, NoWalk, WeekKept
<1> QED
  BY <1>1, <1>3, <1>4 DEF WInv

(* A step of the history, of which only the clock matters here. *)
LEMMA HistoryWInv ==
  ASSUME WInv, HInv', UNCHANGED pedVars, clock' \in {clock, clock + 1}
  PROVE  WInv'
<1>1. walk' = walk /\ UNCHANGED <<weeks, reports, failures, reported, mixed>>
  BY DEF pedVars
<1>2. PedTypeOK'
  <2>1. clock \in Nat /\ walk \in [Task -> Walk] /\ clock' \in Nat
    BY WalkFacts DEF WInv
  <2>2. 0 .. clock \subseteq 0 .. clock'
    BY <2>1
  <2>3. walk' \in [Task -> Walk']
    BY <1>1, <2>1, <2>2 DEF Walk
  <2> QED
    BY <1>1, <2>3 DEF WInv, PedTypeOK, Walk
<1>3. AloneWithWeek' /\ WeekKept'
  BY <1>1 DEF WInv, AloneWithWeek, Looked, Walking, WeekKept
<1> QED
  BY <1>2, <1>3 DEF WInv

(* A step of one task that leaves the rows alone. *)
LEMMA WalkWInv ==
  ASSUME WInv, HInv', UNCHANGED <<vars, weeks, reported>>, NEW t \in Task, NEW w \in Walk,
         walk' = [walk EXCEPT ![t] = w], reports' \in 0 .. MaxReports,
         failures' \in 0 .. MaxFailures, mixed' \in BOOLEAN, mixed => mixed',
         ~mixed' => /\ w.pc # "idle" => \A u \in Task : Walking(u) => u = t
                    /\ w.pc \in {"date", "write"} => w.found = weeks
  PROVE  WInv'
<1>1. walk \in [Task -> Walk] /\ clock' = clock
  BY WalkFacts DEF WInv, vars
<1>2. walk' \in [Task -> Walk] /\ walk'[t] = w /\ \A u \in Task : u # t => walk'[u] = walk[u]
  BY <1>1
<1>3. PedTypeOK'
  BY <1>1, <1>2 DEF WInv, PedTypeOK, Walk
<1>4. AloneWithWeek'
  BY <1>2 DEF WInv, AloneWithWeek, Looked, Walking
<1>5. WeekKept'
  BY DEF WInv, WeekKept
<1> QED
  BY <1>3, <1>4, <1>5 DEF WInv

LEMMA OneRow ==
  ASSUME NEW W, NEW s \in Seq(W), Len(s) <= 1, s # <<>>
  PROVE  Len(s) = 1 /\ DOMAIN s = {1} /\ s[1] \in W /\ s = <<s[1]>>
<1>1. Len(s) = 1
  <2>1. Len(s) \in Nat /\ DOMAIN s = 1 .. Len(s)
    OBVIOUS
  <2>2. Len(s) # 0
    <3> SUFFICES ASSUME Len(s) = 0 PROVE s = <<>>
      OBVIOUS
    <3> QED
      OBVIOUS
  <2> QED
    BY <2>1, <2>2
<1>2. DOMAIN s = {1}
  BY <1>1
<1>3. s = <<s[1]>>
  BY <1>1
<1> QED
  BY <1>1, <1>2, <1>3

LEMMA WriteWInv ==
  ASSUME WInv, HInv', UNCHANGED vars, NEW t \in Task, WriteWeek(t)
  PROVE  WInv'
<1> DEFINE e == [steps |-> walk[t].steps, day |-> walk[t].day]
           new == NewWeek(walk[t].found, e)
<1>1. /\ walk \in [Task -> Walk] /\ NoWalk \in Walk /\ EmptyWeek \in WeekRow
      /\ weeks \in Seq(WeekRow) /\ reported \in WeekRow /\ clock \in 0 .. MaxTime /\ MaxTime \in Nat
  BY WalkFacts DEF WInv
<1>2. e \in Report /\ SlotOf(e.day) \in Slot
  <2>1. walk[t].day \in 0 .. clock /\ walk[t].steps \in Steps
    BY <1>1 DEF WriteWeek, Walk
  <2>2. walk[t].day \in Nat /\ Week \in Nat \ {0}
    BY <1>1, <2>1, PedometerAssumption
  <2>3. walk[t].day % Week \in 0 .. Week - 1
    BY <2>2
  <2> QED
    BY <1>1, <2>1, <2>3 DEF Report, SlotOf, Slot
<1>3. walk[t].found = <<>> \/ \E w \in WeekRow : walk[t].found = <<w>>
  BY <1>1 DEF Walk
<1>4. new \in WeekRow
  BY <1>1, <1>2, <1>3 DEF NewWeek, WeekRow
<1>5. /\ IF walk[t].found = <<>> THEN weeks' = Append(weeks, new)
                                 ELSE weeks' = [i \in DOMAIN weeks |-> new]
      /\ reported' = [reported EXCEPT ![SlotOf(e.day)] = e]
      /\ walk' = [walk EXCEPT ![t] = NoWalk] /\ UNCHANGED <<reports, failures, mixed>>
  BY DEF WriteWeek
<1>6. reported' \in WeekRow
  BY <1>1, <1>2, <1>5 DEF WeekRow
<1> HIDE DEF new
<1>7. weeks' \in Seq(WeekRow)
  BY <1>1, <1>4, <1>5
<1>8. walk' \in [Task -> Walk] /\ walk'[t] = NoWalk /\ \A u \in Task : u # t => walk'[u] = walk[u]
  BY <1>1, <1>5
<1>9. PedTypeOK'
  BY <1>5, <1>6, <1>7, <1>8 DEF WInv, PedTypeOK, Walk, vars
<1>10. AloneWithWeek'
  BY <1>5, <1>8 DEF WInv, AloneWithWeek, Looked, Walking, NoWalk, WriteWeek, WalkAt
<1>11. WeekKept'
  <2> SUFFICES ASSUME ~mixed
               PROVE  /\ Len(weeks') <= 1 /\ weeks' # <<>>
                      /\ \A i \in DOMAIN weeks' : weeks'[i] = reported'
    BY <1>5 DEF WeekKept
  <2>1. walk[t].found = weeks
    BY DEF WInv, AloneWithWeek, Looked, WriteWeek, WalkAt
  <2>2. CASE weeks = <<>>
    <3>1. new = reported'
      BY <1>5, <2>1, <2>2 DEF new, NewWeek, WInv, WeekKept
    <3>2. weeks' = <<new>>
      BY <1>4, <1>5, <2>1, <2>2
    <3> QED
      BY <3>1, <3>2
  <2>3. CASE weeks # <<>>
    <3>0. Len(weeks) <= 1 /\ \A i \in DOMAIN weeks : weeks[i] = reported
      BY Zenon DEF WInv, WeekKept
    <3>1. Len(weeks) = 1 /\ 1 \in DOMAIN weeks /\ weeks[1] = reported
      BY <1>1, <2>3, <3>0, OneRow
    <3>2. new = reported'
      BY <1>5, <2>1, <2>3, <3>1 DEF new, NewWeek
    <3>3. weeks' = [i \in 1 .. 1 |-> new]
      BY <1>1, <1>5, <2>1, <2>3, <3>1
    <3>4. Len(weeks') = 1 /\ \A i \in DOMAIN weeks' : weeks'[i] = new
      BY <3>3, <1>7
    <3> QED
      BY <3>2, <3>4, <1>7
  <2> QED
    BY <2>2, <2>3
<1> QED
  BY <1>9, <1>10, <1>11 DEF WInv

LEMMA NextWInv == WInv /\ [RecordsNext]_recordVars => WInv'
<1> SUFFICES ASSUME WInv, [RecordsNext]_recordVars PROVE WInv'
  OBVIOUS
<1>1. HInv'
  BY StepHInv DEF WInv, RecordsNext, HistoryStep, StepReport, recordVars, Next
<1>2. CASE HistoryStep \/ UNCHANGED recordVars
  <2>1. clock' \in {clock, clock + 1} /\ UNCHANGED pedVars
    BY <1>2 DEF HistoryStep, recordVars, vars, Tick, Arrive, ReadRow, ReadFails, Stamp, WriteRow, WriteFails
  <2> QED
    BY <1>1, <2>1, HistoryWInv
<1>3. CASE StepReport
  <2>0. /\ UNCHANGED vars /\ walk \in [Task -> Walk] /\ NoWalk \in Walk /\ weeks \in Seq(WeekRow)
        /\ clock \in Nat
    BY <1>3, WalkFacts DEF StepReport, WInv
  <2>1. /\ reports \in 0 .. MaxReports /\ failures \in 0 .. MaxFailures /\ mixed \in BOOLEAN
        /\ MaxReports \in Nat /\ MaxFailures \in Nat
    BY PedometerAssumption DEF WInv, PedTypeOK
  <2>2. \A t \in Task : ~mixed => /\ Walking(t) => \A u \in Task : Walking(u) => u = t
                                  /\ Looked(t) => walk[t].found = weeks
    BY DEF WInv, AloneWithWeek
  <2>3. ASSUME NEW t \in Task, NEW n \in Steps \cup {"garbled"}, ReportSteps(t, n) PROVE WInv'
    <3> DEFINE w == [walk[t] EXCEPT !.pc = "find", !.steps = n]
    <3>1. w \in Walk /\ w.pc = "find"
      BY <2>0 DEF Walk
    <3>2. walk' = [walk EXCEPT ![t] = w] /\ UNCHANGED <<weeks, reported, failures>>
      BY <2>0, <2>3 DEF ReportSteps
    <3>3. reports' \in 0 .. MaxReports
      BY <2>1, <2>3 DEF ReportSteps
    <3>4. /\ mixed' \in BOOLEAN
          /\ mixed => mixed'
          /\ ~mixed' => ~\E u \in Task : Walking(u)
      BY <2>1, <2>3, Zenon DEF ReportSteps
    <3>5. ~mixed' => /\ w.pc # "idle" => \A u \in Task : Walking(u) => u = t
                     /\ w.pc \in {"date", "write"} => w.found = weeks
      BY <3>1, <3>4
    <3> HIDE DEF w
    <3> QED
      BY <1>1, <2>0, <2>1, <2>3, <3>1, <3>2, <3>3, <3>4, <3>5, WalkWInv
  <2>4. ASSUME NEW t \in Task, PedStep(t) PROVE WInv'
    <3>0. NoWalk.pc = "idle" /\ walk[t] \in Walk
      BY <2>0 DEF NoWalk
    <3>1. CASE FindWeek(t)
      <4>1. PICK f \in {<<>>} \cup {<<weeks[i]>> : i \in DOMAIN weeks} :
              /\ walk' = [walk EXCEPT ![t] = [walk[t] EXCEPT !.pc = "date", !.found = f]]
              /\ weeks = <<>> <=> f = <<>>
              /\ WalkAt(t, "find") /\ UNCHANGED <<weeks, reports, failures, reported, mixed>>
        <5>1. WalkAt(t, "find") /\ UNCHANGED <<weeks, reports, failures, reported, mixed>>
          BY <3>1 DEF FindWeek
        <5>2. ASSUME weeks = <<>>,
                     walk' = [walk EXCEPT ![t].pc = "date", ![t].found = <<>>]
              PROVE  walk' = [walk EXCEPT ![t] = [walk[t] EXCEPT !.pc = "date", !.found = <<>>]]
          BY <2>0, <5>2
        <5>3. ASSUME NEW i \in DOMAIN weeks,
                     walk' = [walk EXCEPT ![t].pc = "date", ![t].found = <<weeks[i]>>]
              PROVE  walk' = [walk EXCEPT ![t] = [walk[t] EXCEPT !.pc = "date",
                                                                   !.found = <<weeks[i]>>]]
          BY <2>0, <5>3
        <5>4. ASSUME NEW i \in DOMAIN weeks PROVE weeks # <<>> /\ <<weeks[i]>> # <<>>
          BY <2>0
        <5>5. CASE weeks = <<>> /\ walk' = [walk EXCEPT ![t].pc = "date", ![t].found = <<>>]
          BY <5>1, <5>2, <5>5
        <5>6. ASSUME NEW i \in DOMAIN weeks,
                     walk' = [walk EXCEPT ![t].pc = "date", ![t].found = <<weeks[i]>>]
              PROVE  \E f \in {<<>>} \cup {<<weeks[k]>> : k \in DOMAIN weeks} :
                       /\ walk' = [walk EXCEPT ![t] = [walk[t] EXCEPT !.pc = "date", !.found = f]]
                       /\ weeks = <<>> <=> f = <<>>
          <6>1. <<weeks[i]>> \in {<<>>} \cup {<<weeks[k]>> : k \in DOMAIN weeks}
            OBVIOUS
          <6> QED
            BY <5>3, <5>4, <5>6, <6>1
        <5> QED
          BY <3>1, <5>1, <5>5, <5>6, Zenon DEF FindWeek
      <4> DEFINE w == [walk[t] EXCEPT !.pc = "date", !.found = f]
      <4>2. f \in {<<>>} \cup {<<v>> : v \in WeekRow}
        BY <2>0
      <4>3. w \in Walk /\ w.found = f /\ w.pc # "idle"
        BY <3>0, <4>2 DEF Walk
      <4>4. ~mixed => f = weeks
        <5> SUFFICES ASSUME ~mixed, weeks # <<>>, f # <<>> PROVE f = weeks
          BY <4>1
        <5>1. Len(weeks) <= 1
          BY Zenon DEF WInv, WeekKept
        <5>2. DOMAIN weeks = {1} /\ weeks = <<weeks[1]>>
          BY <2>0, <5>1, OneRow
        <5>3. PICK i \in DOMAIN weeks : f = <<weeks[i]>>
          BY <4>1
        <5> QED
          BY <5>2, <5>3
      <4>5. Walking(t)
        BY <4>1 DEF Walking, WalkAt
      <4>6. walk' = [walk EXCEPT ![t] = w]
        BY <4>1
      <4> HIDE DEF w
      <4> QED
        BY <1>1, <2>0, <2>1, <2>2, <4>1, <4>3, <4>4, <4>5, <4>6, WalkWInv
    <3>2. CASE FindWeekFails(t)
      <4> DEFINE w == [walk[t] EXCEPT !.pc = "date", !.found = <<>>]
      <4>1. w \in Walk /\ w.found = <<>> /\ w.pc # "idle"
        BY <3>0 DEF Walk
      <4>2. walk' = [walk EXCEPT ![t] = w] /\ Walking(t)
        BY <2>0, <3>2 DEF FindWeekFails, WalkAt, Walking
      <4>3. failures' \in 0 .. MaxFailures /\ UNCHANGED <<weeks, reports, reported>>
        BY <2>1, <3>2 DEF FindWeekFails
      <4>4. (mixed' \in BOOLEAN) /\ (mixed => mixed') /\ (~mixed' => ~mixed /\ weeks = <<>>)
        BY <3>2, <2>1, Zenon DEF FindWeekFails
      <4> HIDE DEF w
      <4> QED
        BY <1>1, <2>0, <2>1, <2>2, <4>1, <4>2, <4>3, <4>4, WalkWInv
    <3>3. CASE TakeDate(t)
      <4> DEFINE w == [walk[t] EXCEPT !.pc = "write", !.day = clock]
      <4>0. clock \in 0 .. clock
        BY <2>0
      <4>1. w \in Walk /\ w.found = walk[t].found /\ w.pc # "idle"
        BY <3>0, <4>0 DEF Walk
      <4>2. walk' = [walk EXCEPT ![t] = w] /\ Walking(t) /\ Looked(t)
        BY <2>0, <3>3 DEF TakeDate, WalkAt, Walking, Looked
      <4>3. UNCHANGED <<weeks, reports, failures, reported, mixed>>
        BY <3>3 DEF TakeDate
      <4> HIDE DEF w
      <4> QED
        BY <1>1, <2>0, <2>1, <2>2, <4>1, <4>2, <4>3, WalkWInv
    <3>4. CASE NotANumber(t) \/ WriteWeekFails(t)
      <4>1. walk' = [walk EXCEPT ![t] = NoWalk] /\ UNCHANGED <<weeks, reports, reported, mixed>>
        BY <3>4 DEF NotANumber, WriteWeekFails
      <4>2. failures' \in 0 .. MaxFailures
        BY <2>1, <3>4 DEF NotANumber, WriteWeekFails
      <4> QED
        BY <1>1, <2>0, <2>1, <3>0, <4>1, <4>2, WalkWInv
    <3>5. CASE WriteWeek(t)
      BY <1>1, <2>0, <3>5, WriteWInv
    <3> QED
      BY <2>4, <3>1, <3>2, <3>3, <3>4, <3>5 DEF PedStep
  <2> QED
    BY <1>3, <2>3, <2>4 DEF StepReport
<1> QED
  BY <1>2, <1>3 DEF RecordsNext

(* The invariant holds of every run of both kinds of tasks.                *)
THEOREM RecordsCorrect == RecordsSpec => []WInv
<1> QED
  BY InitWInv, NextWInv, PTL DEF RecordsSpec

(* The type invariant of the pedometer; no task has a date of the future.  *)
THEOREM RecordsTypeCorrect == RecordsSpec => []PedTypeOK
<1>1. WInv => PedTypeOK
  BY DEF WInv
<1> QED
  BY <1>1, RecordsCorrect, PTL

(* Without overlapping reports or a look-up that fails on the row there    *)
(* is, a device has one row, and it keeps the entry of every weekday.      *)
THEOREM WeekIsKept == RecordsSpec => []WeekKept
<1>1. WInv => WeekKept
  BY DEF WInv
<1> QED
  BY <1>1, RecordsCorrect, PTL

=============================================================================
