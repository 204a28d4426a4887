--------------------------- MODULE TrainingProofs ---------------------------
(***************************************************************************)
(* TrainingPipeline and ModelServing, for every CSV, set of horizons,      *)
(* share of the partitions, patience and course of the validation loss.    *)
(*                                                                         *)
(* A table is followed from the CSV on by what each step of preparation    *)
(* keeps: Tidy until the rows are labelled, Labelled (or, for the minutes  *)
(* of N-BEATS, Series) from then on.  TrainInv adds that what is looked at *)
(* lies in the partitions before the test, and that BestEpoch, a set,      *)
(* holds the epoch of the lowest loss; ServeInv adds the files and the     *)
(* predictor.  Where one would argue by induction over the rows, a least   *)
(* counterexample is taken instead.                                        *)
(***************************************************************************)
EXTENDS ModelServing, SelectionProofs

-----------------------------------------------------------------------------
(* Tables: what the steps of preparation keep.                             *)

CsvRow  == [at : Int, t : BOOLEAN, x : BOOLEAN]
Plain   == [at : Int, t : SUBSET Int, x : SUBSET Int]
Wide(H) == [at : Int, t : SUBSET Int, x : SUBSET Int, y : [H -> SUBSET Int]]

Ordered(tab, csv) ==
  \A i, j \in DOMAIN tab : i < j =>
    tab[i].at <= tab[j].at /\ (Once(csv) => tab[i].at < tab[j].at)

\* Each row of new is one of tab, in the order of tab.
Taken(new, tab) ==
  /\ \A i \in DOMAIN new : \E k \in DOMAIN tab : new[i] = tab[k]
  /\ \A i, j \in DOMAIN new : i < j =>
       \E k, l \in DOMAIN tab : k < l /\ new[i] = tab[k] /\ new[j] = tab[l]

\* What the proofs need of the constants.
LEMMA Sizes ==
  /\ Keep \in Nat /\ Minute \in Nat /\ Minute > 0 /\ Lag \in Nat /\ Subsample \in Nat
  /\ TestPct \in 1..99 /\ ValPct \in 1..99 /\ TestPct + ValPct < 100
  BY TrainConstants DEF TrainConstants

\* A sequence is a function on 1..Len.
LEMMA SeqFacts ==
  ASSUME NEW S, NEW s \in Seq(S)
  PROVE  Len(s) \in Nat /\ DOMAIN s = 1..Len(s) /\ \A i \in 1..Len(s) : s[i] \in S
  BY LenProperties, ElementOfSeq

\* dropna and boolean indexing take rows in order; so does tail_rows.
LEMMA RowsTaken ==
  ASSUME NEW S, NEW s \in Seq(S), NEW K \in SUBSET DOMAIN s
  PROVE  Rows(s, K) \in Seq(S) /\ Taken(Rows(s, K), s)
  <1>1. Rows(s, K) \in Seq(S)
    BY RowsKept
  <1>2. \A i \in DOMAIN Rows(s, K) : \E k \in DOMAIN s : Rows(s, K)[i] = s[k]
    BY RowsKept
  <1>3. \A i, j \in DOMAIN Rows(s, K) : i < j =>
          \E k, l \in DOMAIN s : k < l /\ Rows(s, K)[i] = s[k] /\ Rows(s, K)[j] = s[l]
    BY RowsOrder
  <1> QED
    BY <1>1, <1>2, <1>3 DEF Taken

\* Rows taken from an ordered table are ordered.
LEMMA TakenOrdered ==
  ASSUME NEW new, NEW tab, NEW csv, Taken(new, tab), Ordered(tab, csv)
  PROVE  Ordered(new, csv)
  <1> SUFFICES ASSUME NEW i \in DOMAIN new, NEW j \in DOMAIN new, i < j
               PROVE  new[i].at <= new[j].at /\ (Once(csv) => new[i].at < new[j].at)
    BY DEF Ordered
  <1>1. PICK k \in DOMAIN tab, l \in DOMAIN tab : k < l /\ new[i] = tab[k] /\ new[j] = tab[l]
    BY DEF Taken
  <1>2. tab[k].at <= tab[l].at /\ (Once(csv) => tab[k].at < tab[l].at)
    BY <1>1 DEF Ordered
  <1> QED
    BY <1>1, <1>2

LEMMA TailTaken ==
  ASSUME NEW S, NEW s \in Seq(S)
  PROVE  /\ tail_rows(s) \in Seq(S) /\ Taken(tail_rows(s), s)
         /\ \A i \in DOMAIN tail_rows(s) : i + 1 \in DOMAIN tail_rows(s) =>
              \E k \in DOMAIN s : k + 1 \in DOMAIN s /\ tail_rows(s)[i] = s[k] /\ tail_rows(s)[i + 1] = s[k + 1]
  <1>1. PICK n \in Nat : n = Len(s) /\ DOMAIN s = 1..n
    BY SeqFacts
  <1>2. CASE Subsample > 0 /\ n > Subsample
    <2>0. n - Subsample \in Int
      BY Sizes
    <2>1. PICK m \in Int : m = n - Subsample
      BY <2>0
    <2>2. m \in 1..n /\ m + 1 = n - Subsample + 1
      BY <1>1, <1>2, <2>1, Sizes
    <2>3. PICK t : t = SubSeq(s, m + 1, Len(s))
      OBVIOUS
    <2>4. t \in Seq(S) /\ Len(t) = n - m /\ \A i \in 1..(n - m) : t[i] = s[m + i]
      BY <1>1, <2>2, <2>3, Slices DEF Halves
    <2>5. tail_rows(s) = t
      BY <1>1, <1>2, <2>2, <2>3 DEF tail_rows
    <2>6. DOMAIN t = 1..(n - m)
      BY <2>4, SeqFacts
    <2>7. \A i \in 1..(n - m) : m + i \in 1..n /\ t[i] = s[m + i]
      BY <2>2, <2>4
    <2>8. Taken(t, s)
      <3>1. ASSUME NEW i \in DOMAIN t PROVE \E k \in DOMAIN s : t[i] = s[k]
        BY <1>1, <2>6, <2>7
      <3>2. ASSUME NEW i \in DOMAIN t, NEW j \in DOMAIN t, i < j
            PROVE  \E k, l \in DOMAIN s : k < l /\ t[i] = s[k] /\ t[j] = s[l]
        <4>1. m + i \in DOMAIN s /\ m + j \in DOMAIN s /\ m + i < m + j /\ t[i] = s[m + i] /\ t[j] = s[m + j]
          BY <1>1, <2>2, <2>6, <2>7, <3>2
        <4> QED
          BY <4>1
      <3> QED
        BY <3>1, <3>2 DEF Taken
    <2>9. ASSUME NEW i \in DOMAIN t, i + 1 \in DOMAIN t
          PROVE  \E k \in DOMAIN s : k + 1 \in DOMAIN s /\ t[i] = s[k] /\ t[i + 1] = s[k + 1]
      <3>1. m + i \in DOMAIN s /\ (m + i) + 1 \in DOMAIN s /\ t[i] = s[m + i] /\ t[i + 1] = s[(m + i) + 1]
        <4>1. m + (i + 1) = (m + i) + 1
          BY <2>2, <2>6
        <4> QED
          BY <1>1, <2>6, <2>7, <2>9, <4>1
      <3> QED
        BY <3>1
    <2> QED
      BY <2>4, <2>5, <2>8, <2>9
  <1>3. CASE ~(Subsample > 0 /\ n > Subsample)
    <2>1. tail_rows(s) = s
      BY <1>1, <1>3 DEF tail_rows
    <2>2. Taken(s, s)
      BY DEF Taken
    <2> QED
      BY <2>1, <2>2
  <1> QED
    BY <1>2, <1>3

\* Integers that increase do so by one at least from place to place; those that
\* leave none out, by one at most.
LEMMA Steps ==
  ASSUME NEW n \in Nat, NEW f \in [1..n -> Int], \A i, j \in 1..n : i < j => f[i] < f[j],
         NEW i \in 1..n, NEW k \in Nat, i + k <= n
  PROVE  f[i + k] >= f[i] + k
  <1> DEFINE B == {m \in Nat : i + m <= n /\ ~(f[i + m] >= f[i] + m)}
  <1> SUFFICES ASSUME B # {} PROVE FALSE
    OBVIOUS
  <1>1. PICK m \in B : \A l \in B : m <= l
    <2>1. B \in SUBSET Nat
      OBVIOUS
    <2> QED
      BY <2>1, Least
  <1>2. m \in Nat /\ i + m \in 1..n /\ f[i + m] \in Int /\ f[i] \in Int /\ f[i + m] < f[i] + m
    BY <1>1
  <1>3. m # 0
    BY <1>2
  <1>4. PICK p \in Nat : m = p + 1
    BY <1>2, <1>3
  <1>5. i + p \in 1..n /\ i + p < i + m /\ f[i + p] \in Int
    BY <1>2, <1>4
  <1>8. p \notin B
    BY <1>1, <1>4
  <1>6. f[i + p] >= f[i] + p
    BY <1>2, <1>4, <1>5, <1>8
  <1>7. f[i + p] < f[i + m]
    BY <1>2, <1>5
  <1> QED
    BY <1>2, <1>4, <1>5, <1>6, <1>7

\* The other side of Steps.
LEMMA Strides ==
  ASSUME NEW n \in Nat, NEW f \in [1..n -> Int], \A i \in 1..n : i + 1 \in 1..n => f[i + 1] <= f[i] + 1,
         NEW i \in 1..n, NEW k \in Nat, i + k <= n
  PROVE  f[i + k] <= f[i] + k
  <1> DEFINE B == {m \in Nat : i + m <= n /\ ~(f[i + m] <= f[i] + m)}
  <1> SUFFICES ASSUME B # {} PROVE FALSE
    OBVIOUS
  <1>1. PICK m \in B : \A l \in B : m <= l
    <2>1. B \in SUBSET Nat
      OBVIOUS
    <2> QED
      BY <2>1, Least
  <1>2. m \in Nat /\ i + m \in 1..n /\ f[i + m] \in Int /\ f[i] \in Int /\ f[i + m] > f[i] + m
    BY <1>1
  <1>3. m # 0
    BY <1>2
  <1>4. PICK p \in Nat : m = p + 1
    BY <1>2, <1>3
  <1>5. i + p \in 1..n /\ (i + p) + 1 = i + m /\ f[i + p] \in Int
    BY <1>2, <1>4
  <1>8. p \notin B
    BY <1>1, <1>4
  <1>6. f[i + p] <= f[i] + p
    BY <1>2, <1>4, <1>5, <1>8
  <1>7. f[i + m] <= f[i + p] + 1
    BY <1>2, <1>5
  <1>9. PICK a \in Int, b \in Int, c \in Int : a = f[i] /\ b = f[i + p] /\ c = f[i + m]
    BY <1>2, <1>5
  <1>10. a + m < c /\ b <= a + p /\ c <= b + 1
    BY <1>2, <1>6, <1>7, <1>9
  <1> QED
    BY <1>2, <1>4, <1>10

-----------------------------------------------------------------------------
(* From the CSV to a plain table (_common.py 46-94, 405-416, features.py   *)
(* 69-133).                                                                *)

\* A plain table in order of time, that holds a target only where the CSV had
\* one unless it was imputed, and no gap if the CSV had none.
Exact(csv) == Regular(csv) /\ Whole(csv)

\* A row has the time of a row of the CSV.
Dated(r, csv) == \E k \in DOMAIN csv : r.at = csv[k].at

Tidy(tab, csv) ==
  /\ tab \in Seq(Plain) /\ Ordered(tab, csv)
  /\ \A i \in DOMAIN tab : Dated(tab[i], csv)
  /\ ~Imputed(csv) => \A i \in DOMAIN tab : tab[i].t \subseteq {tab[i].at}
  /\ Exact(csv) => \A i \in DOMAIN tab :
       /\ tab[i].t = {tab[i].at}
       /\ i + 1 \in DOMAIN tab => tab[i + 1].at <= tab[i].at + 1

\* load_dataset sorts by time, and loses no row by it.
LEMMA TimeOrder ==
  ASSUME NEW csv \in Seq(CsvRow)
  PROVE  /\ InTimeOrder(csv) \in Seq(CsvRow) /\ Ordered(InTimeOrder(csv), csv)
         /\ \A i \in DOMAIN InTimeOrder(csv) : \E k \in DOMAIN csv : InTimeOrder(csv)[i] = csv[k]
         /\ \A k \in DOMAIN csv : \E i \in DOMAIN InTimeOrder(csv) : InTimeOrder(csv)[i] = csv[k]
  <1>1. PICK n \in Nat : n = Len(csv) /\ DOMAIN csv = 1..n /\ \A i \in 1..n : csv[i] \in CsvRow
    BY SeqFacts
  <1>2. PICK key : key = [i \in 1..n |-> csv[i].at]
    OBVIOUS
  <1>3. \A i \in 1..n : key[i] = csv[i].at /\ key[i] \in Int
    BY <1>1, <1>2 DEF CsvRow
  <1>4. Held(key) = key
    BY <1>2, HeldSame
  <1>o. PICK order : order = Arranged(1..n, key)
    OBVIOUS
  <1>5. /\ SortedBy(csv, key) = [i \in 1..n |-> csv[order[i]]] /\ order \in Surjection(1..n, 1..n)
        /\ \A i, j \in 1..n : (order[i] = order[j] => i = j) /\ (i < j => Before(key, order[i], order[j]))
    BY <1>1, <1>3, <1>4, <1>o, Sorted
  <1>t. order \in [1..n -> 1..n] /\ \A k \in 1..n : \E i \in 1..n : order[i] = k
    BY <1>5 DEF Surjection
  <1>6. PICK s : s = [i \in 1..n |-> csv[order[i]]]
    OBVIOUS
  <1>7. s = InTimeOrder(csv)
    BY <1>1, <1>2, <1>5, <1>6 DEF InTimeOrder
  <1>8. s \in Seq(CsvRow) /\ DOMAIN s = 1..n /\ \A i \in 1..n : order[i] \in 1..n /\ s[i] = csv[order[i]]
    <2>1. \A i \in 1..n : order[i] \in 1..n /\ s[i] = csv[order[i]]
      BY <1>6, <1>t
    <2>2. s \in [1..n -> CsvRow]
      BY <1>1, <1>6, <2>1
    <2> QED
      BY <2>1, <2>2
  <1>9. Ordered(s, csv)
    <2> SUFFICES ASSUME NEW i \in 1..n, NEW j \in 1..n, i < j
                 PROVE  s[i].at <= s[j].at /\ (Once(csv) => s[i].at < s[j].at)
      BY <1>8 DEF Ordered
    <2>1. PICK k \in 1..n, l \in 1..n : k = order[i] /\ l = order[j] /\ s[i] = csv[k] /\ s[j] = csv[l]
      BY <1>8
    <2>2. k # l
      BY <1>5, <2>1
    <2>7. Before(key, k, l)
      BY <1>5, <2>1
    <2>3. key[k] <= key[l]
      BY <1>3, <2>7 DEF Before
    <2>4. csv[k].at <= csv[l].at /\ csv[k].at \in Int /\ csv[l].at \in Int
      BY <1>3, <2>3
    <2>5. Once(csv) => csv[k].at # csv[l].at
      BY <1>1, <2>2 DEF Once
    <2>6. Once(csv) => csv[k].at < csv[l].at
      BY <2>4, <2>5
    <2> QED
      BY <2>1, <2>4, <2>6
  <1>10. \A i \in 1..n : \E k \in 1..n : s[i] = csv[k]
    BY <1>8
  <1>11. \A k \in 1..n : \E i \in 1..n : s[i] = csv[k]
    <2> SUFFICES ASSUME NEW k \in 1..n PROVE \E i \in 1..n : s[i] = csv[k]
      OBVIOUS
    <2>1. PICK i \in 1..n : order[i] = k
      BY <1>t
    <2> QED
      BY <1>8, <2>1
  <1>12. /\ s \in Seq(CsvRow) /\ Ordered(s, csv)
         /\ \A i \in DOMAIN s : \E k \in DOMAIN csv : s[i] = csv[k]
         /\ \A k \in DOMAIN csv : \E i \in DOMAIN s : s[i] = csv[k]
    BY <1>1, <1>8, <1>9, <1>10, <1>11
  <1> QED
    BY <1>7, <1>12, Zenon

\* No time between two neighbours was left out, if the CSV left none out.
LEMMA NoGap ==
  ASSUME NEW n \in Nat, NEW f \in [1..n -> Int], \A j, k \in 1..n : j < k => f[j] <= f[k],
         NEW T \in SUBSET Int, \A a \in T : \E j \in 1..n : f[j] = a,
         \A j \in 1..n : f[j] \in T, \A a \in T : a + 1 \in T \/ \A b \in T : b <= a,
         NEW i \in 1..n, i + 1 \in 1..n
  PROVE  f[i + 1] <= f[i] + 1
  <1> SUFFICES ASSUME f[i] + 1 < f[i + 1] PROVE FALSE
    OBVIOUS
  <1>1. f[i] \in T /\ f[i + 1] \in T /\ f[i] < f[i + 1]
    OBVIOUS
  <1>2. f[i] + 1 \in T
    BY <1>1
  <1>3. PICK j \in 1..n : f[j] = f[i] + 1
    BY <1>2
  <1>4. j = i \/ j < i \/ j = i + 1 \/ i + 1 < j
    OBVIOUS
  <1>5. f[j] <= f[i] \/ f[i + 1] <= f[j]
    BY <1>4
  <1> QED
    BY <1>1, <1>3, <1>5

\* In a file with a regular clock neighbours are one step apart at most.
LEMMA Neighbours ==
  ASSUME NEW csv \in Seq(CsvRow), NEW s \in Seq(CsvRow), Ordered(s, csv), Regular(csv),
         \A i \in DOMAIN s : \E k \in DOMAIN csv : s[i] = csv[k],
         \A k \in DOMAIN csv : \E i \in DOMAIN s : s[i] = csv[k]
  PROVE  \A i \in DOMAIN s : i + 1 \in DOMAIN s => s[i + 1].at <= s[i].at + 1
  <1>1. PICK n \in Nat : DOMAIN s = 1..n /\ \A i \in 1..n : s[i] \in CsvRow
    BY SeqFacts
  <1>2. \A k \in DOMAIN csv : csv[k] \in CsvRow
    BY SeqFacts
  <1>3. PICK f : f = [i \in 1..n |-> s[i].at]
    OBVIOUS
  <1>4. PICK T : T = {csv[k].at : k \in DOMAIN csv}
    OBVIOUS
  <1>5. f \in [1..n -> Int] /\ \A i \in 1..n : f[i] = s[i].at
    BY <1>1, <1>3 DEF CsvRow
  <1>6. T \in SUBSET Int
    BY <1>2, <1>4 DEF CsvRow
  <1>7. ASSUME NEW j \in 1..n, NEW k \in 1..n, j < k PROVE f[j] <= f[k]
    <2>1. s[j].at <= s[k].at
      BY <1>1, <1>7 DEF Ordered
    <2> QED
      BY <1>5, <2>1
  <1>8. \A a \in T : \E j \in 1..n : f[j] = a
    BY <1>1, <1>4, <1>5
  <1>9. ASSUME NEW j \in 1..n PROVE f[j] \in T
    <2>1. PICK k \in DOMAIN csv : s[j] = csv[k]
      BY <1>1
    <2>2. f[j] = csv[k].at
      BY <1>5, <2>1
    <2> QED
      BY <1>4, <2>2
  <1>10. \A a \in T : a + 1 \in T \/ \A b \in T : b <= a
    BY <1>4 DEF Regular
  <1>11. \A i \in 1..n : i + 1 \in 1..n => f[i + 1] <= f[i] + 1
    BY <1>5, <1>6, <1>7, <1>8, <1>9, <1>10, NoGap
  <1> QED
    BY <1>1, <1>5, <1>11

\* load_dataset, whether it drops the rows without a target or imputes it.
LEMMA LoadTidy ==
  ASSUME NEW csv \in Seq(CsvRow)
  PROVE  Tidy(load_dataset(csv), csv)
  <1>1. PICK s : s = InTimeOrder(csv)
    OBVIOUS
  <1>2. /\ s \in Seq(CsvRow) /\ Ordered(s, csv)
        /\ \A i \in DOMAIN s : \E k \in DOMAIN csv : s[i] = csv[k]
        /\ \A k \in DOMAIN csv : \E i \in DOMAIN s : s[i] = csv[k]
    BY <1>1, TimeOrder, Zenon
  <1>3. PICK n \in Nat : DOMAIN s = 1..n /\ \A i \in 1..n : s[i] \in CsvRow
    BY <1>2, SeqFacts
  <1>4. PICK raw : raw = [i \in DOMAIN s |-> [at |-> s[i].at, t |-> Cell(s[i].at, s[i].t),
                                              x |-> Cell(s[i].at, s[i].x)]]
    OBVIOUS
  <1>5. /\ DOMAIN raw = 1..n
        /\ \A i \in 1..n : raw[i] \in Plain /\ raw[i].at = s[i].at /\ raw[i].t \subseteq {raw[i].at}
                           /\ (s[i].t => raw[i].t = {raw[i].at})
    BY <1>3, <1>4 DEF CsvRow, Plain, Cell
  <1>6. raw \in Seq(Plain)
    BY <1>3, <1>4, <1>5
  <1>7. Ordered(raw, csv)
    BY <1>2, <1>3, <1>5 DEF Ordered
  <1>8. Exact(csv) => \A i \in 1..n : raw[i].t = {raw[i].at} /\ (i + 1 \in 1..n => raw[i + 1].at <= raw[i].at + 1)
    <2> SUFFICES ASSUME Regular(csv), Whole(csv), NEW i \in 1..n
                 PROVE  raw[i].t = {raw[i].at} /\ (i + 1 \in 1..n => raw[i + 1].at <= raw[i].at + 1)
      BY DEF Exact
    <2>1. s[i].t
      BY <1>2, <1>3 DEF Whole
    <2>2. i + 1 \in 1..n => s[i + 1].at <= s[i].at + 1
      BY <1>2, <1>3, Neighbours
    <2> QED
      BY <1>5, <2>1, <2>2
  <1>d. ASSUME NEW i \in 1..n PROVE Dated(raw[i], csv)
    <2>1. PICK k \in DOMAIN csv : s[i] = csv[k]
      BY <1>2, <1>3
    <2> QED
      BY <1>5, <2>1 DEF Dated
  <1>9. PICK known : known = UNION {raw[i].t : i \in DOMAIN raw}
    OBVIOUS
  <1>10. known \in SUBSET Int
    BY <1>5, <1>9 DEF Plain
  <1>11. PICK C : C = {i \in DOMAIN csv : csv[i].t}
    OBVIOUS
  <1>12. Cardinality(C) \in Nat /\ Keep \in Nat
    <2>1. PICK m \in Nat : DOMAIN csv = 1..m
      BY SeqFacts
    <2>2. IsFiniteSet(1..m) /\ C \in SUBSET (1..m)
      BY <1>11, <2>1, FS_Interval
    <2> QED
      BY <2>2, FS_Subset, FS_CardinalityType, Sizes
  <1>13. CASE Cardinality(C) >= Keep
    <2>1. PICK K : K = {i \in DOMAIN raw : raw[i].t # {}}
      OBVIOUS
    <2>2. PICK tab : tab = Rows(raw, K)
      OBVIOUS
    <2>3. load_dataset(csv) = tab
      BY <1>1, <1>4, <1>11, <1>13, <2>1, <2>2 DEF load_dataset
    <2>4. K \in SUBSET DOMAIN raw
      BY <2>1
    <2>5. tab \in Seq(Plain) /\ Taken(tab, raw)
      BY <1>6, <2>2, <2>4, RowsTaken
    <2>6. Ordered(tab, csv)
      BY <1>7, <2>5, TakenOrdered
    <2>7. \A i \in DOMAIN tab : tab[i].t \subseteq {tab[i].at}
      BY <1>5, <2>5 DEF Taken
    <2>8. Exact(csv) => tab = raw
      <3> SUFFICES ASSUME Exact(csv) PROVE tab = raw
        OBVIOUS
      <3>1. K = DOMAIN raw
        BY <1>5, <1>8, <2>1
      <3> QED
        BY <1>6, <2>2, <3>1, RowsAll
    <2>9. Exact(csv) => \A i \in DOMAIN tab :
            tab[i].t = {tab[i].at} /\ (i + 1 \in DOMAIN tab => tab[i + 1].at <= tab[i].at + 1)
      BY <1>5, <1>8, <2>8
    <2>10. \A i \in DOMAIN tab : Dated(tab[i], csv)
      BY <1>5, <1>d, <2>5 DEF Taken
    <2> QED
      BY <2>3, <2>5, <2>6, <2>7, <2>9, <2>10 DEF Tidy
  <1>14. CASE ~(Cardinality(C) >= Keep)
    <2>1. PICK tab : tab = [i \in DOMAIN raw |-> [raw[i] EXCEPT !.t = IF @ = {} THEN known ELSE @]]
      OBVIOUS
    <2>2. load_dataset(csv) = tab
      BY <1>1, <1>4, <1>9, <1>11, <1>14, <2>1 DEF load_dataset
    <2>3. DOMAIN tab = 1..n /\ \A i \in 1..n : tab[i] \in Plain /\ tab[i].at = raw[i].at
                                             /\ tab[i].t = IF raw[i].t = {} THEN known ELSE raw[i].t
      BY <1>5, <1>10, <2>1 DEF Plain
    <2>4. tab \in Seq(Plain)
      <3>1. tab = [i \in 1..n |-> tab[i]]
        BY <1>5, <2>1, <2>3
      <3>2. tab \in [1..n -> Plain]
        BY <2>3, <3>1
      <3> QED
        BY <3>2
    <2>5. Ordered(tab, csv)
      BY <1>5, <1>7, <2>3 DEF Ordered
    <2>6. ~Imputed(csv) => \A i \in DOMAIN tab : tab[i].t \subseteq {tab[i].at}
      <3> SUFFICES ASSUME ~Imputed(csv), NEW i \in 1..n PROVE tab[i].t \subseteq {tab[i].at}
        BY <2>3
      <3>1. C = DOMAIN csv
        BY <1>11, <1>12, <1>14 DEF Imputed
      <3>2. s[i].t
        BY <1>2, <1>3, <1>11, <3>1
      <3>3. raw[i].t = {raw[i].at}
        BY <1>5, <3>2
      <3> QED
        BY <2>3, <3>3
    <2>7. Exact(csv) => \A i \in DOMAIN tab :
            tab[i].t = {tab[i].at} /\ (i + 1 \in DOMAIN tab => tab[i + 1].at <= tab[i].at + 1)
      <3> SUFFICES ASSUME Exact(csv), NEW i \in 1..n
                   PROVE  tab[i].t = {tab[i].at} /\ (i + 1 \in 1..n => tab[i + 1].at <= tab[i].at + 1)
        BY <2>3
      <3>1. raw[i].t = {raw[i].at} /\ (i + 1 \in 1..n => raw[i + 1].at <= raw[i].at + 1)
        BY <1>8
      <3> QED
        BY <2>3, <3>1
    <2>8. \A i \in DOMAIN tab : Dated(tab[i], csv)
      BY <1>d, <2>3 DEF Dated
    <2> QED
      BY <2>2, <2>4, <2>5, <2>6, <2>7, <2>8 DEF Tidy
  <1> QED
    BY <1>13, <1>14

\* A step that leaves times and targets as they are.
LEMMA SameTidy ==
  ASSUME NEW csv, NEW tab, NEW new \in Seq(Plain), Tidy(tab, csv), DOMAIN new = DOMAIN tab,
         \A i \in DOMAIN tab : new[i].at = tab[i].at /\ new[i].t = tab[i].t
  PROVE  Tidy(new, csv)
  <1>1. Ordered(new, csv)
    BY DEF Tidy, Ordered
  <1>2. \A i \in DOMAIN new : Dated(new[i], csv)
    BY DEF Tidy, Dated
  <1> QED
    BY <1>1, <1>2 DEF Tidy

LEMMA TailTidy ==
  ASSUME NEW csv, NEW tab, Tidy(tab, csv)
  PROVE  Tidy(tail_rows(tab), csv)
  <1>1. tab \in Seq(Plain)
    BY DEF Tidy
  <1>2. PICK new : new = tail_rows(tab)
    OBVIOUS
  <1>3. /\ new \in Seq(Plain) /\ Taken(new, tab)
        /\ \A i \in DOMAIN new : i + 1 \in DOMAIN new =>
             \E k \in DOMAIN tab : k + 1 \in DOMAIN tab /\ new[i] = tab[k] /\ new[i + 1] = tab[k + 1]
    BY <1>1, <1>2, TailTaken
  <1>4. Ordered(new, csv)
    BY <1>3, TakenOrdered DEF Tidy
  <1>5. ~Imputed(csv) => \A i \in DOMAIN new : new[i].t \subseteq {new[i].at}
    BY <1>3 DEF Tidy, Taken
  <1>6. Exact(csv) => \A i \in DOMAIN new :
          new[i].t = {new[i].at} /\ (i + 1 \in DOMAIN new => new[i + 1].at <= new[i].at + 1)
    BY <1>3 DEF Tidy, Taken
  <1>7. \A i \in DOMAIN new : Dated(new[i], csv)
    BY <1>3 DEF Tidy, Taken
  <1> QED
    BY <1>2, <1>3, <1>4, <1>5, <1>6, <1>7 DEF Tidy

\* A set of integers that is bounded has a least and a greatest member.
LEMMA Lowest ==
  ASSUME NEW S \in SUBSET Int, S # {}, NEW a \in Int, \A k \in S : a <= k
  PROVE  \E m \in S : \A k \in S : m <= k
  <1>1. PICK D : D = {k - a : k \in S}
    OBVIOUS
  <1>2. D \in SUBSET Nat /\ D # {}
    <2>1. \A k \in S : k \in Int
      OBVIOUS
    <2>2. \A k \in S : k - a \in Nat
      BY <2>1
    <2>3. D # {}
      BY <1>1
    <2> QED
      BY <1>1, <2>2, <2>3
  <1>3. PICK d \in D : \A e \in D : d <= e
    BY <1>2, Least
  <1>4. PICK m \in S : d = m - a
    BY <1>1
  <1>5. \A k \in S : d <= k - a
    BY <1>1, <1>3
  <1> QED
    BY <1>4, <1>5

LEMMA Highest ==
  ASSUME NEW S \in SUBSET Int, S # {}, NEW b \in Int, \A k \in S : k <= b
  PROVE  \E m \in S : \A k \in S : k <= m
  <1>1. PICK D : D = {b - k : k \in S}
    OBVIOUS
  <1>2. D \in SUBSET Nat /\ D # {}
    <2>1. \A k \in S : k \in Int
      OBVIOUS
    <2>2. \A k \in S : b - k \in Nat
      BY <2>1
    <2>3. D # {}
      BY <1>1
    <2> QED
      BY <1>1, <2>2, <2>3
  <1>3. PICK d \in D : \A e \in D : d <= e
    BY <1>2, Least
  <1>4. PICK m \in S : d = b - m
    BY <1>1
  <1>5. \A k \in S : d <= b - k
    BY <1>1, <1>3
  <1> QED
    BY <1>4, <1>5

\* The rows that Source chooses.
LEMMA LastBelow ==
  ASSUME NEW n \in Nat, NEW there \in SUBSET (1..n), NEW i \in Int, \E j \in there : j < i
  PROVE  /\ (CHOOSE j \in there : j < i /\ \A k \in there : k < i => k <= j) \in there
         /\ (CHOOSE j \in there : j < i /\ \A k \in there : k < i => k <= j) < i
  <1>1. PICK S : S = {j \in there : j < i}
    OBVIOUS
  <1>s. \A k \in there : k \in 1..n
    OBVIOUS
  <1>p. \A k \in S : k \in there
    BY <1>1
  <1>2. S \in SUBSET Int /\ \A k \in S : k <= n
    <2> SUFFICES ASSUME NEW k \in S PROVE k \in Int /\ k <= n
      OBVIOUS
    <2>1. k \in 1..n
      BY <1>s, <1>p
    <2> QED
      BY <2>1
  <1>e. S # {}
    <2>1. PICK j \in there : j < i
      OBVIOUS
    <2>2. j \in S
      BY <1>1, <2>1
    <2> QED
      BY <2>2
  <1>i. n \in Int
    OBVIOUS
  <1>3. PICK m \in S : \A k \in S : k <= m
    BY <1>2, <1>e, <1>i, Highest, Zenon
  <1>4. m \in there /\ m < i /\ \A k \in there : k < i => k <= m
    BY <1>1, <1>3
  <1> QED
    BY <1>4

LEMMA First ==
  ASSUME NEW n \in Nat, NEW there \in SUBSET (1..n), there # {}
  PROVE  (CHOOSE j \in there : \A k \in there : j <= k) \in there
  <1>1. there \in SUBSET Int /\ \A k \in there : 1 <= k
    OBVIOUS
  <1>2. PICK m \in there : \A k \in there : m <= k
    BY <1>1, Lowest
  <1> QED
    BY <1>2

LEMMA SourceRow ==
  ASSUME NEW n \in Nat, NEW tab, DOMAIN tab = 1..n, NEW i \in 1..n
  PROVE  Source(tab, i) \in 1..n
  <1>2. PICK there : there = {j \in DOMAIN tab : tab[j].x # {}}
    OBVIOUS
  <1>3. there \in SUBSET (1..n)
    BY <1>2
  <1>4. CASE i \in there \/ there = {}
    BY <1>2, <1>4 DEF Source
  <1>5. CASE ~(i \in there \/ there = {}) /\ \E j \in there : j < i
    <2>1. Source(tab, i) = CHOOSE j \in there : j < i /\ \A k \in there : k < i => k <= j
      BY <1>2, <1>5 DEF Source
    <2>i. i \in Int
      OBVIOUS
    <2>2. (CHOOSE j \in there : j < i /\ \A k \in there : k < i => k <= j) \in there
      BY <1>3, <1>5, <2>i, LastBelow, Zenon
    <2> QED
      BY <1>3, <2>1, <2>2
  <1>6. CASE ~(i \in there \/ there = {}) /\ ~(\E j \in there : j < i)
    <2>1. Source(tab, i) = CHOOSE j \in there : \A k \in there : j <= k
      BY <1>2, <1>6 DEF Source
    <2>2. (CHOOSE j \in there : \A k \in there : j <= k) \in there
      BY <1>3, <1>6, First
    <2> QED
      BY <1>3, <2>1, <2>2
  <1> QED
    BY <1>4, <1>5, <1>6

\* ffill_numeric and build_features change the features only.
LEMMA FilledTidy ==
  ASSUME NEW csv, NEW tab, Tidy(tab, csv)
  PROVE  Tidy(ffill_numeric(tab), csv)
  <1>1. tab \in Seq(Plain)
    BY DEF Tidy
  <1>2. PICK n \in Nat : DOMAIN tab = 1..n /\ \A i \in 1..n : tab[i] \in Plain
    BY <1>1, SeqFacts
  <1>3. \A i \in 1..n : Source(tab, i) \in 1..n
    BY <1>2, SourceRow
  <1>4. PICK new : new = ffill_numeric(tab)
    OBVIOUS
  <1>5. new = [i \in 1..n |-> [tab[i] EXCEPT !.x = tab[Source(tab, i)].x]]
    BY <1>2, <1>4 DEF ffill_numeric
  <1>6. ASSUME NEW i \in 1..n
        PROVE  new[i] \in Plain /\ new[i].at = tab[i].at /\ new[i].t = tab[i].t
    <2>1. tab[i] \in Plain /\ tab[Source(tab, i)] \in Plain
      BY <1>2, <1>3
    <2>2. tab[Source(tab, i)].x \in SUBSET Int
      BY <2>1 DEF Plain
    <2> QED
      BY <1>5, <2>1, <2>2 DEF Plain
  <1>7. new \in Seq(Plain) /\ DOMAIN new = 1..n
    <2>1. new \in [1..n -> Plain]
      BY <1>5, <1>6
    <2> QED
      BY <2>1
  <1> QED
    BY <1>2, <1>4, <1>6, <1>7, SameTidy

LEMMA FeaturesTidy ==
  ASSUME NEW csv, NEW tab, Tidy(tab, csv)
  PROVE  Tidy(build_features(tab), csv)
  <1>1. tab \in Seq(Plain)
    BY DEF Tidy
  <1>2. PICK n \in Nat : DOMAIN tab = 1..n /\ \A i \in 1..n : tab[i] \in Plain
    BY <1>1, SeqFacts
  <1>3. PICK new : new = build_features(tab)
    OBVIOUS
  <1>4. PICK past : past = [i \in 1..n |-> (i - Lag)..i]
    OBVIOUS
  <1>5. PICK cells : cells = [i \in 1..n |->
            IF i > Lag /\ \A j \in past[i] : tab[j].x # {} /\ tab[j].t # {}
              THEN UNION {tab[j].x \cup tab[j].t : j \in past[i]} ELSE {}]
    OBVIOUS
  <1>6. new = [i \in 1..n |-> [tab[i] EXCEPT !.x = cells[i]]]
    BY <1>2, <1>3, <1>4, <1>5 DEF build_features
  <1>7. ASSUME NEW i \in 1..n PROVE cells[i] \in SUBSET Int
    <2>1. CASE i > Lag
      <3>1. past[i] \in SUBSET (1..n)
        BY <1>4, <2>1, Sizes
      <3>2. \A j \in past[i] : tab[j].x \cup tab[j].t \in SUBSET Int
        BY <1>2, <3>1 DEF Plain
      <3> QED
        BY <1>5, <3>2
    <2>2. CASE ~(i > Lag)
      BY <1>5, <2>2
    <2> QED
      BY <2>1, <2>2
  <1>8. ASSUME NEW i \in 1..n
        PROVE  new[i] \in Plain /\ new[i].at = tab[i].at /\ new[i].t = tab[i].t
    BY <1>2, <1>6, <1>7 DEF Plain
  <1>9. new \in Seq(Plain) /\ DOMAIN new = 1..n
    <2>1. new \in [1..n -> Plain]
      BY <1>6, <1>8
    <2> QED
      BY <2>1
  <1> QED
    BY <1>2, <1>3, <1>8, <1>9, SameTidy

\* Inputs that know no later reading: as they are loaded, ...
PastOnly(tab) == \A i \in DOMAIN tab : \A u \in tab[i].x : u <= tab[i].at
Clear(csv)    == ~Imputed(csv) /\ Sensed(csv)

LEMMA LoadPast ==
  ASSUME NEW csv \in Seq(CsvRow)
  PROVE  PastOnly(load_dataset(csv))
  <1>1. PICK s : s = InTimeOrder(csv)
    OBVIOUS
  <1>2. s \in Seq(CsvRow)
    BY <1>1, TimeOrder
  <1>3. PICK n \in Nat : DOMAIN s = 1..n /\ \A i \in 1..n : s[i] \in CsvRow
    BY <1>2, SeqFacts
  <1>4. PICK raw : raw = [i \in DOMAIN s |-> [at |-> s[i].at, t |-> Cell(s[i].at, s[i].t),
                                              x |-> Cell(s[i].at, s[i].x)]]
    OBVIOUS
  <1>5. DOMAIN raw = 1..n /\ \A i \in 1..n : raw[i] \in Plain /\ raw[i].x \subseteq {raw[i].at}
    BY <1>3, <1>4 DEF CsvRow, Plain, Cell
  <1>6. raw \in Seq(Plain)
    BY <1>3, <1>4, <1>5
  <1>7. PastOnly(raw)
    BY <1>5 DEF PastOnly, Plain
  <1>8. PICK known : known = UNION {raw[i].t : i \in DOMAIN raw}
    OBVIOUS
  <1>9. PICK K : K = {i \in DOMAIN raw : raw[i].t # {}}
    OBVIOUS
  <1>10. PICK kept, full : /\ kept = Rows(raw, K)
                           /\ full = [i \in DOMAIN raw |-> [raw[i] EXCEPT !.t = IF @ = {} THEN known ELSE @]]
    OBVIOUS
  <1>11. load_dataset(csv) \in {kept, full}
    BY <1>1, <1>4, <1>8, <1>9, <1>10 DEF load_dataset
  <1>12. PastOnly(kept)
    <2>1. Taken(kept, raw)
      BY <1>6, <1>9, <1>10, RowsTaken
    <2>2. ASSUME NEW i \in DOMAIN kept PROVE \A u \in kept[i].x : u <= kept[i].at
      <3>1. PICK k \in DOMAIN raw : kept[i] = raw[k]
        BY <2>1 DEF Taken
      <3>2. \A u \in raw[k].x : u <= raw[k].at
        BY <1>7 DEF PastOnly
      <3> QED
        BY <3>1, <3>2
    <2> QED
      BY <2>2 DEF PastOnly
  <1>13. PastOnly(full)
    <2>1. ASSUME NEW i \in 1..n PROVE full[i].at = raw[i].at /\ full[i].x = raw[i].x
      BY <1>5, <1>10 DEF Plain
    <2>2. DOMAIN full = 1..n
      BY <1>5, <1>10
    <2> QED
      BY <1>5, <1>7, <2>1, <2>2 DEF PastOnly
  <1> QED
    BY <1>11, <1>12, <1>13

\* ... after ffill, if bfill has nothing to do, ...
LEMMA FilledPast ==
  ASSUME NEW csv, Sensed(csv), Tidy(load_dataset(csv), csv), PastOnly(load_dataset(csv))
  PROVE  PastOnly(ffill_numeric(load_dataset(csv)))
  <1>1. PICK tab : tab = load_dataset(csv)
    OBVIOUS
  <1>2. PICK n \in Nat : DOMAIN tab = 1..n /\ \A i \in 1..n : tab[i] \in Plain
    BY <1>1, SeqFacts DEF Tidy
  <1>3. tab # <<>> => tab[1].x # {}
    BY <1>1 DEF Sensed
  <1>4. PICK there : there = {j \in DOMAIN tab : tab[j].x # {}}
    OBVIOUS
  <1>5. ASSUME NEW i \in 1..n PROVE Source(tab, i) \in 1..i
    <2>0. i \in Int /\ there \in SUBSET Int /\ there \in SUBSET (1..n)
      BY <1>2, <1>4
    <2>1. tab # <<>>
      BY <1>2
    <2>2. 1 \in there
      BY <1>2, <1>3, <1>4, <2>1
    <2>3. CASE i \in there
      BY <1>4, <2>3 DEF Source
    <2>4. CASE i \notin there
      <3>1. 1 < i
        BY <2>2, <2>4
      <3>2. \E j \in there : j < i
        BY <2>2, <3>1
      <3>3. Source(tab, i) = CHOOSE j \in there : j < i /\ \A k \in there : k < i => k <= j
        BY <1>4, <2>4, <3>2 DEF Source
      <3>4. PICK j : j = CHOOSE q \in there : q < i /\ \A k \in there : k < i => k <= q
        OBVIOUS
      <3>5. j \in there /\ j < i
        BY <2>0, <3>2, <3>4, LastBelow, Zenon
      <3> QED
        <4>1. j \in 1..n /\ j < i
          BY <2>0, <3>5
        <4>2. j \in 1..i
          BY <2>0, <4>1
        <4> QED
          BY <3>3, <3>4, <4>2
    <2> QED
      BY <2>3, <2>4
  <1>6. PICK new : new = ffill_numeric(tab)
    OBVIOUS
  <1>7. new = [i \in 1..n |-> [tab[i] EXCEPT !.x = tab[Source(tab, i)].x]]
    BY <1>2, <1>6 DEF ffill_numeric
  <1>8. ASSUME NEW i \in 1..n, NEW u \in new[i].x PROVE u <= new[i].at
    <2>1. PICK j \in 1..i : j = Source(tab, i)
      BY <1>5
    <2>2. new[i].at = tab[i].at /\ new[i].x = tab[j].x
      BY <1>2, <1>7, <2>1 DEF Plain
    <2>3. j \in 1..n
      OBVIOUS
    <2>4. tab[i].at \in Int /\ tab[j].at \in Int /\ tab[j].x \in SUBSET Int
      BY <1>2, <2>3 DEF Plain
    <2>5. tab[j].at <= tab[i].at
      <3>1. CASE j = i
        BY <2>4, <3>1
      <3>2. CASE j < i
        BY <1>1, <1>2, <2>3, <3>2 DEF Tidy, Ordered
      <3> QED
        BY <3>1, <3>2
    <2>6. u <= tab[j].at
      BY <1>1, <1>2, <2>2, <2>3 DEF PastOnly
    <2> QED
      BY <2>2, <2>4, <2>5, <2>6
  <1>9. DOMAIN new = 1..n
    BY <1>7
  <1> QED
    BY <1>1, <1>6, <1>8, <1>9 DEF PastOnly

\* ... and in the lags, windows and gradients of earlier rows.
LEMMA FeaturesPast ==
  ASSUME NEW csv, NEW tab, Tidy(tab, csv), ~Imputed(csv), PastOnly(tab)
  PROVE  PastOnly(build_features(tab))
  <1>1. PICK n \in Nat : DOMAIN tab = 1..n /\ \A i \in 1..n : tab[i] \in Plain
    BY SeqFacts DEF Tidy
  <1>2. PICK new : new = build_features(tab)
    OBVIOUS
  <1>3. PICK past : past = [i \in 1..n |-> (i - Lag)..i]
    OBVIOUS
  <1>4. PICK cells : cells = [i \in 1..n |->
            IF i > Lag /\ \A j \in past[i] : tab[j].x # {} /\ tab[j].t # {}
              THEN UNION {tab[j].x \cup tab[j].t : j \in past[i]} ELSE {}]
    OBVIOUS
  <1>5. new = [i \in 1..n |-> [tab[i] EXCEPT !.x = cells[i]]]
    BY <1>1, <1>2, <1>3, <1>4 DEF build_features
  <1>6. ASSUME NEW i \in 1..n, NEW u \in new[i].x PROVE u <= new[i].at
    <2>1. new[i].at = tab[i].at /\ u \in cells[i]
      BY <1>1, <1>5 DEF Plain
    <2>2. i > Lag /\ \E j \in past[i] : u \in tab[j].x \cup tab[j].t
      BY <1>4, <2>1
    <2>3. PICK j \in past[i] : u \in tab[j].x \cup tab[j].t
      BY <2>2
    <2>4. j \in 1..n /\ j <= i
      BY <1>3, <2>2, <2>3, Sizes
    <2>5. tab[i].at \in Int /\ tab[j].at \in Int /\ tab[j].x \in SUBSET Int
      BY <1>1, <2>4 DEF Plain
    <2>6. tab[j].at <= tab[i].at
      <3>1. CASE j = i
        BY <2>5, <3>1
      <3>2. CASE j < i
        BY <1>1, <2>4, <3>2 DEF Tidy, Ordered
      <3> QED
        BY <2>4, <3>1, <3>2
    <2>7. u \in Int /\ u <= tab[j].at
      <3>1. CASE u \in tab[j].x
        BY <1>1, <2>4, <2>5, <3>1 DEF PastOnly
      <3>2. CASE u \in tab[j].t
        BY <1>1, <2>4, <2>5, <3>2 DEF Tidy
      <3> QED
        BY <2>3, <3>1, <3>2
    <2> QED
      BY <2>1, <2>5, <2>6, <2>7
  <1>7. DOMAIN new = 1..n
    BY <1>5
  <1> QED
    BY <1>2, <1>6, <1>7 DEF PastOnly

-----------------------------------------------------------------------------
(* Labelled rows (_common.py 128-148, train_lstm.py 137-146).              *)

Labelled(tab, H, csv) ==
  /\ tab \in Seq(Wide(H)) /\ Ordered(tab, csv)
  /\ \A i \in DOMAIN tab : Dated(tab[i], csv)
  /\ \A i \in DOMAIN tab, h \in H : tab[i].y[h] # {}
  /\ Once(csv) => \A i \in DOMAIN tab, h \in H :
       /\ Exact(csv) => tab[i].y[h] \subseteq {tab[i].at + h * Minute}
       /\ ~Imputed(csv) => \A u \in tab[i].y[h] : u >= tab[i].at + h * Minute

\* The target k rows further on.
LEMMA Ahead ==
  ASSUME NEW csv, NEW tab, Tidy(tab, csv), Once(csv), NEW n \in Nat, DOMAIN tab = 1..n,
         NEW r \in 1..n, NEW k \in Nat, r + k \in 1..n
  PROVE  /\ Exact(csv) => tab[r + k].t \subseteq {tab[r].at + k}
         /\ ~Imputed(csv) => \A u \in tab[r + k].t : u >= tab[r].at + k
  <1>1. \A i \in 1..n : tab[i] \in Plain
    BY SeqFacts DEF Tidy
  <1>2. PICK f : f = [i \in 1..n |-> tab[i].at]
    OBVIOUS
  <1>3. f \in [1..n -> Int] /\ \A i \in 1..n : f[i] = tab[i].at
    BY <1>1, <1>2 DEF Plain
  <1>4. ASSUME NEW i \in 1..n, NEW j \in 1..n, i < j PROVE f[i] < f[j]
    <2>1. tab[i].at < tab[j].at
      BY <1>4 DEF Tidy, Ordered
    <2> QED
      BY <1>3, <2>1
  <1>5. r + k <= n
    OBVIOUS
  <1>6. f[r + k] >= f[r] + k
    BY <1>3, <1>4, <1>5, Steps
  <1>7. Exact(csv) => f[r + k] <= f[r] + k
    <2> SUFFICES ASSUME Exact(csv) PROVE f[r + k] <= f[r] + k
      OBVIOUS
    <2>1. \A i \in 1..n : i + 1 \in 1..n => f[i + 1] <= f[i] + 1
      BY <1>3 DEF Tidy
    <2> QED
      BY <1>3, <1>5, <2>1, Strides
  <1>8. PICK q \in 1..n : q = r + k
    OBVIOUS
  <1>9. /\ ~Imputed(csv) => tab[q].t \subseteq {tab[q].at}
        /\ Exact(csv) => tab[q].t = {tab[q].at}
    BY DEF Tidy
  <1>10. f[q] \in Int /\ f[r] \in Int /\ tab[q].at = f[q] /\ tab[r].at = f[r]
    BY <1>3
  <1>11. Exact(csv) => f[q] = f[r] + k
    BY <1>6, <1>7, <1>8, <1>10
  <1> QED
    BY <1>6, <1>8, <1>9, <1>10, <1>11

\* build_target_lags: the label is the target h * Minute rows further on, and
\* the input is that of the row.
LEMMA LagsLabelled ==
  ASSUME NEW csv, NEW tab, Tidy(tab, csv), NEW H \in SUBSET (Nat \ {0})
  PROVE  /\ Labelled(build_target_lags(tab, H), H, csv)
         /\ PastOnly(tab) => PastOnly(build_target_lags(tab, H))
  <1>1. tab \in Seq(Plain)
    BY DEF Tidy
  <1>2. PICK n \in Nat : DOMAIN tab = 1..n /\ \A i \in 1..n : tab[i] \in Plain
    BY <1>1, SeqFacts
  <1>3. PICK shift : shift = [h \in H |-> ShiftRows(h)]
    OBVIOUS
  <1>4. \A h \in H : shift[h] \in Nat /\ shift[h] = h * Minute
    BY <1>3, Sizes DEF ShiftRows
  <1>5. PICK wide : wide = [i \in 1..n |->
          [at |-> tab[i].at, t |-> tab[i].t, x |-> tab[i].x,
           y |-> [h \in H |-> IF i + shift[h] \in 1..n THEN tab[i + shift[h]].t ELSE {}]]]
    OBVIOUS
  <1>6. PICK K : K = {i \in 1..n : \A h \in H : wide[i].y[h] # {}}
    OBVIOUS
  <1>7. PICK new : new = Rows(wide, K)
    OBVIOUS
  <1>8. build_target_lags(tab, H) = new
    BY <1>2, <1>3, <1>5, <1>6, <1>7 DEF build_target_lags
  <1>9. ASSUME NEW i \in 1..n
        PROVE  /\ wide[i] \in Wide(H) /\ wide[i].at = tab[i].at /\ wide[i].x = tab[i].x
               /\ \A h \in H : wide[i].y[h] = IF i + shift[h] \in 1..n THEN tab[i + shift[h]].t ELSE {}
    <2>1. PICK y : y = [h \in H |-> IF i + shift[h] \in 1..n THEN tab[i + shift[h]].t ELSE {}]
      OBVIOUS
    <2>2. y \in [H -> SUBSET Int]
      <3>1. ASSUME NEW h \in H PROVE y[h] \in SUBSET Int
        BY <1>2, <2>1 DEF Plain
      <3> QED
        BY <2>1, <3>1
    <2>3. wide[i] = [at |-> tab[i].at, t |-> tab[i].t, x |-> tab[i].x, y |-> y]
      BY <1>5, <2>1
    <2>4. tab[i].at \in Int /\ tab[i].t \in SUBSET Int /\ tab[i].x \in SUBSET Int
      BY <1>2 DEF Plain
    <2>5. wide[i] \in Wide(H)
      BY <2>2, <2>3, <2>4 DEF Wide
    <2> QED
      BY <2>1, <2>3, <2>5
  <1>10. wide \in Seq(Wide(H)) /\ DOMAIN wide = 1..n
    <2>1. wide \in [1..n -> Wide(H)]
      BY <1>5, <1>9
    <2> QED
      BY <2>1
  <1>11. K \in SUBSET DOMAIN wide
    BY <1>6, <1>10
  <1>12. new \in Seq(Wide(H)) /\ Taken(new, wide)
    BY <1>7, <1>10, <1>11, RowsTaken
  <1>13. \A i \in DOMAIN new : \E k \in K : new[i] = wide[k]
    BY <1>7, <1>10, <1>11, RowsKept
  <1>14. Ordered(wide, csv)
    BY <1>2, <1>9, <1>10 DEF Tidy, Ordered
  <1>15. Ordered(new, csv)
    BY <1>12, <1>14, TakenOrdered
  <1>16. ASSUME NEW i \in DOMAIN new, NEW h \in H
         PROVE  /\ new[i].y[h] # {}
                /\ Once(csv) =>
                     /\ Exact(csv) => new[i].y[h] \subseteq {new[i].at + h * Minute}
                     /\ ~Imputed(csv) => \A u \in new[i].y[h] : u >= new[i].at + h * Minute
    <2>1. PICK r \in K : new[i] = wide[r]
      BY <1>13
    <2>2. r \in 1..n /\ wide[r].y[h] # {}
      BY <1>6
    <2>3. PICK k \in Nat : k = shift[h] /\ k = h * Minute
      BY <1>4
    <2>4. r + k \in 1..n /\ new[i].y[h] = tab[r + k].t /\ new[i].at = tab[r].at
      BY <1>9, <2>1, <2>2, <2>3
    <2>5. Once(csv) =>
            /\ Exact(csv) => tab[r + k].t \subseteq {tab[r].at + k}
            /\ ~Imputed(csv) => \A u \in tab[r + k].t : u >= tab[r].at + k
      BY <1>2, <2>2, <2>4, Ahead
    <2> QED
      BY <2>1, <2>2, <2>3, <2>4, <2>5
  <1>17. \A i \in DOMAIN new : \E k \in DOMAIN tab : new[i].at = tab[k].at /\ new[i].x = tab[k].x
    BY <1>2, <1>6, <1>9, <1>13
  <1>18. \A i \in DOMAIN new : Dated(new[i], csv)
    BY <1>17 DEF Tidy, Dated
  <1>19. PastOnly(tab) => PastOnly(new)
    BY <1>17 DEF PastOnly
  <1> QED
    BY <1>8, <1>12, <1>15, <1>16, <1>18, <1>19 DEF Labelled

LEMMA LabelledTaken ==
  ASSUME NEW csv, NEW H, NEW tab, Labelled(tab, H, csv), NEW new \in Seq(Wide(H)), Taken(new, tab)
  PROVE  Labelled(new, H, csv)
  <1>1. Ordered(new, csv)
    BY TakenOrdered DEF Labelled
  <1>2. \A i \in DOMAIN new : \E k \in DOMAIN tab : new[i] = tab[k]
    BY DEF Taken
  <1>3. ASSUME NEW i \in DOMAIN new, NEW h \in H
        PROVE  /\ new[i].y[h] # {}
               /\ Once(csv) =>
                    /\ Exact(csv) => new[i].y[h] \subseteq {new[i].at + h * Minute}
                    /\ ~Imputed(csv) => \A u \in new[i].y[h] : u >= new[i].at + h * Minute
    <2>1. PICK k \in DOMAIN tab : new[i] = tab[k]
      BY <1>2
    <2> QED
      BY <2>1 DEF Labelled
  <1>4. \A i \in DOMAIN new : Dated(new[i], csv)
    BY <1>2 DEF Labelled
  <1> QED
    BY <1>1, <1>3, <1>4 DEF Labelled

\* After dropna every row has its features.
LEMMA DropLabelled ==
  ASSUME NEW csv, NEW H, NEW tab, Labelled(tab, H, csv)
  PROVE  /\ Labelled(dropna(tab), H, csv) /\ \A i \in DOMAIN dropna(tab) : dropna(tab)[i].x # {}
         /\ PastOnly(tab) => PastOnly(dropna(tab))
  <1>1. tab \in Seq(Wide(H))
    BY DEF Labelled
  <1>2. PICK K : K = {i \in DOMAIN tab : tab[i].x # {}}
    OBVIOUS
  <1>3. PICK new : new = Rows(tab, K) /\ new = dropna(tab)
    BY <1>2 DEF dropna
  <1>4. K \in SUBSET DOMAIN tab
    BY <1>2
  <1>5. new \in Seq(Wide(H)) /\ Taken(new, tab)
    BY <1>1, <1>3, <1>4, RowsTaken
  <1>6. \A i \in DOMAIN Rows(tab, K) : \E k \in K : Rows(tab, K)[i] = tab[k]
    BY <1>1, <1>4, RowsKept, Zenon
  <1>7. ASSUME NEW i \in DOMAIN new PROVE new[i].x # {}
    <2>1. PICK k \in K : new[i] = tab[k]
      BY <1>3, <1>6
    <2>2. tab[k].x # {}
      BY <1>2
    <2> QED
      BY <2>1, <2>2
  <1>8. Labelled(new, H, csv)
    BY <1>5, LabelledTaken
  <1>9. PastOnly(tab) => PastOnly(new)
    BY <1>5 DEF Taken, PastOnly
  <1> QED
    BY <1>3, <1>7, <1>8, <1>9

LEMMA TailLabelled ==
  ASSUME NEW csv, NEW H, NEW tab, Labelled(tab, H, csv)
  PROVE  /\ Labelled(tail_rows(tab), H, csv)
         /\ \A i \in DOMAIN tail_rows(tab) : \E k \in DOMAIN tab : tail_rows(tab)[i] = tab[k]
         /\ PastOnly(tab) => PastOnly(tail_rows(tab))
  <1>1. tab \in Seq(Wide(H))
    BY DEF Labelled
  <1>2. PICK new : new = tail_rows(tab)
    OBVIOUS
  <1>3. new \in Seq(Wide(H)) /\ Taken(new, tab)
    BY <1>1, <1>2, TailTaken
  <1>4. PastOnly(tab) => PastOnly(new)
    BY <1>3 DEF Taken, PastOnly
  <1> QED
    BY <1>2, <1>3, <1>4, LabelledTaken DEF Taken

-----------------------------------------------------------------------------
(* The minute series of N-BEATS (train_nbeats.py 49-60), part by part.     *)

MinuteOf(r)        == (r.at - 1) \div Minute
InMinute(tab, m)   == UNION {tab[i].t : i \in {j \in DOMAIN tab : MinuteOf(tab[j]) = m}}
FullMinutes(tab)   == {m \in MinuteOf(tab[1])..MinuteOf(tab[Len(tab)]) : InMinute(tab, m) # {}}
LastFull(tab, m)   == CHOOSE k \in FullMinutes(tab) : k <= m /\ \A q \in FullMinutes(tab) : q <= m => q <= k
SeriesRow(tab, H, m) ==
  [at |-> m, t |-> InMinute(tab, LastFull(tab, m)), x |-> InMinute(tab, LastFull(tab, m)),
   y |-> [h \in H |-> IF m + h <= MinuteOf(tab[Len(tab)]) THEN InMinute(tab, LastFull(tab, m + h)) ELSE {}]]

LEMMA SeriesRows ==
  ASSUME NEW tab, NEW H
  PROVE  _build_minute_series(tab, H) =
           [i \in 1..(MinuteOf(tab[Len(tab)]) - MinuteOf(tab[1]) + 1) |->
              SeriesRow(tab, H, MinuteOf(tab[1]) + i - 1)]
  BY DEF _build_minute_series, SeriesRow, LastFull, FullMinutes, InMinute, MinuteOf

\* The next instant lies in the same minute or in the next one.
LEMMA Division ==
  ASSUME NEW a \in Int
  PROVE  a \div Minute \in Int /\ (a + 1) \div Minute <= (a \div Minute) + 1
  <1>1. PICK d \in Nat : d = Minute /\ d > 0
    BY Sizes
  <1>2. PICK q \in Int, r \in Int : q = a \div d /\ r = a % d /\ a = d * q + r /\ 0 <= r /\ r < d
    BY <1>1
  <1>3. PICK q2 \in Int, r2 \in Int : q2 = (a + 1) \div d /\ r2 = (a + 1) % d /\ a + 1 = d * q2 + r2 /\ 0 <= r2
    BY <1>1
  <1>4. q2 <= q + 1
    <2> SUFFICES ASSUME q2 > q + 1 PROVE FALSE
      OBVIOUS
    <2>1. PICK p \in Nat : q2 = (q + 2) + p
      OBVIOUS
    <2>2. d * q2 = (d * q + 2 * d) + d * p
      BY <2>1
    <2>3. d * p >= 0 /\ d * p \in Int /\ d * q \in Int
      OBVIOUS
    <2>4. PICK s \in Int, u \in Int : s = d * q /\ u = d * p /\ u >= 0
      BY <2>3
    <2> QED
      BY <1>1, <1>2, <1>3, <2>2, <2>4
  <1> QED
    BY <1>1, <1>2, <1>3, <1>4

LEMMA NextMinute ==
  ASSUME NEW a \in Int, NEW b \in Int, a <= b, b <= a + 1
  PROVE  (b - 1) \div Minute <= ((a - 1) \div Minute) + 1
  <1>1. PICK c \in Int : c = a - 1
    OBVIOUS
  <1>2. b - 1 = c \/ b - 1 = c + 1
    BY <1>1
  <1>3. c \div Minute \in Int /\ (c + 1) \div Minute <= (c \div Minute) + 1
    BY Division
  <1> QED
    BY <1>1, <1>2, <1>3

\* Numbers that rise by one at most pass every number in between.
Unhurried(g, n) == \A i \in 1..n : i + 1 \in 1..n => g[i + 1] <= g[i] + 1

LEMMA Passed ==
  ASSUME NEW n \in Nat \ {0}, NEW g \in [1..n -> Int], Unhurried(g, n),
         NEW m \in Int, g[1] <= m, m <= g[n]
  PROVE  \E i \in 1..n : g[i] = m
  <1>1. PICK S : S = {i \in 1..n : m <= g[i]}
    OBVIOUS
  <1>2. S \in SUBSET Nat
    BY <1>1
  <1>3. n \in S
    BY <1>1
  <1>4. PICK i \in S : \A k \in S : i <= k
    BY <1>2, <1>3, Least
  <1>5. i \in 1..n /\ m <= g[i]
    BY <1>1
  <1>6. CASE i = 1
    BY <1>5, <1>6
  <1>7. CASE i # 1
    <2>1. PICK j \in 1..n : i = j + 1
      BY <1>5, <1>7
    <2>2. j \notin S
      BY <1>4, <2>1
    <2>3. g[j] < m
      BY <1>1, <2>2
    <2>4. g[i] <= g[j] + 1
      BY <1>5, <2>1 DEF Unhurried
    <2> QED
      BY <1>5, <2>3, <2>4
  <1> QED
    BY <1>6, <1>7

\* A missing minute repeats the last one that is there; a minute that is there does not.
LEMMA Repeated ==
  ASSUME NEW F \in SUBSET Int, NEW first \in F, NEW m \in Int, first <= m,
         NEW c, c = CHOOSE k \in F : k <= m /\ \A q \in F : q <= m => q <= k
  PROVE  c \in F /\ (m \in F => c = m)
  <1>1. PICK S : S = {k \in F : k <= m}
    OBVIOUS
  <1>2. S \in SUBSET Int
    BY <1>1
  <1>3. first \in S
    BY <1>1
  <1>4. \A k \in S : k <= m
    BY <1>1
  <1>5. S # {}
    BY <1>3
  <1>6. PICK b \in S : \A k \in S : k <= b
    BY <1>2, <1>4, <1>5, Highest, Zenon
  <1>7. b \in F /\ b <= m /\ \A q \in F : q <= m => q <= b
    BY <1>1, <1>6
  <1>9. c \in F /\ c <= m /\ \A q \in F : q <= m => q <= c
    BY <1>7
  <1>10. m \in F => c = m
    BY <1>9
  <1> QED
    BY <1>9, <1>10

Series(tab, H, csv) ==
  /\ tab \in Seq(Wide(H))
  /\ \A i, j \in DOMAIN tab : i < j => tab[i].at < tab[j].at
  /\ \A i \in DOMAIN tab : tab[i].x # {}
  /\ Exact(csv) => \A i \in DOMAIN tab, h \in H :
       {(u - 1) \div Minute : u \in tab[i].y[h]} \subseteq {tab[i].at + h}

\* _build_minute_series from rows that all have a target.
LEMMA SeriesSound ==
  ASSUME NEW csv, NEW tab, Tidy(tab, csv), tab # <<>>, \A i \in DOMAIN tab : tab[i].t # {},
         NEW H \in SUBSET (Nat \ {0})
  PROVE  Series(_build_minute_series(tab, H), H, csv)
  <1>1. tab \in Seq(Plain)
    BY DEF Tidy
  <1>2. PICK n \in Nat \ {0} : n = Len(tab) /\ DOMAIN tab = 1..n /\ \A i \in 1..n : tab[i] \in Plain
    <2>1. PICK n \in Nat : n = Len(tab) /\ DOMAIN tab = 1..n /\ \A i \in 1..n : tab[i] \in Plain
      BY <1>1, SeqFacts
    <2>2. n # 0
      BY <1>1, <2>1, EmptySeq
    <2> QED
      BY <2>1, <2>2
  <1>3. PICK g : g = [i \in 1..n |-> MinuteOf(tab[i])]
    OBVIOUS
  <1>4. ASSUME NEW i \in 1..n PROVE tab[i].at \in Int /\ tab[i].t \in SUBSET Int /\ MinuteOf(tab[i]) \in Int
    <2>1. tab[i].at \in Int /\ tab[i].t \in SUBSET Int
      BY <1>2 DEF Plain
    <2>2. PICK a \in Int : a = tab[i].at - 1
      BY <2>1
    <2>3. a \div Minute \in Int
      BY Division
    <2> QED
      BY <2>1, <2>2, <2>3 DEF MinuteOf
  <1>5. g \in [1..n -> Int] /\ \A i \in 1..n : g[i] = MinuteOf(tab[i])
    BY <1>3, <1>4
  <1>6. PICK first \in Int, last \in Int : first = g[1] /\ last = g[n]
    BY <1>5
  <1>7. first = MinuteOf(tab[1]) /\ last = MinuteOf(tab[Len(tab)])
    BY <1>2, <1>5, <1>6
  <1>8. PICK new : new = _build_minute_series(tab, H)
    OBVIOUS
  <1>9. new = [i \in 1..(last - first + 1) |-> SeriesRow(tab, H, first + i - 1)]
    BY <1>7, <1>8, SeriesRows
  <1>10. \A m : InMinute(tab, m) \in SUBSET Int
    BY <1>2, <1>4 DEF InMinute
  <1>11. FullMinutes(tab) = {m \in first..last : InMinute(tab, m) # {}}
    BY <1>7 DEF FullMinutes
  <1>12. first <= last => first \in FullMinutes(tab)
    <2>1. InMinute(tab, first) # {}
      <3>1. tab[1].t # {} /\ tab[1].t \subseteq InMinute(tab, first)
        BY <1>2, <1>7 DEF InMinute
      <3> QED
        BY <3>1
    <2> QED
      BY <1>11, <2>1
  <1>13. ASSUME NEW m \in first..last
         PROVE  LastFull(tab, m) \in FullMinutes(tab) /\ (m \in FullMinutes(tab) => LastFull(tab, m) = m)
    <2>1. PICK F : F = FullMinutes(tab)
      OBVIOUS
    <2>4. F \in SUBSET Int
      BY <1>11, <2>1
    <2>5. first <= last
      OBVIOUS
    <2>2. first \in F /\ m \in Int /\ first <= m
      BY <1>12, <2>1, <2>5
    <2>6. PICK c : c = LastFull(tab, m)
      OBVIOUS
    <2>3. c = CHOOSE k \in F : k <= m /\ \A q \in F : q <= m => q <= k
      BY <2>1, <2>6 DEF LastFull
    <2>7. c \in F /\ (m \in F => c = m)
      BY <2>2, <2>3, <2>4, Repeated, Zenon
    <2> QED
      BY <2>1, <2>6, <2>7
  <1>14. Exact(csv) => \A m \in first..last : m \in FullMinutes(tab) /\ \A u \in InMinute(tab, m) : (u - 1) \div Minute = m
    <2> SUFFICES ASSUME Exact(csv), NEW m \in first..last
                 PROVE  m \in FullMinutes(tab) /\ \A u \in InMinute(tab, m) : (u - 1) \div Minute = m
      OBVIOUS
    <2>1. \A i \in 1..n : tab[i].t = {tab[i].at} /\ (i + 1 \in 1..n => tab[i + 1].at <= tab[i].at + 1)
      BY <1>2 DEF Tidy
    <2>2. ASSUME NEW i \in 1..n, i + 1 \in 1..n PROVE g[i + 1] <= g[i] + 1
      <3>1. PICK j \in 1..n : j = i + 1
        BY <2>2
      <3>2. PICK a \in Int : a = tab[i].at
        BY <1>4
      <3>3. PICK b \in Int : b = tab[j].at
        BY <1>4
      <3>4. b <= a + 1
        BY <2>1, <2>2, <3>1, <3>2, <3>3
      <3>5. i < j
        BY <3>1
      <3>6. a <= b
        BY <1>2, <3>2, <3>3, <3>5 DEF Tidy, Ordered
      <3>7. g[i] = (a - 1) \div Minute /\ g[j] = (b - 1) \div Minute
        BY <1>5, <3>2, <3>3 DEF MinuteOf
      <3>8. (b - 1) \div Minute <= ((a - 1) \div Minute) + 1
        BY <3>4, <3>6, NextMinute
      <3> QED
        BY <3>1, <3>7, <3>8
    <2>i. m \in Int /\ g[1] <= m /\ m <= g[n]
      BY <1>6
    <2>j. n \in Nat \ {0} /\ g \in [1..n -> Int]
      BY <1>2, <1>5
    <2>k. Unhurried(g, n)
      BY <2>2 DEF Unhurried
    <2>3. PICK i \in 1..n : g[i] = m
      BY <2>i, <2>j, <2>k, Passed
    <2>4. tab[i].t \subseteq InMinute(tab, m) /\ tab[i].t # {}
      BY <1>2, <1>5, <2>3 DEF InMinute
    <2>5. m \in FullMinutes(tab)
      BY <1>11, <2>4
    <2>6. ASSUME NEW u \in InMinute(tab, m) PROVE (u - 1) \div Minute = m
      <3>1. PICK j \in 1..n : MinuteOf(tab[j]) = m /\ u \in tab[j].t
        BY <1>2, <2>6 DEF InMinute
      <3>2. u = tab[j].at
        BY <2>1, <3>1
      <3> QED
        BY <3>1, <3>2 DEF MinuteOf
    <2> QED
      BY <2>5, <2>6
  <1>15. ASSUME NEW m \in first..last
         PROVE  /\ SeriesRow(tab, H, m) \in Wide(H) /\ SeriesRow(tab, H, m).at = m
                /\ SeriesRow(tab, H, m).x # {}
                /\ Exact(csv) => \A h \in H :
                     {(u - 1) \div Minute : u \in SeriesRow(tab, H, m).y[h]} \subseteq {m + h}
    <2>1. PICK y : y = [h \in H |-> IF m + h <= last THEN InMinute(tab, LastFull(tab, m + h)) ELSE {}]
      OBVIOUS
    <2>2. PICK x \in SUBSET Int : x = InMinute(tab, LastFull(tab, m))
      BY <1>10
    <2>3. SeriesRow(tab, H, m) = [at |-> m, t |-> x, x |-> x, y |-> y]
      BY <1>7, <2>1, <2>2 DEF SeriesRow
    <2>4. y \in [H -> SUBSET Int]
      BY <1>10, <2>1
    <2>5. x # {}
      BY <1>11, <1>13, <2>2
    <2>6. ASSUME Exact(csv), NEW h \in H PROVE {(u - 1) \div Minute : u \in y[h]} \subseteq {m + h}
      <3>1. CASE m + h <= last
        <4>h. h \in Nat
          OBVIOUS
        <4>i. m + h \in first..last
          BY <3>1, <4>h
        <4>1. PICK k \in first..last : k = m + h
          BY <4>i
        <4>2. y[h] = InMinute(tab, LastFull(tab, k))
          BY <2>1, <3>1, <4>1
        <4>3. LastFull(tab, k) = k
          BY <1>13, <1>14, <2>6
        <4>4. \A u \in InMinute(tab, k) : (u - 1) \div Minute = k
          BY <1>14, <2>6
        <4> QED
          BY <4>1, <4>2, <4>3, <4>4
      <3>2. CASE ~(m + h <= last)
        BY <2>1, <3>2
      <3> QED
        BY <3>1, <3>2
    <2>7. SeriesRow(tab, H, m) \in Wide(H)
      BY <2>2, <2>3, <2>4 DEF Wide
    <2> QED
      BY <2>3, <2>5, <2>6, <2>7
  <1>16. PICK l \in Int : l = last - first + 1
    OBVIOUS
  <1>17. ASSUME NEW i \in 1..l PROVE first + i - 1 \in first..last
    BY <1>16
  <1>18. DOMAIN new = 1..l /\ \A i \in 1..l : new[i] = SeriesRow(tab, H, first + i - 1)
    BY <1>9, <1>16
  <1>19. new \in Seq(Wide(H))
    <2>1. new \in [1..l -> Wide(H)]
      <3>1. new = [i \in 1..l |-> SeriesRow(tab, H, first + i - 1)]
        BY <1>9, <1>16
      <3>2. \A i \in 1..l : SeriesRow(tab, H, first + i - 1) \in Wide(H)
        BY <1>15, <1>17
      <3> QED
        BY <3>1, <3>2
    <2>2. CASE l \in Nat
      BY <2>1, <2>2
    <2>3. CASE l \notin Nat
      <3>1. 1..l = 1..0
        BY <2>3
      <3>2. new \in [1..0 -> Wide(H)]
        BY <2>1, <3>1
      <3> QED
        BY <3>2
    <2> QED
      BY <2>2, <2>3
  <1>20. \A i \in 1..l : new[i].at = first + i - 1 /\ new[i].x # {}
    <2> SUFFICES ASSUME NEW i \in 1..l PROVE new[i].at = first + i - 1 /\ new[i].x # {}
      OBVIOUS
    <2>1. PICK m \in first..last : m = first + i - 1
      BY <1>17
    <2>2. new[i] = SeriesRow(tab, H, m)
      BY <1>18, <2>1
    <2> QED
      BY <1>15, <2>1, <2>2
  <1>21. Exact(csv) => \A i \in 1..l, h \in H : {(u - 1) \div Minute : u \in new[i].y[h]} \subseteq {new[i].at + h}
    <2> SUFFICES ASSUME Exact(csv), NEW i \in 1..l, NEW h \in H
                 PROVE  {(u - 1) \div Minute : u \in new[i].y[h]} \subseteq {new[i].at + h}
      OBVIOUS
    <2>1. PICK m \in first..last : m = first + i - 1
      BY <1>17
    <2>2. new[i] = SeriesRow(tab, H, m)
      BY <1>18, <2>1
    <2> QED
      BY <1>15, <2>2
  <1>22. \A i, j \in 1..l : i < j => new[i].at < new[j].at
    BY <1>20
  <1>23. DOMAIN new = 1..l
    BY <1>18
  <1>24. Series(new, H, csv)
    BY <1>19, <1>20, <1>21, <1>22, <1>23 DEF Series
  <1> QED
    BY <1>8, <1>24

-----------------------------------------------------------------------------
(* The split by time (_common.py 99-123).                                  *)

\* Train and validation rows lie before the rows of the test.
Split(parts, n) ==
  /\ parts.train \in SUBSET (1..n) /\ parts.val \in SUBSET (1..n) /\ parts.test \in SUBSET (1..n)
  /\ \A i \in parts.train \cup parts.val, j \in parts.test : i < j

\* The places where the table is cut.
LEMMA CutAt ==
  ASSUME NEW n \in Nat, NEW pct \in 0..100
  PROVE  Cut(n, pct) \in 0..n
  <1>1. PICK k \in 0..100 : k = 100 - pct
    OBVIOUS
  <1>2. n * k \in Nat /\ n * k <= n * 100
    OBVIOUS
  <1>3. PICK p \in Nat : p = n * k /\ p <= n * 100
    BY <1>2
  <1>4. p \div 100 \in 0..n
    BY <1>3
  <1> QED
    BY <1>1, <1>3, <1>4 DEF Cut

LEMMA CutsFollow ==
  ASSUME NEW n \in Nat, NEW a \in 0..100, NEW b \in 0..100, a <= b
  PROVE  Cut(n, b) <= Cut(n, a)
  <1>k. PICK k \in 0..100 : k = 100 - a
    OBVIOUS
  <1>l. PICK l \in 0..100 : l = 100 - b
    OBVIOUS
  <1>1. k = 100 - a /\ l = 100 - b /\ l <= k
    BY <1>k, <1>l
  <1>2. n * k \in Nat /\ n * l \in Nat /\ n * l <= n * k
    BY <1>1
  <1>3. PICK p \in Nat, q \in Nat : p = n * k /\ q = n * l /\ q <= p
    BY <1>2
  <1>4. q \div 100 <= p \div 100
    BY <1>3
  <1> QED
    BY <1>1, <1>3, <1>4 DEF Cut

LEMMA Splits ==
  ASSUME NEW n \in Nat
  PROVE  Split(time_split(n), n) /\ Split(three_way_time_split(n), n)
  <1>1. PICK a \in 0..100, b \in 0..100 : a = TestPct /\ b = TestPct + ValPct /\ a <= b
    BY Sizes
  <1>2. PICK c \in 0..n, d \in 0..n : c = Cut(n, a) /\ d = Cut(n, b) /\ d <= c
    BY <1>1, CutAt, CutsFollow
  <1>3. time_split(n) = [train |-> 1..c, val |-> {}, test |-> (c + 1)..n]
    BY <1>1, <1>2 DEF time_split
  <1>4. three_way_time_split(n) = [train |-> 1..d, val |-> (d + 1)..c, test |-> (c + 1)..n]
    BY <1>1, <1>2 DEF three_way_time_split
  <1> QED
    BY <1>2, <1>3, <1>4 DEF Split

-----------------------------------------------------------------------------
(* What the trainers prepare, and what they look at.                       *)

TableInv ==
  /\ job.csv \in Seq(CsvRow) /\ job.horizons \in HorizonSets \cup {{}}
  /\ IF algo = "nbeats" THEN Series(table, job.horizons, job.csv)
                        ELSE Labelled(table, job.horizons, job.csv)
  /\ algo = "persistence" \/ \A i \in DOMAIN table : table[i].x # {}
  /\ algo # "nbeats" /\ Clear(job.csv) => PastOnly(table)

PartInv ==
  /\ Split(part, Len(table))
  /\ used.scale \cup used.tune \cup used.fit \subseteq part.train \cup part.val
  /\ used.score \subseteq part.test
  /\ pc = "prepare" => used = Nothing
  /\ algo = "prophet" /\ pc \in {"dump", "meta"} => used.fit # {}

LEMMA JobTypes ==
  ASSUME TableInv
  PROVE  job.csv \in Seq(CsvRow) /\ job.horizons \in SUBSET (Nat \ {0})
  BY TrainConstants DEF TableInv, TrainConstants

LEMMA TableRows ==
  ASSUME TableInv
  PROVE  table \in Seq(Wide(job.horizons)) /\ Ordered(table, job.csv)
  <1>1. CASE algo = "nbeats"
    <2>1. Series(table, job.horizons, job.csv)
      BY <1>1 DEF TableInv
    <2>2. PICK n \in Nat : DOMAIN table = 1..n /\ \A i \in 1..n : table[i] \in Wide(job.horizons)
      BY <2>1, SeqFacts DEF Series
    <2>3. \A i \in 1..n : table[i].at \in Int
      BY <2>2 DEF Wide
    <2>4. \A i, j \in 1..n : i < j => table[i].at < table[j].at
      BY <2>1, <2>2 DEF Series
    <2> QED
      BY <2>1, <2>2, <2>3, <2>4 DEF Series, Ordered
  <1>2. CASE algo # "nbeats"
    BY <1>2 DEF TableInv, Labelled
  <1> QED
    BY <1>1, <1>2

\* A table without rows.
LEMMA NoTable ==
  ASSUME NEW H, NEW csv
  PROVE  Series(<<>>, H, csv) /\ Labelled(<<>>, H, csv) /\ PastOnly(<<>>) /\ Split(NoParts, 0)
  <1>1. <<>> \in Seq(Wide(H)) /\ DOMAIN <<>> = {}
    OBVIOUS
  <1>2. Series(<<>>, H, csv)
    BY <1>1 DEF Series
  <1>3. Labelled(<<>>, H, csv)
    BY <1>1 DEF Labelled, Ordered
  <1>4. Split(NoParts, 0)
    BY DEF Split, NoParts
  <1> QED
    BY <1>1, <1>2, <1>3, <1>4 DEF PastOnly

LEMMA LoadedLabelled ==
  ASSUME NEW csv \in Seq(CsvRow), NEW H \in SUBSET (Nat \ {0})
  PROVE  /\ Labelled(build_target_lags(load_dataset(csv), H), H, csv)
         /\ PastOnly(build_target_lags(load_dataset(csv), H))
  BY LoadTidy, LoadPast, LagsLabelled

LEMMA TabularLabelled ==
  ASSUME NEW csv \in Seq(CsvRow), NEW H \in SUBSET (Nat \ {0})
  PROVE  /\ Labelled(Tabular(csv, H), H, csv)
         /\ \A i \in DOMAIN Tabular(csv, H) : Tabular(csv, H)[i].x # {}
         /\ Clear(csv) => PastOnly(Tabular(csv, H))
  <1>f. PICK filled : filled = ffill_numeric(load_dataset(csv))
    OBVIOUS
  <1>1. PICK tab : tab = build_features(filled) /\ tab = build_features(ffill_numeric(load_dataset(csv)))
    BY <1>f
  <1>p. Tidy(filled, csv) /\ (Clear(csv) => PastOnly(filled))
    BY <1>f, LoadTidy, LoadPast, FilledTidy, FilledPast DEF Clear
  <1>2. Tidy(tab, csv) /\ (Clear(csv) => PastOnly(tab))
    BY <1>1, <1>p, FeaturesTidy, FeaturesPast DEF Clear
  <1>3. PICK wide : wide = build_target_lags(tab, H)
    OBVIOUS
  <1>4. Labelled(wide, H, csv) /\ (Clear(csv) => PastOnly(wide))
    BY <1>2, <1>3, LagsLabelled
  <1>5. Tabular(csv, H) = dropna(wide)
    BY <1>1, <1>3 DEF Tabular
  <1> QED
    BY <1>4, <1>5, DropLabelled

\* The table of Prophet has the time as its only feature.
TimeOnly(tab) == [i \in DOMAIN tab |-> [tab[i] EXCEPT !.x = {tab[i].at}]]

LEMMA ProphetLabelled ==
  ASSUME NEW csv, NEW H, NEW tab, Labelled(tab, H, csv)
  PROVE  /\ Labelled(TimeOnly(tab), H, csv) /\ DOMAIN TimeOnly(tab) = DOMAIN tab
         /\ \A i \in DOMAIN TimeOnly(tab) : TimeOnly(tab)[i].x # {}
         /\ PastOnly(TimeOnly(tab))
  <1>1. tab \in Seq(Wide(H))
    BY DEF Labelled
  <1>2. PICK n \in Nat : DOMAIN tab = 1..n /\ \A i \in 1..n : tab[i] \in Wide(H)
    BY <1>1, SeqFacts
  <1>8. PICK new : new = TimeOnly(tab)
    OBVIOUS
  <1>9. new = [i \in 1..n |-> [tab[i] EXCEPT !.x = {tab[i].at}]]
    BY <1>2, <1>8 DEF TimeOnly
  <1>3. ASSUME NEW i \in 1..n
        PROVE  new[i] \in Wide(H) /\ new[i].at = tab[i].at /\ new[i].y = tab[i].y /\ new[i].x = {tab[i].at}
    <2>1. PICK r \in Wide(H) : r = tab[i]
      BY <1>2
    <2>2. new[i] = [r EXCEPT !.x = {r.at}]
      BY <1>9, <2>1
    <2> QED
      BY <2>1, <2>2 DEF Wide
  <1>4. new \in Seq(Wide(H)) /\ DOMAIN new = 1..n
    <2>1. new \in [1..n -> Wide(H)]
      BY <1>9, <1>3
    <2> QED
      BY <2>1
  <1>5. Ordered(new, csv)
    BY <1>2, <1>3, <1>4 DEF Labelled, Ordered
  <1>d. \A i \in DOMAIN new : Dated(new[i], csv)
    BY <1>2, <1>3, <1>4 DEF Labelled, Dated
  <1>6. Labelled(new, H, csv)
    BY <1>2, <1>3, <1>4, <1>5, <1>d DEF Labelled
  <1>7. \A i \in 1..n : new[i].x # {}
    BY <1>3
  <1>9a. PastOnly(new)
    BY <1>2, <1>3, <1>4 DEF PastOnly, Wide
  <1> QED
    BY <1>2, <1>4, <1>6, <1>7, <1>8, <1>9a

LEMMA LstmLabelled ==
  ASSUME NEW csv \in Seq(CsvRow), NEW H \in SUBSET (Nat \ {0}), NEW tab,
         tab = tail_rows(dropna(build_target_lags(ffill_numeric(load_dataset(csv)), H)))
  PROVE  /\ Labelled(tab, H, csv) /\ \A i \in DOMAIN tab : tab[i].x # {}
         /\ Clear(csv) => PastOnly(tab)
  <1>1. PICK filled : filled = ffill_numeric(load_dataset(csv))
    OBVIOUS
  <1>2. Tidy(filled, csv) /\ (Clear(csv) => PastOnly(filled))
    BY <1>1, LoadTidy, LoadPast, FilledTidy, FilledPast DEF Clear
  <1>3. PICK wide : wide = build_target_lags(filled, H)
    OBVIOUS
  <1>4. Labelled(wide, H, csv) /\ (Clear(csv) => PastOnly(wide))
    BY <1>2, <1>3, LagsLabelled
  <1>5. PICK clean : clean = dropna(wide)
    OBVIOUS
  <1>6. Labelled(clean, H, csv) /\ (\A i \in DOMAIN clean : clean[i].x # {}) /\ (Clear(csv) => PastOnly(clean))
    BY <1>4, <1>5, DropLabelled
  <1>7. tab = tail_rows(clean)
    BY <1>1, <1>3, <1>5
  <1> QED
    BY <1>6, <1>7, TailLabelled

\* N-BEATS takes the rows that have a target; all of them, if the CSV is whole.
LEMMA KnownTidy ==
  ASSUME NEW csv, NEW tab, Tidy(tab, csv), NEW K, K = {i \in DOMAIN tab : tab[i].t # {}}
  PROVE  Tidy(Rows(tab, K), csv) /\ \A i \in DOMAIN Rows(tab, K) : Rows(tab, K)[i].t # {}
  <1>1. tab \in Seq(Plain) /\ K \in SUBSET DOMAIN tab
    BY DEF Tidy
  <1>2. \A i \in DOMAIN Rows(tab, K) : \E k \in K : Rows(tab, K)[i] = tab[k]
    BY <1>1, RowsKept, Zenon
  <1>3. PICK new : new = Rows(tab, K)
    OBVIOUS
  <1>4. new \in Seq(Plain) /\ Taken(new, tab)
    BY <1>1, <1>3, RowsTaken
  <1>5. Ordered(new, csv)
    BY <1>4, TakenOrdered DEF Tidy
  <1>6. ~Imputed(csv) => \A i \in DOMAIN new : new[i].t \subseteq {new[i].at}
    BY <1>4 DEF Tidy, Taken
  <1>7. Exact(csv) => new = tab
    <2> SUFFICES ASSUME Exact(csv) PROVE new = tab
      OBVIOUS
    <2>1. K = DOMAIN tab
      BY DEF Tidy
    <2> QED
      BY <1>1, <1>3, <2>1, RowsAll
  <1>d. \A i \in DOMAIN new : Dated(new[i], csv)
    BY <1>4 DEF Tidy, Taken
  <1>8. Tidy(new, csv)
    BY <1>4, <1>5, <1>6, <1>7, <1>d DEF Tidy
  <1>9. \A i \in DOMAIN new : new[i].t # {}
    BY <1>2, <1>3
  <1> QED
    BY <1>3, <1>8, <1>9

LEMMA PreparedStep ==
  ASSUME TableInv, PartInv, NEW tab, NEW parts, NEW enough, Prepared(tab, parts, enough),
         IF algo = "nbeats" THEN Series(tab, job.horizons, job.csv) ELSE Labelled(tab, job.horizons, job.csv),
         algo = "persistence" \/ \A i \in DOMAIN tab : tab[i].x # {},
         algo # "nbeats" /\ Clear(job.csv) => PastOnly(tab),
         Split(parts, Len(tab))
  PROVE  TableInv' /\ PartInv'
  <1>1. table' = tab /\ part' = parts /\ UNCHANGED <<algo, job, used>> /\ used = Nothing
        /\ pc' \in {"fit", "failed"}
    BY DEF Prepared, PartInv
  <1>2. TableInv'
    BY <1>1 DEF TableInv
  <1>3. PartInv'
    BY <1>1 DEF PartInv, Nothing
  <1> QED
    BY <1>2, <1>3

\* A table of any trainer is a sequence, which is cut by its length.
LEMMA Lengths ==
  ASSUME NEW tab, NEW H, NEW csv, Series(tab, H, csv) \/ Labelled(tab, H, csv)
  PROVE  /\ Split(time_split(Len(tab)), Len(tab)) /\ Split(three_way_time_split(Len(tab)), Len(tab))
         /\ Split(TreeParts(Len(tab)), Len(tab))
  <1>1. tab \in Seq(Wide(H))
    BY DEF Series, Labelled
  <1>2. Len(tab) \in Nat
    BY <1>1, SeqFacts
  <1> QED
    BY <1>2, Splits DEF TreeParts

\* Every trainer prepares a table that TableInv allows.
LEMMA PrepareStep ==
  ASSUME TableInv, PartInv,
         \/ prepare_persistence \/ prepare_linear \/ prepare_xgboost \/ prepare_lightgbm
         \/ prepare_prophet \/ prepare_lstm \/ prepare_nbeats
  PROVE  TableInv' /\ PartInv'
  <1>1. PICK csv \in Seq(CsvRow), H \in SUBSET (Nat \ {0}) : csv = job.csv /\ H = job.horizons
    BY JobTypes
  <1>2. CASE prepare_persistence
    <2>1. PICK tab : tab = build_target_lags(load_dataset(csv), H)
      OBVIOUS
    <2>2. algo = "persistence" /\ Prepared(tab, time_split(Len(tab)), TRUE)
      BY <1>1, <1>2, <2>1 DEF prepare_persistence
    <2>3. Labelled(tab, H, csv) /\ PastOnly(tab)
      BY <2>1, LoadedLabelled
    <2>4. Split(time_split(Len(tab)), Len(tab))
      BY <2>3, Lengths
    <2>5. PICK parts : parts = time_split(Len(tab))
      OBVIOUS
    <2> QED
      BY <1>1, <2>2, <2>3, <2>4, <2>5, PreparedStep
  <1>3. CASE prepare_linear \/ prepare_xgboost \/ prepare_lightgbm
    <2>1. PICK tab : tab = Tabular(csv, H)
      OBVIOUS
    <2>2. /\ algo \in Trees
          /\ \E enough : \/ Prepared(tab, time_split(Len(tab)), enough)
                                     \/ Prepared(tab, TreeParts(Len(tab)), enough)
      <3>1. CASE prepare_linear
        BY <1>1, <2>1, <3>1 DEF prepare_linear, Trees
      <3>2. CASE prepare_xgboost
        <4>1. algo \in Trees /\ Prepared(tab, TreeParts(Len(tab)), Reference \in H)
          BY <1>1, <2>1, <3>2 DEF prepare_xgboost, Trees
        <4>2. PICK enough : enough = (Reference \in H)
          OBVIOUS
        <4> QED
          BY <4>1, <4>2
      <3>3. CASE prepare_lightgbm
        <4>1. algo \in Trees /\ Prepared(tab, TreeParts(Len(tab)), Reference \in H)
          BY <1>1, <2>1, <3>3 DEF prepare_lightgbm, Trees
        <4>2. PICK enough : enough = (Reference \in H)
          OBVIOUS
        <4> QED
          BY <4>1, <4>2
      <3> QED
        BY <1>3, <3>1, <3>2, <3>3
    <2>3. Labelled(tab, H, csv) /\ (\A i \in DOMAIN tab : tab[i].x # {}) /\ (Clear(csv) => PastOnly(tab))
      BY <2>1, TabularLabelled
    <2>4. PICK enough, parts : Prepared(tab, parts, enough) /\ Split(parts, Len(tab))
      BY <2>2, <2>3, Lengths
    <2>5. algo # "nbeats"
      BY <2>2 DEF Trees
    <2> QED
      BY <1>1, <2>3, <2>4, <2>5, PreparedStep
  <1>4. CASE prepare_prophet
    <2>1. PICK tab : tab = build_target_lags(load_dataset(csv), H)
      OBVIOUS
    <2>2. PICK new : new = TimeOnly(tab)
      OBVIOUS
    <2>3. algo = "prophet" /\ Prepared(new, three_way_time_split(Len(tab)), TRUE)
      BY <1>1, <1>4, <2>1, <2>2 DEF prepare_prophet, TimeOnly
    <2>4. Labelled(tab, H, csv)
      BY <2>1, LoadedLabelled
    <2>5. Labelled(new, H, csv) /\ DOMAIN new = DOMAIN tab /\ (\A i \in DOMAIN new : new[i].x # {})
          /\ PastOnly(new)
      BY <2>2, <2>4, ProphetLabelled
    <2>6. Len(new) = Len(tab)
      <3>1. tab \in Seq(Wide(H)) /\ new \in Seq(Wide(H))
        BY <2>4, <2>5 DEF Labelled
      <3>2. PICK a \in Nat, b \in Nat : a = Len(tab) /\ b = Len(new) /\ DOMAIN tab = 1..a /\ DOMAIN new = 1..b
        BY <3>1, SeqFacts
      <3>3. 1..a = 1..b
        BY <2>5, <3>2
      <3>4. a = b
        BY <3>3
      <3> QED
        BY <3>2, <3>4
    <2>7. PICK parts : parts = three_way_time_split(Len(tab)) /\ Split(parts, Len(new))
      BY <2>4, <2>6, Lengths
    <2>8. Prepared(new, parts, TRUE)
      BY <2>3, <2>7
    <2>9. algo # "nbeats"
      BY <2>3
    <2> QED
      BY <1>1, <2>5, <2>7, <2>8, <2>9, PreparedStep
  <1>5. CASE prepare_lstm
    <2>1. PICK tab : tab = tail_rows(dropna(build_target_lags(ffill_numeric(load_dataset(csv)), H)))
      OBVIOUS
    <2>2. PICK parts : parts = three_way_time_split(Len(tab))
      OBVIOUS
    <2>3. algo = "lstm" /\ \E enough \in BOOLEAN : Prepared(tab, parts, enough)
      BY <1>1, <1>5, <2>1, <2>2 DEF prepare_lstm
    <2>4. Labelled(tab, H, csv) /\ (\A i \in DOMAIN tab : tab[i].x # {}) /\ (Clear(csv) => PastOnly(tab))
      BY <2>1, LstmLabelled
    <2>5. Split(parts, Len(tab))
      BY <2>2, <2>4, Lengths
    <2>6. PICK enough \in BOOLEAN : Prepared(tab, parts, enough)
      BY <2>3
    <2>7. algo # "nbeats"
      BY <2>3
    <2> QED
      BY <1>1, <2>4, <2>5, <2>6, <2>7, PreparedStep
  <1>6. CASE prepare_nbeats
    <2>1. PICK late : late = tail_rows(load_dataset(csv))
      OBVIOUS
    <2>2. PICK rows : rows = Rows(late, {i \in DOMAIN late : late[i].t # {}})
      OBVIOUS
    <2>3. PICK tab : tab = IF rows = <<>> THEN <<>> ELSE _build_minute_series(rows, H)
      OBVIOUS
    <2>4. PICK parts : parts = time_split(Len(tab))
      OBVIOUS
    <2>5. algo = "nbeats" /\ \E enough \in BOOLEAN : Prepared(tab, parts, enough)
      BY <1>1, <1>6, <2>1, <2>2, <2>3, <2>4 DEF prepare_nbeats
    <2>6. Tidy(late, csv)
      BY <2>1, LoadTidy, TailTidy
    <2>7. Tidy(rows, csv) /\ \A i \in DOMAIN rows : rows[i].t # {}
      BY <2>2, <2>6, KnownTidy
    <2>8. Series(tab, H, csv)
      BY <2>3, <2>7, NoTable, SeriesSound
    <2>9. \A i \in DOMAIN tab : tab[i].x # {}
      BY <2>8 DEF Series
    <2>10. Split(parts, Len(tab))
      BY <2>4, <2>8, Lengths
    <2>11. PICK enough \in BOOLEAN : Prepared(tab, parts, enough)
      BY <2>5
    <2> QED
      BY <1>1, <2>5, <2>8, <2>9, <2>10, <2>11, PreparedStep
  <1> QED
    BY <1>2, <1>3, <1>4, <1>5, <1>6

-----------------------------------------------------------------------------
(* The early stop of the LSTM (train_lstm.py 258-295).                     *)

\* Where the weights are final.
Stopped == pc \in {"dump", "meta", "validate", "ok", "rejected"}

LossInv ==
  /\ losses \in Seq(Losses \cup {Diverged})
  /\ Ranked # {} => BestEpoch # {}
  /\ \A e \in BestEpoch :
       /\ \A d \in Ranked : losses[e] <= losses[d]
       /\ Len(losses) <= e + Patience

EpochInv == LossInv /\ (algo = "lstm" /\ Stopped /\ Ranked # {} => weights \in BestEpoch)

LEMMA LossTypes ==
  /\ Losses \subseteq Nat /\ Diverged \notin Losses /\ Patience \in Nat /\ Patience > 0
  BY TrainConstants DEF TrainConstants, Diverged

\* An action that leaves the losses, the weights and the trainer alone, and
\* does not stop the training of an LSTM.
LEMMA Untouched ==
  ASSUME EpochInv, UNCHANGED <<losses, weights, algo>>, algo = "lstm" /\ Stopped' => Stopped
  PROVE  EpochInv'
  BY DEF EpochInv, LossInv, Ranked, BestEpoch, Improved

LEMMA NoLosses ==
  ASSUME losses' = <<>> PROVE LossInv' /\ Ranked' = {}
  <1>1. DOMAIN losses' = {} /\ losses' \in Seq(Losses \cup {Diverged})
    OBVIOUS
  <1>2. Ranked' = {}
    BY <1>1 DEF Ranked
  <1>3. BestEpoch' = {}
    BY <1>2 DEF BestEpoch
  <1> QED
    BY <1>1, <1>2, <1>3 DEF LossInv

LEMMA EpochStep ==
  ASSUME EpochInv, NEW loss \in Losses \cup {Diverged}, lstm_epoch(loss)
  PROVE  EpochInv'
  <1>0. PICK n \in Nat : n = Len(losses)
    BY DEF EpochInv, LossInv
  <1>1. /\ losses \in Seq(Losses \cup {Diverged}) /\ n = Len(losses)
        /\ losses' = Append(losses, loss)
        /\ losses' \in Seq(Losses \cup {Diverged})
        /\ Len(losses') = n + 1 /\ losses'[n + 1] = loss
        /\ \A d \in 1..n : losses'[d] = losses[d]
    BY <1>0 DEF EpochInv, LossInv, lstm_epoch
  <1>2. DOMAIN losses = 1..n /\ DOMAIN losses' = 1..(n + 1)
    BY <1>1
  <1>v. \A d \in Ranked : losses[d] \in Nat /\ d \in 1..n
    <2>1. \A d \in 1..n : losses[d] \in Losses \cup {Diverged}
      BY <1>1, <1>2
    <2> QED
      BY <1>2, <2>1, LossTypes DEF Ranked
  <1>3. /\ Ranked \subseteq 1..n
        /\ Ranked' = Ranked \cup (IF loss = Diverged THEN {} ELSE {n + 1})
    BY <1>1, <1>2 DEF Ranked
  <1>4. \A e \in 1..n : Improved(e)' <=> Improved(e)
    <2> SUFFICES ASSUME NEW e \in 1..n PROVE Improved(e)' <=> Improved(e)
      OBVIOUS
    <2>1. ASSUME NEW d \in Ranked', d < e PROVE d \in Ranked /\ losses'[d] = losses[d]
      <3>1. d \in Ranked
        <4>1. d \in Ranked \/ d = n + 1
          BY <1>3
        <4> QED
          BY <2>1, <4>1
      <3> QED
        BY <1>1, <1>3, <3>1
    <2>2. \A d \in Ranked : d \in Ranked' /\ losses'[d] = losses[d]
      BY <1>1, <1>3
    <2>3. losses'[e] = losses[e] /\ (e \in Ranked' <=> e \in Ranked)
      BY <1>1, <1>3
    <2> QED
      BY <2>1, <2>2, <2>3 DEF Improved
  <1>5. pc' = "fit" /\ ~OutOfPatience
    BY DEF lstm_epoch
  <1>6. CASE loss # Diverged /\ \A d \in Ranked : loss < losses[d]
    <2>1. Improved(n + 1)'
      BY <1>1, <1>3, <1>6 DEF Improved
    <2>2. BestEpoch' = {n + 1}
      <3>1. n + 1 \in Ranked' /\ \A d \in Ranked' : d <= n + 1
        BY <1>1, <1>3, <1>6
      <3>2. \A e \in Ranked' : e = n + 1 \/ ~(n + 1 <= e)
        BY <1>3
      <3>3. n + 1 \in BestEpoch'
        BY <2>1, <3>1 DEF BestEpoch
      <3>4. \A e \in BestEpoch' : e = n + 1
        BY <2>1, <3>1, <3>2 DEF BestEpoch
      <3> QED
        BY <3>3, <3>4
    <2>3. \A d \in Ranked' : losses'[n + 1] <= losses'[d]
      BY <1>1, <1>3, <1>6, <1>v, LossTypes
    <2>4. Len(losses') <= (n + 1) + Patience
      BY <1>1, LossTypes
    <2> QED
      BY <1>1, <1>5, <2>2, <2>3, <2>4 DEF EpochInv, LossInv, Stopped
  <1>7. CASE ~(loss # Diverged /\ \A d \in Ranked : loss < losses[d])
    <2>1. ~Improved(n + 1)'
      <3>1. CASE loss = Diverged
        BY <1>1, <1>3, <3>1 DEF Improved
      <3>2. ASSUME NEW d \in Ranked, ~(loss < losses[d]) PROVE ~Improved(n + 1)'
        <4>1. d \in Ranked' /\ d < n + 1 /\ losses'[d] = losses[d]
          BY <1>1, <1>3
        <4> QED
          BY <1>1, <3>2, <4>1 DEF Improved
      <3> QED
        BY <1>7, <3>1, <3>2
    <2>2. BestEpoch' = BestEpoch
      BY <1>1, <1>3, <1>4, <2>1 DEF BestEpoch
    <2>3. Ranked' # {} => BestEpoch # {}
      BY <1>3, <1>7 DEF EpochInv, LossInv
    <2>4. \A e \in BestEpoch : n + 1 <= e + Patience
      <3>1. ASSUME NEW e \in BestEpoch PROVE n + 1 <= e + Patience
        <4>1. PICK g \in BestEpoch : ~(n - g >= Patience)
          BY <1>1, <1>5, <3>1 DEF OutOfPatience, Since
        <4>2. e \in 1..n /\ g \in 1..n /\ e <= g /\ g <= e
          BY <1>3, <3>1 DEF BestEpoch
        <4> QED
          BY <1>1, <4>1, <4>2, LossTypes
      <3> QED
        BY <3>1
    <2>5. \A e \in BestEpoch, d \in Ranked' : losses'[e] <= losses'[d]
      <3> SUFFICES ASSUME NEW e \in BestEpoch, NEW d \in Ranked' PROVE losses'[e] <= losses'[d]
        OBVIOUS
      <3>1. e \in Ranked /\ losses'[e] = losses[e] /\ \A c \in Ranked : losses[e] <= losses[c]
        BY <1>1, <1>3 DEF BestEpoch, EpochInv, LossInv
      <3>2. CASE d \in Ranked
        BY <1>1, <1>3, <3>1, <3>2
      <3>3. CASE d = n + 1 /\ loss # Diverged
        <4>1. PICK c \in Ranked : ~(loss < losses[c])
          BY <1>7, <3>3
        <4>2. loss \in Nat /\ losses[c] \in Nat /\ losses[e] \in Nat
          BY <1>v, <3>1, <3>3, LossTypes
        <4> QED
          BY <1>1, <3>1, <3>3, <4>1, <4>2
      <3> QED
        BY <1>3, <3>2, <3>3
    <2> QED
      BY <1>1, <1>5, <2>2, <2>3, <2>4, <2>5 DEF EpochInv, LossInv, Stopped
  <1> QED
    BY <1>6, <1>7

LEMMA StopStep == EpochInv /\ lstm_stop => EpochInv'
  <1> SUFFICES ASSUME EpochInv, lstm_stop PROVE EpochInv'
    OBVIOUS
  <1>1. losses' = losses
    BY DEF lstm_stop
  <1>2. LossInv' /\ Ranked' = Ranked /\ BestEpoch' = BestEpoch
    BY <1>1 DEF EpochInv, LossInv, Ranked, BestEpoch, Improved
  <1>3. Ranked # {} => weights' \in BestEpoch
    BY DEF EpochInv, LossInv, lstm_stop, RestoredWeights
  <1> QED
    BY <1>2, <1>3 DEF EpochInv

LEMMA EpochsStep == EpochInv /\ [TrainNext]_trainVars => EpochInv'
  <1> SUFFICES ASSUME EpochInv, [TrainNext]_trainVars PROVE EpochInv'
    OBVIOUS
  <1>1. ASSUME NEW csv \in CsvFiles, NEW H \in HorizonSets, NEW tune \in BOOLEAN,
               StartJob(csv, H, tune)
        PROVE  EpochInv'
    BY <1>1, NoLosses DEF StartJob, EpochInv
  <1>2. CASE \/ prepare_persistence \/ prepare_linear \/ prepare_xgboost \/ prepare_lightgbm
             \/ prepare_prophet \/ prepare_lstm \/ prepare_nbeats
    <2>1. UNCHANGED <<losses, weights, algo>> /\ pc' \in {"fit", "failed"}
      BY <1>2 DEF prepare_persistence, prepare_linear, prepare_xgboost, prepare_lightgbm,
         prepare_prophet, prepare_lstm, prepare_nbeats, Prepared
    <2> QED
      BY <2>1, Untouched DEF Stopped
  <1>3. CASE \/ fit_persistence \/ fit_linear \/ fit_xgboost \/ fit_lightgbm \/ fit_prophet
             \/ fit_nbeats
    <2>1. UNCHANGED <<losses, weights, algo>> /\ algo # "lstm"
      BY <1>3 DEF fit_persistence, fit_linear, fit_xgboost, fit_lightgbm, fit_prophet, fit_nbeats,
         Fitted
    <2> QED
      BY <2>1, Untouched
  <1>4. ASSUME NEW l \in Losses \cup {Diverged}, lstm_epoch(l) PROVE EpochInv'
    BY <1>4, EpochStep
  <1>5. CASE lstm_stop
    BY <1>5, StopStep
  <1>6. CASE joblib_dump \/ write_meta_json \/ validate_artifact_inline
    <2>1. UNCHANGED <<losses, weights, algo>> /\ Stopped
      BY <1>6 DEF joblib_dump, write_meta_json, validate_artifact_inline, train, Stopped
    <2> QED
      BY <2>1, Untouched
  <1>7. CASE Killed
    <2>1. UNCHANGED <<losses, weights, algo>> /\ ~Stopped'
      BY <1>7 DEF Killed, train, Stopped
    <2> QED
      BY <2>1, Untouched
  <1>8. CASE UNCHANGED trainVars
    <2>1. UNCHANGED <<losses, weights, algo>> /\ Stopped' = Stopped
      BY <1>8 DEF trainVars, train, Stopped
    <2> QED
      BY <2>1, Untouched
  <1> QED
    BY <1>1, <1>2, <1>3, <1>4, <1>5, <1>6, <1>7, <1>8 DEF TrainNext

LEMMA EpochsStart == TrainInit => EpochInv
  <1> SUFFICES ASSUME TrainInit PROVE EpochInv
    OBVIOUS
  <1>1. losses = <<>> /\ DOMAIN losses = {} /\ losses \in Seq(Losses \cup {Diverged})
    BY DEF TrainInit
  <1>2. Ranked = {} /\ BestEpoch = {}
    BY <1>1 DEF Ranked, BestEpoch
  <1> QED
    BY <1>1, <1>2 DEF EpochInv, LossInv

-----------------------------------------------------------------------------
(* The steps of a job.                                                     *)

LEMMA StartStep ==
  ASSUME NEW csv \in CsvFiles, NEW H \in HorizonSets, NEW tune \in BOOLEAN, StartJob(csv, H, tune)
  PROVE  TableInv' /\ PartInv'
  <1>1. job'.csv = csv.rows /\ job'.horizons = H /\ table' = <<>> /\ part' = NoParts /\ used' = Nothing
        /\ pc' = "prepare"
    BY DEF StartJob
  <1>2. csv.rows \in Seq(CsvRow)
    BY TrainConstants DEF TrainConstants, CsvRow
  <1>3. Len(<<>>) = 0 /\ DOMAIN <<>> = {}
    OBVIOUS
  <1>4. TableInv'
    BY <1>1, <1>2, <1>3, NoTable DEF TableInv
  <1>5. PartInv'
    BY <1>1, <1>3, NoTable DEF PartInv, Nothing
  <1> QED
    BY <1>4, <1>5

LEMMA FittedStep ==
  ASSUME TableInv, PartInv, NEW u, NEW enough, Fitted(u, enough),
         u.scale \cup u.tune \cup u.fit \subseteq part.train \cup part.val, u.score \subseteq part.test,
         algo = "prophet" /\ enough => u.fit # {}
  PROVE  TableInv' /\ PartInv'
  <1>1. UNCHANGED <<algo, job, table, part>> /\ used' \in {u, Nothing} /\ pc' \in {"dump", "failed"}
        /\ (algo = "prophet" /\ pc' = "dump" => used'.fit # {})
    BY DEF Fitted
  <1>2. TableInv'
    BY <1>1 DEF TableInv
  <1>3. PartInv'
    BY <1>1 DEF PartInv, Nothing
  <1> QED
    BY <1>2, <1>3

\* No trainer but by its split looks at the rows that it scores.
LEMMA FitStep ==
  ASSUME TableInv, PartInv,
         fit_persistence \/ fit_linear \/ fit_xgboost \/ fit_lightgbm \/ fit_prophet \/ fit_nbeats
  PROVE  TableInv' /\ PartInv'
  <1>1. \E u, enough : /\ Fitted(u, enough)
                       /\ u.scale \cup u.tune \cup u.fit \subseteq part.train \cup part.val
                       /\ u.score \subseteq part.test
                       /\ algo = "prophet" /\ enough => u.fit # {}
    <2>1. PICK u1 : u1 = [Nothing EXCEPT !.score = part.test]
      OBVIOUS
    <2>2. u1.scale \cup u1.tune \cup u1.fit \subseteq part.train \cup part.val /\ u1.score \subseteq part.test
      BY <2>1 DEF Nothing
    <2>3. PICK u2 : u2 = [Nothing EXCEPT !.fit = part.train, !.score = part.test]
      OBVIOUS
    <2>4. u2.scale \cup u2.tune \cup u2.fit \subseteq part.train \cup part.val /\ u2.score \subseteq part.test
      BY <2>3 DEF Nothing
    <2>5. PICK u3 : u3 = Refitted
      OBVIOUS
    <2>6. u3.scale \cup u3.tune \cup u3.fit \subseteq part.train \cup part.val /\ u3.score \subseteq part.test
      BY <2>5 DEF Refitted
    <2>7. CASE fit_persistence
      BY <2>1, <2>2, <2>7 DEF fit_persistence
    <2>8. CASE fit_linear
      BY <2>3, <2>4, <2>8 DEF fit_linear
    <2>9. CASE fit_xgboost
      <3>1. PICK e : e = (Trained /\ (job.tune => part.val # {}))
        OBVIOUS
      <3>2. Fitted(u3, e)
        BY <2>5, <2>9, <3>1 DEF fit_xgboost
      <3>3. algo # "prophet"
        BY <2>9 DEF fit_xgboost
      <3> QED
        BY <2>6, <3>2, <3>3
    <2>10. CASE fit_lightgbm
      <3>1. PICK e : e = (Trained /\ (job.tune => part.val # {}))
        OBVIOUS
      <3>2. Fitted(u3, e)
        BY <2>5, <2>10, <3>1 DEF fit_lightgbm
      <3>3. algo # "prophet"
        BY <2>10 DEF fit_lightgbm
      <3> QED
        BY <2>6, <3>2, <3>3
    <2>11. CASE fit_prophet
      <3>1. PICK e : e = (Trained /\ part.val # {} /\ Cardinality(part.train) >= 2)
        OBVIOUS
      <3>2. Fitted(u2, e)
        BY <2>3, <2>11, <3>1 DEF fit_prophet
      <3>3. e => u2.fit # {}
        BY <2>3, <3>1 DEF Trained, Nothing
      <3> QED
        BY <2>4, <3>2, <3>3
    <2>12. CASE fit_nbeats
      <3>1. PICK e : e = (Trained /\ \A h \in job.horizons : h <= Cardinality(part.test))
        OBVIOUS
      <3>2. Fitted(u2, e)
        BY <2>3, <2>12, <3>1 DEF fit_nbeats
      <3>3. algo # "prophet"
        BY <2>12 DEF fit_nbeats
      <3> QED
        BY <2>4, <3>2, <3>3
    <2> QED
      BY <2>7, <2>8, <2>9, <2>10, <2>11, <2>12
  <1> QED
    BY <1>1, FittedStep

\* A step that neither prepares nor fits.
LEMMA KeptStep ==
  ASSUME TableInv, PartInv, UNCHANGED <<algo, job, table, part, used>>,
         pc' = "prepare" => pc = "prepare", pc' \in {"dump", "meta"} => pc \in {"dump", "meta"}
  PROVE  TableInv' /\ PartInv'
  <1>1. TableInv'
    BY DEF TableInv
  <1>2. PartInv'
    BY DEF PartInv
  <1> QED
    BY <1>1, <1>2

TrainInv == TableInv /\ PartInv /\ EpochInv

LEMMA TrainStep == TrainInv /\ [TrainNext]_trainVars => TrainInv'
  <1> SUFFICES ASSUME TrainInv, [TrainNext]_trainVars PROVE TableInv' /\ PartInv'
    BY EpochsStep DEF TrainInv
  <1>0. TableInv /\ PartInv
    BY DEF TrainInv
  <1>1. ASSUME NEW csv \in CsvFiles, NEW H \in HorizonSets, NEW tune \in BOOLEAN,
               StartJob(csv, H, tune)
        PROVE  TableInv' /\ PartInv'
    BY <1>1, StartStep
  <1>2. CASE \/ prepare_persistence \/ prepare_linear \/ prepare_xgboost \/ prepare_lightgbm
             \/ prepare_prophet \/ prepare_lstm \/ prepare_nbeats
    BY <1>0, <1>2, PrepareStep
  <1>3. CASE \/ fit_persistence \/ fit_linear \/ fit_xgboost \/ fit_lightgbm \/ fit_prophet
             \/ fit_nbeats
    BY <1>0, <1>3, FitStep
  <1>4. ASSUME NEW l \in Losses \cup {Diverged}, lstm_epoch(l) PROVE TableInv' /\ PartInv'
    BY <1>0, <1>4, KeptStep DEF lstm_epoch
  <1>5. CASE lstm_stop
    <2>1. /\ UNCHANGED <<algo, job, table, part>> /\ pc' # "prepare" /\ algo = "lstm"
          /\ used' = [scale |-> part.train, tune |-> part.val, fit |-> part.train,
                      score |-> _make_sequences(part.test)]
      BY <1>5 DEF lstm_stop
    <2>2. _make_sequences(part.test) \subseteq part.test
      BY DEF _make_sequences
    <2>3. TableInv'
      BY <1>0, <2>1 DEF TableInv
    <2>4. PartInv'
      BY <1>0, <2>1, <2>2 DEF PartInv
    <2> QED
      BY <2>3, <2>4
  <1>6. CASE joblib_dump \/ write_meta_json \/ validate_artifact_inline \/ Killed
    <2>1. UNCHANGED <<algo, job, table, part, used>> /\ pc' # "prepare"
          /\ (pc' \in {"dump", "meta"} => pc \in {"dump", "meta"})
      BY <1>6 DEF joblib_dump, write_meta_json, validate_artifact_inline, Killed, train
    <2> QED
      BY <1>0, <2>1, KeptStep
  <1>7. CASE UNCHANGED trainVars
    <2>1. UNCHANGED <<algo, job, table, part, used, pc>>
      BY <1>7 DEF trainVars, train
    <2> QED
      BY <1>0, <2>1, KeptStep
  <1> QED
    BY <1>1, <1>2, <1>3, <1>4, <1>5, <1>6, <1>7 DEF TrainNext

LEMMA TrainStart == TrainInit => TrainInv
  <1> SUFFICES ASSUME TrainInit PROVE TableInv /\ PartInv
    BY EpochsStart DEF TrainInv
  <1>1. /\ job.csv = <<>> /\ job.horizons = {} /\ table = <<>> /\ part = NoParts /\ used = Nothing
        /\ <<>> \in Seq(CsvRow) /\ Len(<<>>) = 0 /\ DOMAIN <<>> = {} /\ pc = "idle"
    BY DEF TrainInit, NoJob
  <1>2. TableInv
    BY <1>1, NoTable DEF TableInv
  <1>3. PartInv
    BY <1>1, NoTable DEF PartInv, Nothing
  <1> QED
    BY <1>2, <1>3

\* The split: the rows that are looked at lie before those that are scored, and
\* the order of the rows is that of their times.
LEMMA HeldOut == TrainInv => TestHeldOut
  <1> SUFFICES ASSUME TrainInv PROVE TestHeldOut
    OBVIOUS
  <1>1. table \in Seq(Wide(job.horizons)) /\ Ordered(table, job.csv)
    BY TableRows DEF TrainInv
  <1>2. PICK n \in Nat : n = Len(table) /\ DOMAIN table = 1..n
    BY <1>1, SeqFacts
  <1>3. PICK seen, scored : seen = used.scale \cup used.tune \cup used.fit /\ scored = used.score
    OBVIOUS
  <1>4. ASSUME NEW i \in seen, NEW j \in scored
        PROVE  /\ i # j /\ table[i].at <= table[j].at
               /\ Once(job.csv) => table[i].at < table[j].at
    <2>1. i \in part.train \cup part.val /\ j \in part.test
      BY <1>3, <1>4 DEF TrainInv, PartInv
    <2>2. i \in 1..n /\ j \in 1..n /\ i < j
      BY <1>2, <2>1 DEF TrainInv, PartInv, Split
    <2> QED
      BY <1>1, <1>2, <2>2 DEF Ordered
  <1>5. ASSUME algo # "nbeats", ~Imputed(job.csv), Sensed(job.csv)
        PROVE  \A i \in DOMAIN table : \A u \in table[i].x : u <= table[i].at
    BY <1>5 DEF TrainInv, TableInv, Clear, PastOnly
  <1> QED
    BY <1>3, <1>4, <1>5 DEF TestHeldOut

LEMMA Reach == TrainInv => LabelsReachHorizon
  <1> SUFFICES ASSUME TrainInv, algo = "nbeats" \/ Once(job.csv),
                      NEW i \in DOMAIN table, NEW h \in job.horizons
               PROVE  LET Due    == table[i].at + (IF algo = "nbeats" THEN h ELSE h * Minute)
                          Labels == IF algo = "nbeats" THEN {(u - 1) \div Minute : u \in table[i].y[h]}
                                                       ELSE table[i].y[h]
                      IN  /\ Exact(job.csv) => Labels \subseteq {Due}
                          /\ algo # "nbeats" /\ ~Imputed(job.csv) => \A u \in Labels : u >= Due
    BY DEF LabelsReachHorizon, Exact
  <1>1. CASE algo = "nbeats"
    <2>1. Series(table, job.horizons, job.csv)
      BY <1>1 DEF TrainInv, TableInv
    <2> QED
      BY <1>1, <2>1 DEF Series
  <1>2. CASE algo # "nbeats"
    <2>1. Labelled(table, job.horizons, job.csv) /\ Once(job.csv)
      BY <1>2 DEF TrainInv, TableInv
    <2> QED
      BY <1>2, <2>1 DEF Labelled
  <1> QED
    BY <1>1, <1>2

-----------------------------------------------------------------------------
(* Serving: the files, the predictor and its forecasts (ModelServing).     *)

Point == [h : Nat, made : Nat, for : Int, on : SUBSET {"value", "zero", "nan"}]

\* When the number of a point is for.
Timely(p) ==
  /\ p.for <= p.made + p.h * Minute
  /\ algo \notin {"prophet", "nbeats"} => p.for = p.made + p.h * Minute

\* What ForecastSound says of a forecast, and its type.
Sound(f) ==
  \A i \in DOMAIN f :
    /\ f[i] \in Point /\ Timely(f[i])
    /\ "nan" \in f[i].on => algo = "nbeats"
    /\ \A k \in 1..(i - 1) : f[k].h < f[i].h

\* A file of an artifact; its history ends before any reading it is served.
File(f) ==
  /\ f.state \in {"absent", "torn", "whole"} /\ f.horizons \in HorizonSets \cup {{}}
  /\ f.until \in Int /\ \A w \in Windows : f.until <= w.now

LEMMA FileHorizons ==
  ASSUME NEW f, File(f)
  PROVE  f.horizons \in SUBSET Nat /\ IsFiniteSet(f.horizons)
  <1>1. CASE f.horizons = {}
    BY <1>1, FS_EmptySet
  <1>2. CASE f.horizons \in HorizonSets
    BY <1>2, TrainConstants DEF TrainConstants
  <1> QED
    BY <1>1, <1>2 DEF File

\* Counted from a time that has passed, in steps of at most a minute.
LEMMA Due ==
  ASSUME NEW now \in Nat, NEW start \in Int, start <= now, NEW step \in {1, Minute}, NEW h \in Nat
  PROVE  start + h * step \in Int /\ start + h * step <= now + h * Minute
  <1>1. PICK m \in Nat : m = Minute /\ m >= 1
    BY Sizes
  <1>2. h * m \in Nat /\ h <= h * m
    BY <1>1
  <1>3. CASE step = 1
    BY <1>1, <1>2, <1>3
  <1>4. CASE step = m
    BY <1>1, <1>2, <1>4
  <1> QED
    BY <1>1, <1>3, <1>4

Labels(f) == {f[i].h : i \in DOMAIN f}

LEMMA PointsSound ==
  ASSUME NEW H \in SUBSET Nat, IsFiniteSet(H), NEW on \in SUBSET {"value", "zero", "nan"},
         "nan" \in on => algo = "nbeats",
         NEW w, w.now \in Nat, NEW start \in Int, start <= w.now, NEW step \in {1, Minute},
         algo \notin {"prophet", "nbeats"} => start = w.now /\ step = Minute
  PROVE  Sound(Points(H, w, start, step, on)) /\ Labels(Points(H, w, start, step, on)) = H
  <1>1. PICK n \in Nat : n = Cardinality(H)
    BY FS_CardinalityType
  <1>2. PICK list : list = Listed(H)
    OBVIOUS
  <1>3. H \in SUBSET Int
    OBVIOUS
  <1>4. /\ list \in [1..n -> H] /\ \A k \in H : \E i \in 1..n : list[i] = k
        /\ \A i, j \in 1..n : i < j => list[i] < list[j]
    BY <1>1, <1>2, <1>3, Listing
  <1>5. PICK f : f = Points(H, w, start, step, on)
    OBVIOUS
  <1>6. PICK now \in Nat : now = w.now
    OBVIOUS
  <1>7. DOMAIN f = 1..n /\ \A i \in 1..n :
          f[i] = [h |-> list[i], made |-> now, for |-> start + list[i] * step, on |-> on]
    BY <1>1, <1>2, <1>5, <1>6 DEF Points
  <1>8. ASSUME NEW i \in 1..n
        PROVE  f[i] \in Point /\ Timely(f[i]) /\ f[i].h = list[i] /\ f[i].on = on
    <2>1. PICK v \in Nat : v = list[i]
      BY <1>4
    <2>2. PICK due \in Int : due = start + v * step /\ due <= now + v * Minute
      BY <1>6, Due
    <2>3. f[i] = [h |-> v, made |-> now, for |-> due, on |-> on]
      BY <1>7, <2>1, <2>2
    <2>4. algo \notin {"prophet", "nbeats"} => due = now + v * Minute
      BY <1>6, <2>2
    <2> QED
      BY <2>1, <2>2, <2>3, <2>4 DEF Point, Timely
  <1>9. \A i \in 1..n : \A k \in 1..(i - 1) : f[k].h < f[i].h
    BY <1>4, <1>8
  <1>10. Sound(f)
    BY <1>7, <1>8, <1>9 DEF Sound
  <1>11. Labels(f) = H
    <2>1. \A i \in 1..n : f[i].h = list[i] /\ list[i] \in H
      BY <1>4, <1>8
    <2>2. Labels(f) \subseteq H
      BY <1>7, <2>1 DEF Labels
    <2>3. ASSUME NEW k \in H PROVE k \in Labels(f)
      <3>1. PICK i \in 1..n : list[i] = k
        BY <1>4
      <3> QED
        BY <1>7, <2>1, <3>1 DEF Labels
    <2> QED
      BY <2>2, <2>3
  <1> QED
    BY <1>5, <1>10, <1>11

\* The raw columns are in the readings table.
LEMMA NoneMissing ==
  ASSUME algo \in {"lstm", "nbeats"}, NEW schema
  PROVE  Missing(schema) = {}
  BY DEF Missing, feature_columns, RAW_FEATURE_COLS, READINGS_COLUMNS, Trees

LEMMA Cells ==
  ASSUME NEW cells \in SUBSET {"value", "nan"}
  PROVE  Zeroed(cells) \in SUBSET {"value", "zero", "nan"} /\ "nan" \notin Zeroed(cells)
  BY DEF Zeroed

\* Every backend, over any payload and meta.json that may have been held.
LEMMA Served ==
  ASSUME algo \in Trainers, NEW p, File(p.payload), File(p.meta),
         NEW w, w.now \in Nat, p.payload.until <= w.now
  PROVE  /\ Sound(predict_multi(p, w))
         /\ p.meta.state = "whole" /\ p.payload.state = "whole" /\ w.rows = "enough" =>
              Labels(predict_multi(p, w)) =
                IF algo \in Trees
                  THEN IF Missing(p.meta.schema) # {} \/ p.payload.schema # p.meta.schema THEN {}
                       ELSE p.meta.horizons \cap p.payload.horizons
                ELSE IF algo = "lstm" THEN p.payload.horizons ELSE p.meta.horizons
         /\ algo = "persistence" /\ p.meta.state = "whole" =>
              Labels(predict_multi(p, w)) = p.meta.horizons
  <1>1. PICK M, P : M = p.meta.horizons /\ P = p.payload.horizons
    OBVIOUS
  <1>2. M \in SUBSET Nat /\ IsFiniteSet(M) /\ P \in SUBSET Nat /\ IsFiniteSet(P)
    BY <1>1, FileHorizons
  <1>3. M \cap P \in SUBSET Nat /\ IsFiniteSet(M \cap P)
    BY <1>2, FS_Intersection
  <1>4. PICK f : f = predict_multi(p, w)
    OBVIOUS
  <1>5. Sound(<<>>) /\ Labels(<<>>) = {}
    BY DEF Sound, Labels
  <1>n. w.now \in Int /\ w.now <= w.now /\ Minute \in {1, Minute} /\ 1 \in {1, Minute}
    OBVIOUS
  <1>6. CASE p.meta.state # "whole" \/ (algo # "persistence" /\ p.payload.state # "whole")
    <2>1. f = <<>>
      BY <1>4, <1>6 DEF predict_multi
    <2> QED
      BY <1>4, <1>5, <1>6, <2>1
  <1>7. CASE p.meta.state = "whole" /\ algo = "persistence"
    <2>1. PICK on : on = IF w.target = "none" THEN {"zero"} ELSE {"value"}
      OBVIOUS
    <2>2. on \in SUBSET {"value", "zero", "nan"} /\ "nan" \notin on
      BY <2>1
    <2>3. f = Points(M, w, w.now, Minute, on)
      BY <1>1, <1>4, <1>7, <2>1 DEF predict_multi, _predict_persistence_multi, Trees
    <2>4. algo \notin Trees /\ algo # "lstm"
      BY <1>7 DEF Trees
    <2>5. Sound(f) /\ Labels(f) = M
      BY <1>2, <1>n, <2>2, <2>3, PointsSound
    <2> QED
      BY <1>1, <1>4, <2>4, <2>5
  <1>8. CASE p.meta.state = "whole" /\ p.payload.state = "whole" /\ algo \in Trees
    <2>1. PICK on : on = latest_feature_row_imputed(w)
      OBVIOUS
    <2>2. on \in SUBSET {"value", "zero", "nan"} /\ "nan" \notin on
      BY <2>1, Cells DEF latest_feature_row_imputed, build_features_row
    <2>3. algo \notin {"prophet", "nbeats", "lstm", "persistence"}
      BY <1>8 DEF Trees
    <2>4. CASE Missing(p.meta.schema) # {} \/ p.payload.schema # p.meta.schema
      <3>1. f = <<>>
        BY <1>4, <1>8, <2>3, <2>4 DEF predict_multi, _predict_tree_multi
      <3> QED
        BY <1>4, <1>5, <1>8, <2>3, <2>4, <3>1
    <2>5. CASE ~(Missing(p.meta.schema) # {} \/ p.payload.schema # p.meta.schema)
      <3>1. f = Points(M \cap P, w, w.now, Minute, on)
        BY <1>1, <1>4, <1>8, <2>1, <2>3, <2>5 DEF predict_multi, _predict_tree_multi
      <3>2. PICK S : S = M \cap P
        OBVIOUS
      <3>3. S \in SUBSET Nat /\ IsFiniteSet(S) /\ f = Points(S, w, w.now, Minute, on)
        BY <1>3, <3>1, <3>2
      <3>4. Sound(f) /\ Labels(f) = S
        BY <1>n, <2>2, <3>3, PointsSound
      <3> QED
        BY <1>1, <1>4, <1>8, <2>3, <2>5, <3>2, <3>4
    <2> QED
      BY <2>4, <2>5
  <1>9. CASE p.meta.state = "whole" /\ p.payload.state = "whole" /\ algo = "prophet"
    <2>1. PICK start : start = p.payload.until
      OBVIOUS
    <2>2. start \in Int /\ start <= w.now
      BY <2>1 DEF File
    <2>3. f = Points(M, w, start, Minute, {"value"})
      BY <1>1, <1>4, <1>9, <2>1 DEF predict_multi, _predict_prophet_multi, Trees
    <2>4. algo \notin Trees /\ algo # "lstm" /\ algo # "persistence"
      BY <1>9 DEF Trees
    <2>6. Sound(f) /\ Labels(f) = M
      <3>1. PICK on : on = {"value"}
        OBVIOUS
      <3>2. on \in SUBSET {"value", "zero", "nan"} /\ "nan" \notin on
        BY <3>1
      <3>3. f = Points(M, w, start, Minute, on)
        BY <2>3, <3>1
      <3> QED
        BY <1>2, <1>9, <1>n, <2>2, <3>2, <3>3, PointsSound
    <2> QED
      BY <1>1, <1>4, <2>4, <2>6
  <1>10. CASE p.meta.state = "whole" /\ p.payload.state = "whole" /\ algo = "lstm"
    <2>1. PICK on : on = fill_window_nans(w)
      OBVIOUS
    <2>2. on \in SUBSET {"value", "zero", "nan"} /\ "nan" \notin on
      BY <2>1, Cells DEF fill_window_nans, Window
    <2>m. Missing(p.payload.schema) = {}
      BY <1>10, NoneMissing
    <2>3. f = IF w.rows # "enough" THEN <<>> ELSE Points(P, w, w.now, Minute, on)
      BY <1>1, <1>4, <1>10, <2>1, <2>m DEF predict_multi, _predict_lstm_pytorch_multi, Trees
    <2>4. algo \notin Trees /\ algo # "persistence"
      BY <1>10 DEF Trees
    <2>5. PICK g : g = Points(P, w, w.now, Minute, on)
      OBVIOUS
    <2>6. Sound(g) /\ Labels(g) = P
      BY <1>2, <1>10, <1>n, <2>2, <2>5, PointsSound
    <2>7. Sound(f) /\ (w.rows = "enough" => Labels(f) = P)
      BY <1>5, <2>3, <2>5, <2>6
    <2> QED
      BY <1>1, <1>4, <1>10, <2>4, <2>7
  <1>11. CASE p.meta.state = "whole" /\ p.payload.state = "whole" /\ algo = "nbeats"
    <2>1. PICK on : on = IF w.target = "all" THEN {"value"} ELSE {"value", "nan"}
      OBVIOUS
    <2>2. on \in SUBSET {"value", "zero", "nan"}
      BY <2>1
    <2>m. Missing(p.payload.schema) = {}
      BY <1>11, NoneMissing
    <2>3. f = IF w.rows # "enough" THEN <<>> ELSE Points(M, w, w.now, 1, on)
      BY <1>1, <1>4, <1>11, <2>1, <2>m DEF predict_multi, _predict_nbeats_multi, Trees
    <2>4. algo \notin Trees /\ algo # "lstm" /\ algo # "persistence"
      BY <1>11 DEF Trees
    <2>5. PICK g : g = Points(M, w, w.now, 1, on)
      OBVIOUS
    <2>6. Sound(g) /\ Labels(g) = M
      BY <1>2, <1>11, <1>n, <2>2, <2>5, PointsSound
    <2>7. Sound(f) /\ (w.rows = "enough" => Labels(f) = M)
      BY <1>5, <2>3, <2>5, <2>6
    <2> QED
      BY <1>1, <1>4, <2>4, <2>7
  <1> QED
    BY <1>6, <1>7, <1>8, <1>9, <1>10, <1>11 DEF Trainers, Trees

CountInv ==
  /\ algo \in Trainers /\ jobs \in 0..MaxJobs
  /\ pc \in {"idle", "prepare", "fit", "dump", "meta", "validate", "ok", "rejected", "failed"}
  /\ Len(losses) <= Epochs /\ weights \in 0..Epochs

\* Training looks at readings of the past.
Elapsed(csv) == \A w \in Windows : \A k \in DOMAIN csv : csv[k].at <= w.now

FilesInv ==
  /\ File(payload) /\ File(meta) /\ File(held.payload) /\ File(held.meta)
  /\ entry = NoEntry \/ File(entry)
  /\ Elapsed(job.csv)

ServeInv == TrainInv /\ CountInv /\ FilesInv /\ Sound(forecast)

LEMMA Bounds ==
  /\ MaxJobs \in Nat /\ Epochs \in Nat /\ Epochs > 0
  BY TrainConstants DEF TrainConstants

LEMMA LossLength ==
  ASSUME EpochInv
  PROVE  Len(losses) \in Nat /\ DOMAIN losses = 1..Len(losses) /\ BestEpoch \subseteq 1..Len(losses)
  <1>1. losses \in Seq(Losses \cup {Diverged})
    BY DEF EpochInv, LossInv
  <1>2. Len(losses) \in Nat /\ DOMAIN losses = 1..Len(losses)
    BY <1>1, SeqFacts
  <1> QED
    BY <1>2 DEF BestEpoch, Ranked

\* The counters, the steps of the program and the weights.
LEMMA CountStep ==
  ASSUME EpochInv, CountInv, TrainNext
  PROVE  CountInv'
  <1>0. PICK n \in Nat : n = Len(losses) /\ n <= Epochs /\ BestEpoch \subseteq 1..n
    BY LossLength DEF CountInv
  <1>1. ASSUME NEW csv \in CsvFiles, NEW H \in HorizonSets, NEW tune \in BOOLEAN,
               StartJob(csv, H, tune)
        PROVE  CountInv'
    <2>1. Len(<<>>) = 0
      OBVIOUS
    <2> QED
      BY <1>1, <2>1, Bounds DEF StartJob, CountInv
  <1>2. ASSUME NEW l \in Losses \cup {Diverged}, lstm_epoch(l) PROVE CountInv'
    <2>1. losses \in Seq(Losses \cup {Diverged})
      BY DEF EpochInv, LossInv
    <2>2. Len(Append(losses, l)) = n + 1
      BY <1>0, <2>1
    <2>3. n < Epochs /\ losses' = Append(losses, l) /\ weights' = n + 1 /\ UNCHANGED <<algo, pc, jobs>>
      BY <1>0, <1>2 DEF lstm_epoch
    <2> QED
      BY <2>2, <2>3, Bounds DEF CountInv
  <1>3. CASE lstm_stop
    <2>1. RestoredWeights = weights \/ RestoredWeights \in BestEpoch
      BY DEF RestoredWeights
    <2>2. RestoredWeights \in 0..Epochs
      <3>1. CASE RestoredWeights = weights
        BY <3>1 DEF CountInv
      <3>2. CASE RestoredWeights \in BestEpoch
        <4>1. RestoredWeights \in 1..n
          BY <1>0, <3>2
        <4> QED
          BY <1>0, <4>1, Bounds
      <3> QED
        BY <2>1, <3>1, <3>2
    <2>3. weights' = RestoredWeights /\ pc' = "dump" /\ UNCHANGED <<algo, losses, jobs>>
      BY <1>3 DEF lstm_stop
    <2> QED
      BY <2>2, <2>3 DEF CountInv
  <1>4. CASE joblib_dump \/ write_meta_json \/ validate_artifact_inline \/ Killed
    <2>1. UNCHANGED <<algo, losses, weights, jobs>> /\ pc' \in {"meta", "validate", "ok", "rejected", "failed"}
      BY <1>4 DEF joblib_dump, write_meta_json, validate_artifact_inline, Killed, train
    <2> QED
      BY <2>1 DEF CountInv
  <1>5. CASE \/ prepare_persistence \/ prepare_linear \/ prepare_xgboost \/ prepare_lightgbm
             \/ prepare_prophet \/ prepare_lstm \/ prepare_nbeats
    <2>1. UNCHANGED <<algo, losses, weights, jobs>> /\ pc' \in {"fit", "failed"}
      BY <1>5 DEF prepare_persistence, prepare_linear, prepare_xgboost, prepare_lightgbm,
         prepare_prophet, prepare_lstm, prepare_nbeats, Prepared
    <2> QED
      BY <2>1 DEF CountInv
  <1>6. CASE \/ fit_persistence \/ fit_linear \/ fit_xgboost \/ fit_lightgbm \/ fit_prophet
             \/ fit_nbeats
    <2>1. UNCHANGED <<algo, losses, weights, jobs>> /\ pc' \in {"dump", "failed"}
      BY <1>6 DEF fit_persistence, fit_linear, fit_xgboost, fit_lightgbm, fit_prophet, fit_nbeats,
         Fitted
    <2> QED
      BY <2>1 DEF CountInv
  <1> QED
    BY <1>1, <1>2, <1>3, <1>4, <1>5, <1>6 DEF TrainNext

LEMMA Blank == File(Absent) /\ File(Torn)
  <1>1. /\ Absent.state = "absent" /\ Torn.state = "torn" /\ Absent.until = 0 /\ Torn.until = 0
        /\ Absent.horizons = {} /\ Torn.horizons = {}
    BY DEF Absent, Torn
  <1>2. \A w \in Windows : w.now \in Nat
    BY ServeConstants DEF ServeConstants
  <1> QED
    BY <1>1, <1>2 DEF File

\* Prophet's history ends with a row that it was fitted on.
LEMMA Ends ==
  ASSUME TableInv, PartInv, Elapsed(job.csv), pc \in {"dump", "meta"}
  PROVE  File(Written)
  <1>1. Written.state = "whole" /\ Written.horizons = job.horizons /\ Written.until = HistoryEnds
    BY DEF Written
  <1>2. HistoryEnds \in Int /\ \A w \in Windows : HistoryEnds <= w.now
    <2>1. CASE algo # "prophet"
      BY <2>1, ServeConstants DEF HistoryEnds, ServeConstants
    <2>2. CASE algo = "prophet"
      <3>1. /\ used.fit # {} /\ used.fit \subseteq DOMAIN table
            /\ table \in Seq(Wide(job.horizons)) /\ Ordered(table, job.csv)
            /\ \A i \in DOMAIN table : Dated(table[i], job.csv)
        <4>1. used.fit # {} /\ used.fit \subseteq 1..Len(table)
          BY <2>2 DEF PartInv, Split
        <4>2. Labelled(table, job.horizons, job.csv)
          BY <2>2 DEF TableInv
        <4> QED
          BY <4>1, <4>2, SeqFacts DEF Labelled
      <3>t. PICK n \in Nat : DOMAIN table = 1..n /\ \A i \in 1..n : table[i] \in Wide(job.horizons)
        BY <3>1, SeqFacts
      <3>2. \A i \in 1..n : table[i].at \in Int
        BY <3>t DEF Wide
      <3>3. PICK S : S = {table[i].at : i \in used.fit}
        OBVIOUS
      <3>4. n \in 1..n
        BY <3>t, <3>1, <3>2
      <3>5. PICK b \in Int : b = table[n].at
        BY <3>t, <3>2, <3>4
      <3>6. S \in SUBSET Int /\ S # {}
        BY <3>t, <3>1, <3>2, <3>3
      <3>7. ASSUME NEW k \in S PROVE k <= b
        <4>1. PICK i \in used.fit : k = table[i].at
          BY <3>3
        <4>2. i \in 1..n
          BY <3>t, <3>1, <3>2
        <4>3. CASE i = n
          BY <3>5, <4>1, <4>3
        <4>4. CASE i < n
          BY <3>t, <3>1, <3>2, <3>4, <3>5, <4>1, <4>2, <4>4 DEF Ordered
        <4> QED
          BY <4>2, <4>3, <4>4
      <3>8. \E m \in S : \A k \in S : k <= m
        BY <3>6, <3>7, Highest, Zenon
      <3>9. Latest(S) \in S
        BY <3>8 DEF Latest
      <3>10. PICK i \in used.fit : HistoryEnds = table[i].at
        BY <2>2, <3>3, <3>9 DEF HistoryEnds
      <3>11. PICK k \in DOMAIN job.csv : table[i].at = job.csv[k].at
        BY <3>1, <3>10 DEF Dated
      <3> QED
        BY <3>t, <3>1, <3>2, <3>10, <3>11 DEF Elapsed
    <2> QED
      BY <2>1, <2>2
  <1> QED
    BY <1>1, <1>2 DEF File, TableInv

\* The two files are written by joblib_dump and write_meta_json, and torn by a kill.
LEMMA FilesStep ==
  ASSUME TableInv, PartInv, Elapsed(job.csv), File(payload), File(meta), TrainNext
  PROVE  File(payload)' /\ File(meta)' /\ Elapsed(job.csv)'
  <1>1. File(Torn) /\ (pc \in {"dump", "meta"} => File(Written))
    BY Blank, Ends
  <1>2. ASSUME NEW csv \in CsvFiles, NEW H \in HorizonSets, NEW tune \in BOOLEAN,
               StartJob(csv, H, tune)
        PROVE  UNCHANGED <<payload, meta>> /\ Elapsed(job.csv)'
    <2>1. UNCHANGED <<payload, meta>> /\ job'.csv = csv.rows
      BY <1>2 DEF StartJob, files
    <2>2. Elapsed(csv.rows)
      BY ServeConstants DEF ServeConstants, Elapsed
    <2> QED
      BY <2>1, <2>2 DEF Elapsed
  <1>3. CASE joblib_dump
    <2>1. payload' = Written /\ meta' = meta /\ job' = job /\ pc = "dump"
      BY <1>3 DEF joblib_dump
    <2>2. PICK v : v = Written /\ File(v)
      BY <1>1, <2>1
    <2> QED
      BY <2>1, <2>2 DEF File, Elapsed
  <1>4. CASE write_meta_json
    <2>1. meta' = Written /\ payload' = payload /\ job' = job /\ pc = "meta"
      BY <1>4 DEF write_meta_json
    <2>2. PICK v : v = Written /\ File(v)
      BY <1>1, <2>1
    <2> QED
      BY <2>1, <2>2 DEF File, Elapsed
  <1>5. CASE Killed
    <2>1. payload' \in {payload, Torn} /\ meta' \in {meta, Torn} /\ job' = job
      BY <1>5 DEF Killed
    <2>2. PICK v : v = Torn /\ File(v)
      BY <1>1
    <2> QED
      BY <2>1, <2>2 DEF File, Elapsed
  <1>6. CASE UNCHANGED <<payload, meta>> /\ Elapsed(job.csv)'
    BY <1>6 DEF File
  <1>e. job' = job => Elapsed(job.csv)'
    BY DEF Elapsed
  <1>7. (\E l \in Losses \cup {Diverged} : lstm_epoch(l)) \/ lstm_stop \/ validate_artifact_inline
          => UNCHANGED <<payload, meta>> /\ job' = job
    BY DEF lstm_epoch, lstm_stop, validate_artifact_inline, files
  <1>8. (prepare_persistence \/ prepare_linear \/ prepare_xgboost \/ prepare_lightgbm
          \/ prepare_prophet \/ prepare_lstm \/ prepare_nbeats) => UNCHANGED <<payload, meta>> /\ job' = job
    BY DEF prepare_persistence, prepare_linear, prepare_xgboost, prepare_lightgbm,
       prepare_prophet, prepare_lstm, prepare_nbeats, Prepared, files
  <1>9. fit_persistence \/ fit_linear \/ fit_xgboost \/ fit_lightgbm \/ fit_prophet \/ fit_nbeats
          => UNCHANGED <<payload, meta>> /\ job' = job
    BY DEF fit_persistence, fit_linear, fit_xgboost, fit_lightgbm, fit_prophet, fit_nbeats,
       Fitted, files
  <1>10. joblib_dump \/ write_meta_json \/ Killed \/ (UNCHANGED <<payload, meta>> /\ Elapsed(job.csv)')
    <2>1. (\E csv \in CsvFiles, H \in HorizonSets, tune \in BOOLEAN : StartJob(csv, H, tune))
            => UNCHANGED <<payload, meta>> /\ Elapsed(job.csv)'
      BY <1>2
    <2> QED
      BY <1>7, <1>8, <1>9, <1>e, <2>1 DEF TrainNext
  <1> QED
    BY <1>3, <1>4, <1>5, <1>6, <1>10, Zenon

\* The stand reads what the trainers write, and writes none of it.
LEMMA ServingReads == ServeNext => UNCHANGED trainVars
  <1> SUFFICES ASSUME ServeNext PROVE UNCHANGED trainVars
    OBVIOUS
  <1>1. CASE list_available_models
    BY <1>1 DEF list_available_models
  <1>2. CASE load_model
    BY <1>2 DEF load_model
  <1>3. ASSUME NEW w \in Windows, PredictMulti(w) PROVE UNCHANGED trainVars
    BY <1>3 DEF PredictMulti
  <1>4. ASSUME NEW w \in Windows, run_prediction_cycle(w) PROVE UNCHANGED trainVars
    BY <1>4 DEF run_prediction_cycle
  <1> QED
    BY <1>1, <1>2, <1>3, <1>4 DEF ServeNext

LEMMA TrainingSteps == [Next]_vars => [TrainNext]_trainVars
  BY ServingReads DEF Next, vars

\* The forecast of a predictor, from what it holds.
LEMMA ForecastStep ==
  ASSUME ServeInv, NEW w \in Windows, PredictMulti(w) \/ run_prediction_cycle(w)
  PROVE  Sound(forecast')
  <1>1. PICK v : v = impute_raw_columns(w)
    OBVIOUS
  <1>n. v.now = w.now /\ v.now \in Nat
    BY <1>1, ServeConstants DEF impute_raw_columns, ServeConstants
  <1>2. PICK multi : multi = predict_multi(held, v)
    OBVIOUS
  <1>h. algo \in Trainers /\ File(held.payload) /\ File(held.meta)
    BY DEF ServeInv, CountInv, FilesInv
  <1>u. held.payload.until <= v.now
    BY <1>h, <1>n DEF File
  <1>3. Sound(multi)
    BY <1>2, <1>h, <1>n, <1>u, Served
  <1>4. CASE PredictMulti(w)
    BY <1>1, <1>2, <1>3, <1>4 DEF PredictMulti
  <1>5. CASE run_prediction_cycle(w)
    <2>1. PICK point \in predict(held, v) : forecast' = <<point>>
      BY <1>1, <1>5 DEF run_prediction_cycle
    <2>2. PICK j \in DOMAIN multi : point = multi[j]
      BY <1>2, <2>1 DEF predict, Nearest
    <2>3. point \in Point /\ Timely(point) /\ ("nan" \in point.on => algo = "nbeats")
      BY <1>3, <2>2 DEF Sound
    <2>4. PICK f : f = <<point>>
      OBVIOUS
    <2>5. DOMAIN f = {1} /\ f[1] = point
      BY <2>4
    <2>6. \A i \in DOMAIN f : 1..(i - 1) = {}
      BY <2>5
    <2>7. Sound(f)
      BY <2>3, <2>5, <2>6 DEF Sound
    <2> QED
      BY <2>1, <2>4, <2>7
  <1> QED
    BY <1>4, <1>5

LEMMA ServeStep == ServeInv /\ [Next]_vars => ServeInv'
  <1> SUFFICES ASSUME ServeInv, [Next]_vars PROVE ServeInv'
    OBVIOUS
  <1>1. TrainInv'
    BY TrainStep, TrainingSteps DEF ServeInv
  <1>2. CASE TrainNext /\ UNCHANGED serving
    <2>1. CountInv'
      BY <1>2, CountStep DEF ServeInv, TrainInv
    <2>2. File(payload)' /\ File(meta)' /\ Elapsed(job.csv)'
      BY <1>2, FilesStep DEF ServeInv, TrainInv, FilesInv
    <2>3. entry' = entry /\ held' = held /\ forecast' = forecast
      BY <1>2 DEF serving
    <2>4. FilesInv'
      BY <2>2, <2>3 DEF ServeInv, FilesInv, File, Elapsed
    <2>5. algo' = algo
      BY <1>2 DEF TrainNext, StartJob, prepare_persistence, prepare_linear, prepare_xgboost,
         prepare_lightgbm, prepare_prophet, prepare_lstm, prepare_nbeats, Prepared,
         fit_persistence, fit_linear, fit_xgboost, fit_lightgbm, fit_prophet, fit_nbeats, Fitted,
         lstm_epoch, lstm_stop, joblib_dump, write_meta_json, validate_artifact_inline, Killed
    <2>6. Sound(forecast)'
      BY <2>3, <2>5 DEF ServeInv, Sound, Timely
    <2> QED
      BY <1>1, <2>1, <2>4, <2>6 DEF ServeInv
  <1>3. ASSUME UNCHANGED trainVars, FilesInv', Sound(forecast') PROVE ServeInv'
    <2>1. CountInv'
      BY <1>3 DEF trainVars, train, ServeInv, CountInv
    <2>2. Sound(forecast)'
      BY <1>3 DEF trainVars, Sound, Timely
    <2> QED
      BY <1>1, <1>3, <2>1, <2>2 DEF ServeInv
  <1>f. UNCHANGED trainVars => UNCHANGED <<payload, meta, job>>
    BY DEF trainVars, files
  <1>4. CASE list_available_models
    <2>1. UNCHANGED trainVars /\ UNCHANGED <<held, forecast>> /\ entry' \in {meta, Absent}
      BY <1>4 DEF list_available_models
    <2>2. File(Absent)
      BY Blank
    <2>3. File(entry')
      BY <2>1, <2>2 DEF ServeInv, FilesInv
    <2>4. FilesInv'
      BY <1>f, <2>1, <2>3 DEF ServeInv, FilesInv, File, Elapsed
    <2> QED
      BY <1>3, <2>1, <2>4 DEF ServeInv
  <1>5. CASE load_model
    <2>1. /\ UNCHANGED trainVars /\ forecast' = forecast /\ entry' = NoEntry /\ entry # NoEntry
          /\ held' \in {[payload |-> Absent, meta |-> entry], NoOp, [payload |-> payload, meta |-> entry]}
      BY <1>5 DEF load_model
    <2>2. File(Absent) /\ File(entry) /\ File(payload)
      BY <2>1, Blank DEF ServeInv, FilesInv
    <2>3. File(held'.payload) /\ File(held'.meta)
      BY <2>1, <2>2 DEF NoOp
    <2>4. FilesInv'
      BY <1>f, <2>1, <2>3 DEF ServeInv, FilesInv, File, Elapsed
    <2> QED
      BY <1>3, <2>1, <2>4 DEF ServeInv
  <1>6. ASSUME NEW w \in Windows, PredictMulti(w) \/ run_prediction_cycle(w) PROVE ServeInv'
    <2>1. UNCHANGED trainVars /\ entry' = entry /\ held' = held
      BY <1>6 DEF PredictMulti, run_prediction_cycle
    <2>2. FilesInv'
      BY <1>f, <2>1 DEF ServeInv, FilesInv, File, Elapsed
    <2> QED
      BY <1>3, <1>6, <2>1, <2>2, ForecastStep
  <1>7. CASE UNCHANGED vars
    <2>1. UNCHANGED trainVars /\ entry' = entry /\ held' = held /\ forecast' = forecast
      BY <1>7 DEF vars, serving
    <2>2. FilesInv'
      BY <1>f, <2>1 DEF ServeInv, FilesInv, File, Elapsed
    <2> QED
      BY <1>3, <2>1, <2>2 DEF ServeInv
  <1> QED
    BY <1>2, <1>4, <1>5, <1>6, <1>7 DEF Next, ServeNext

LEMMA ServeStart == Init => ServeInv
  <1> SUFFICES ASSUME Init PROVE ServeInv
    OBVIOUS
  <1>1. TrainInv
    BY TrainStart DEF Init
  <1>2. CountInv
    <2>1. losses = <<>> /\ Len(<<>>) = 0
      BY DEF Init, TrainInit
    <2> QED
      BY <2>1, Bounds DEF Init, TrainInit, CountInv
  <1>3. FilesInv
    BY Blank DEF Init, TrainInit, FilesInv, NoOp, NoJob, Elapsed
  <1>4. Sound(forecast)
    BY DEF Init, Sound
  <1> QED
    BY <1>1, <1>2, <1>3, <1>4 DEF ServeInv

LEMMA Typed == ServeInv => TypeOK
  <1> SUFFICES ASSUME ServeInv PROVE TypeOK
    OBVIOUS
  <1>1. \A i \in DOMAIN table : /\ algo = "persistence" \/ table[i].x # {}
                                /\ algo = "nbeats" \/ \A h \in job.horizons : table[i].y[h] # {}
    BY DEF ServeInv, TrainInv, TableInv, Labelled
  <1>2. PICK n \in Nat : n = Len(table) /\ DOMAIN table = 1..n
    BY TableRows, SeqFacts DEF ServeInv, TrainInv
  <1>3. UNION {used.scale, used.tune, used.fit, used.score} \subseteq DOMAIN table
    BY <1>2 DEF ServeInv, TrainInv, PartInv, Split
  <1>4. \A f \in {payload, meta, held.payload, held.meta} :
          /\ f.state \in {"absent", "torn", "whole"} /\ f.horizons \in HorizonSets \cup {{}}
          /\ f.until \in Int
    BY DEF ServeInv, FilesInv, File, Elapsed
  <1>5. \A i \in DOMAIN forecast :
          forecast[i] \in [h : Nat, made : Nat, for : Int, on : SUBSET {"value", "zero", "nan"}]
    BY DEF ServeInv, Sound, Point
  <1>6. /\ algo \in Trainers /\ jobs \in 0..MaxJobs
        /\ pc \in {"idle", "prepare", "fit", "dump", "meta", "validate", "ok", "rejected", "failed"}
        /\ Len(losses) <= Epochs /\ weights \in 0..Epochs
    BY DEF ServeInv, CountInv
  <1> QED
    BY <1>1, <1>3, <1>4, <1>5, <1>6, Zenon DEF TypeOK

LEMMA Ready == ServeInv => ReadyServes
  <1> DEFINE Fits == algo \in Trees => Missing(meta.schema) = {} /\ payload.schema = meta.schema
  <1> SUFFICES ASSUME ServeInv, NEW w \in Windows, w.rows = "enough",
                      NEW f, f = predict_multi([payload |-> payload, meta |-> meta], impute_raw_columns(w))
               PROVE  /\ Readiness = "ok" /\ payload = meta =>
                           Labels(f) = IF Fits THEN meta.horizons ELSE {}
                      /\ validate_pairs(TRUE) => Labels(f) =
                           IF ~Fits THEN {} ELSE IF algo = "lstm" THEN payload.horizons ELSE meta.horizons
    BY DEF ReadyServes, Labels
  <1>1. PICK v : v = impute_raw_columns(w)
    OBVIOUS
  <1>2. v.rows = "enough" /\ v.now = w.now /\ v.now \in Nat
    BY <1>1, ServeConstants DEF impute_raw_columns, ServeConstants
  <1>3. PICK p : p = [payload |-> payload, meta |-> meta]
    OBVIOUS
  <1>4. p.payload = payload /\ p.meta = meta
    BY <1>3
  <1>5. algo \in Trainers /\ File(p.payload) /\ File(p.meta)
    BY <1>4 DEF ServeInv, CountInv, FilesInv
  <1>u. p.payload.until <= v.now
    BY <1>2, <1>5 DEF File
  <1>g. f = predict_multi(p, v)
    BY <1>1, <1>3
  <1>s. /\ p.meta.state = "whole" /\ p.payload.state = "whole" /\ v.rows = "enough" =>
             Labels(predict_multi(p, v)) =
               IF algo \in Trees
                 THEN IF Missing(p.meta.schema) # {} \/ p.payload.schema # p.meta.schema THEN {}
                      ELSE p.meta.horizons \cap p.payload.horizons
               ELSE IF algo = "lstm" THEN p.payload.horizons ELSE p.meta.horizons
        /\ algo = "persistence" /\ p.meta.state = "whole" =>
             Labels(predict_multi(p, v)) = p.meta.horizons
    BY <1>2, <1>5, <1>u, Served
  <1>6. /\ meta.state = "whole" /\ payload.state = "whole" =>
             Labels(f) =
               IF algo \in Trees
                 THEN IF Missing(meta.schema) # {} \/ payload.schema # meta.schema THEN {}
                      ELSE meta.horizons \cap payload.horizons
               ELSE IF algo = "lstm" THEN payload.horizons ELSE meta.horizons
        /\ algo = "persistence" /\ meta.state = "whole" => Labels(f) = meta.horizons
    BY <1>2, <1>4, <1>g, <1>s
  <1>7. Readiness = "ok" \/ validate_pairs(TRUE) => meta.state = "whole"
    BY DEF Readiness, validate_pairs, validate_artifact_pair
  <1>8. validate_pairs(TRUE) =>
          /\ algo = "persistence" \/ payload.state = "whole"
          /\ algo \in Trees => payload.horizons = meta.horizons
    BY DEF validate_pairs, _maybe_load_model, Trees
  <1>9. (algo \in Trees => algo # "lstm") /\ (algo = "persistence" => algo \notin Trees /\ algo # "lstm")
    BY DEF Trees
  <1>10. PICK hs : hs = Labels(f)
    OBVIOUS
  <1>11. Readiness = "ok" /\ payload = meta => hs = IF Fits THEN meta.horizons ELSE {}
    BY <1>6, <1>7, <1>9, <1>10
  <1>12. validate_pairs(TRUE) =>
           hs = IF ~Fits THEN {} ELSE IF algo = "lstm" THEN payload.horizons ELSE meta.horizons
    BY <1>6, <1>7, <1>8, <1>9, <1>10
  <1> QED
    BY <1>10, <1>11, <1>12

LEMMA ServingInvariant == Spec => []ServeInv
  BY ServeStart, ServeStep, PTL DEF Spec

\* The split, the partitions and what scaling, search, early stop and fit look
\* at: no trainer reports a score on rows that it has fitted or on earlier ones,
\* and no input knows a later reading but by bfill or the median, for every CSV,
\* share of the test, subsample and NaN policy; of labels it says nothing
\* (_common.py 60-123 and 357-416, train_lstm.py 159-174).
THEOREM TestIsHeldOut == Spec => []TestHeldOut
  <1>1. ServeInv => TestHeldOut
    BY HeldOut DEF ServeInv
  <1> QED
    BY <1>1, ServingInvariant, PTL

\* A shift of h * Minute rows reaches h minutes or further in a file that has
\* no time twice, for every CSV and every set of horizons
\* (_common.py 142-147, train_nbeats.py 49-60).
THEOREM LabelsAreReached == Spec => []LabelsReachHorizon
  <1>1. ServeInv => LabelsReachHorizon
    BY Reach DEF ServeInv
  <1> QED
    BY <1>1, ServingInvariant, PTL

\* Whatever the losses, ties and NaN among them, and wherever patience, the
\* number of epochs or the time budget ends it: an LSTM is saved with the
\* weights of its lowest validation loss (train_lstm.py 258-295).
THEOREM BestEpochIsKept == Spec => []BestEpochKept
  <1>1. EpochInv => BestEpochKept
    <2> SUFFICES ASSUME EpochInv, algo = "lstm" /\ Stopped /\ Ranked # {}
                 PROVE  /\ weights \in Ranked /\ \A e \in Ranked : losses[weights] <= losses[e]
                        /\ Len(losses) <= weights + Patience
      BY DEF BestEpochKept, Stopped
    <2> QED
      BY DEF EpochInv, LossInv, BestEpoch
  <1>2. ServeInv => EpochInv
    BY DEF ServeInv, TrainInv
  <1> QED
    BY <1>1, <1>2, ServingInvariant, PTL

\* The rows of every table are labelled and free of NaN where the trainer drops
\* NaN, the partitions are rows of the table, and files and forecasts name
\* horizons that were asked for (_common.py 345-348, loader.py 168-223).
THEOREM ServingTypes == Spec => []TypeOK
  BY Typed, ServingInvariant, PTL

\* Whatever pair of payload and meta.json a predictor got hold of, a number that
\* is labelled h minutes is for h minutes after the last reading, or, of Prophet
\* and N-BEATS, for no later time; the points are in ascending order of the
\* horizons, and only N-BEATS sees a NaN (predictor.py 114-328).
THEOREM ForecastsAreSound == Spec => []ForecastSound
  <1>1. ServeInv => ForecastSound
    BY DEF ServeInv, Sound, Timely, ForecastSound
  <1> QED
    BY <1>1, ServingInvariant, PTL

\* What the readiness summary or validate_model_artifact lets through serves all
\* of its horizons, but for the tree models of a CSV whose columns the readings
\* lack, which serve none (recommender.py 159-201, validate_model_artifact.py
\* 37-131, predictor.py 144-147).
THEOREM ReadyModelsServe == Spec => []ReadyServes
  BY Ready, ServingInvariant, PTL
=============================================================================
