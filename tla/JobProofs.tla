------------------------------ MODULE JobProofs ------------------------------
(***************************************************************************)
(* The invariants of the parts of Background that run on a schedule: the     *)
(* sync of congress trades, the senator alerts, the news alerts.  Each is    *)
(* inductive for any runs, trades, readers and bounds.                       *)
(***************************************************************************)
EXTENDS Background, Filtering, FiniteSetTheorems, WellFoundedInduction, TLAPS

-----------------------------------------------------------------------------
(* The least element of a set of natural numbers.                             *)
LEMMA LeastExists ==
    ASSUME NEW T \in SUBSET Nat, T # {}
    PROVE  \E x \in T : \A y \in T : x <= y
<1> DEFINE R == {ss \in Nat \X Nat : ss[1] < ss[2]}
<1>1. IsWellFoundedOn(R, Nat)
  BY NatLessThanWellFounded DEF OpToRel
<1>2. PICK x \in T : \A y \in T : <<y, x>> \notin R
  <2> HIDE DEF R
  <2> QED
    BY <1>1, WFMin
<1>3. \A y \in T : <<y, x>> \in R <=> y < x
  OBVIOUS
<1> HIDE DEF R
<1>4. x \in Nat /\ \A y \in T : y \in Nat
  OBVIOUS
<1>5. \A y \in T : ~(y < x)
  BY <1>2, <1>3
<1> QED
  BY <1>4, <1>5

(* Induction up to m, for the numbers of a set.                               *)
LEMMA CountUp ==
    ASSUME NEW m \in Nat, NEW T, 0 \in T, \A n \in 0..(m - 1) : n \in T => n + 1 \in T
    PROVE  \A n \in 0..m : n \in T
<1> DEFINE U == {n \in 0..m : n \notin T}
<1> SUFFICES ASSUME U # {} PROVE FALSE
  OBVIOUS
<1>1. PICK x \in U : \A y \in U : x <= y
  <2>1. U \in SUBSET Nat
    OBVIOUS
  <2> HIDE DEF U
  <2> QED
    BY <2>1, LeastExists
<1>2. x \in 1..m /\ x \notin T
  BY <1>1
<1>3. x - 1 \in 0..(m - 1) /\ x - 1 \notin U
  BY <1>1, <1>2
<1>4. x - 1 \in T
  BY <1>2, <1>3
<1> QED
  BY <1>2, <1>3, <1>4

KeptStep(s, S, f, n) ==
    IF n = 0 THEN <<>> ELSE IF s[n] \in S THEN Append(f[n - 1], s[n]) ELSE f[n - 1]

(* The recursion of Kept defines a function.                                  *)
LEMMA KeptDefined ==
    ASSUME NEW s, NEW S, Len(s) \in Nat
    PROVE  \E f : f = [n \in 0..Len(s) |-> KeptStep(s, S, f, n)] /\ Kept(s, S) = f[Len(s)]
<1> DEFINE Upto(f, m) == f = [n \in 0..m |-> KeptStep(s, S, f, n)]
           m == Len(s)
           T == {n \in 0..m : \E f : Upto(f, n)}
<1>1. 0 \in T
  <2> DEFINE f == [n \in 0..0 |-> <<>>]
  <2>1. f = [n \in 0..0 |-> KeptStep(s, S, f, n)]
    BY DEF KeptStep
  <2>2. 0 \in 0..m
    OBVIOUS
  <2> HIDE DEF f
  <2> QED
    BY <2>1, <2>2
<1>2. ASSUME NEW n \in 0..(m - 1), n \in T PROVE n + 1 \in T
  <2>1. PICK f : Upto(f, n)
    BY <1>2
  <2> DEFINE g == [k \in 0..(n + 1) |-> IF k = n + 1 THEN KeptStep(s, S, f, k) ELSE f[k]]
  <2>2. \A k \in 0..n : g[k] = f[k] /\ f[k] = KeptStep(s, S, f, k)
    <3>1. \A k \in 0..n : k \in 0..(n + 1) /\ k # n + 1
      OBVIOUS
    <3>2. \A k \in 0..n : f[k] = KeptStep(s, S, f, k)
      BY <2>1
    <3> QED
      BY <3>1, <3>2
  <2>3. \A k \in 0..(n + 1) : KeptStep(s, S, g, k) = KeptStep(s, S, f, k)
    <3>1. \A k \in 1..(n + 1) : k - 1 \in 0..n
      OBVIOUS
    <3> QED
      BY <2>2, <3>1 DEF KeptStep
  <2>4. \A k \in 0..(n + 1) : g[k] = KeptStep(s, S, g, k)
    <3>1. \A k \in 0..(n + 1) : k \in 0..n \/ k = n + 1
      OBVIOUS
    <3>2. n + 1 \in 0..(n + 1) /\ g[n + 1] = KeptStep(s, S, f, n + 1)
      OBVIOUS
    <3> HIDE DEF g
    <3> QED
      BY <2>2, <2>3, <3>1, <3>2
  <2>5. g = [k \in 0..(n + 1) |-> g[k]]
    OBVIOUS
  <2> HIDE DEF g
  <2>6. g = [k \in 0..(n + 1) |-> KeptStep(s, S, g, k)]
    BY <2>4, <2>5
  <2>7. n + 1 \in 0..m
    OBVIOUS
  <2> QED
    BY <2>6, <2>7
<1>3. m \in T
  <2> HIDE DEF T
  <2>1. \A n \in 0..m : n \in T
    BY <1>1, <1>2, CountUp
  <2> QED
    BY <2>1
<1>4. PICK f : Upto(f, m)
  BY <1>3
<1> DEFINE g == CHOOSE x : Upto(x, m)
<1>5. Upto(g, m)
  BY <1>4
<1>6. Kept(s, S) = g[Len(s)]
  BY Zenon DEF Kept, KeptStep
<1> QED
  BY <1>5, <1>6

(* The first n elements of s that are in S, in their order: h says where in s *)
(* each of those kept was.                                                   *)
KeepsInOrder(s, S, n, kept, h) ==
    /\ h \in [1..Len(kept) -> 1..n]
    /\ \A j \in 1..Len(kept) : kept[j] = s[h[j]]
    /\ \A i, j \in 1..Len(kept) : i < j => h[i] < h[j]
    /\ \A i \in 1..n : s[i] \in S => \E j \in 1..Len(kept) : h[j] = i

(* One more element, not kept or kept.                                        *)
LEMMA PassesOver ==
    ASSUME NEW s, NEW S, NEW n \in Nat, NEW k, Len(k) \in Nat, NEW h,
           KeepsInOrder(s, S, n, k, h), s[n + 1] \notin S
    PROVE  KeepsInOrder(s, S, n + 1, k, h)
BY DEF KeepsInOrder

LEMMA KeepsOne ==
    ASSUME NEW X, NEW s, NEW S, NEW n \in Nat, NEW k \in Seq(X), NEW h, s[n + 1] \in X,
           KeepsInOrder(s, S, n, k, h), s[n + 1] \in S
    PROVE  \E g : KeepsInOrder(s, S, n + 1, Append(k, s[n + 1]), g)
<1> DEFINE l == Len(k) + 1
           g == [j \in 1..l |-> IF j = l THEN n + 1 ELSE h[j]]
           k2 == Append(k, s[n + 1])
<1>1. Len(k2) = l /\ k2[l] = s[n + 1]
      /\ (\A j \in 1..Len(k) : k2[j] = k[j]) /\ Len(k) \in Nat
  OBVIOUS
<1>2. \A j \in 1..l : j \in 1..Len(k) \/ j = l
  BY <1>1
<1>3. h \in [1..Len(k) -> 1..n]
  BY DEF KeepsInOrder
<1>4. g[l] = n + 1 /\ \A j \in 1..Len(k) : g[j] = h[j] /\ j # l /\ g[j] \in 1..n
  BY <1>1, <1>3
<1>5. g \in [1..l -> 1..(n + 1)]
  BY <1>2, <1>3
<1> HIDE DEF g, k2, l
<1>6. \A j \in 1..l : k2[j] = s[g[j]]
  BY <1>1, <1>2, <1>4 DEF KeepsInOrder
<1>7. \A i, j \in 1..l : i < j => g[i] < g[j]
  <2> SUFFICES ASSUME NEW i \in 1..l, NEW j \in 1..l, i < j PROVE g[i] < g[j]
    OBVIOUS
  <2>1. l \in Nat /\ l = Len(k) + 1
    BY <1>1 DEF l
  <2>2. i \in 1..Len(k)
    BY <1>1, <2>1
  <2>3. CASE j = l
    BY <1>4, <2>2, <2>3
  <2>4. CASE j \in 1..Len(k)
    BY <1>4, <2>2, <2>4 DEF KeepsInOrder
  <2> QED
    BY <1>2, <2>3, <2>4
<1>8. \A i \in 1..(n + 1) : s[i] \in S => \E j \in 1..l : g[j] = i
  <2> SUFFICES ASSUME NEW i \in 1..(n + 1), s[i] \in S PROVE \E j \in 1..l : g[j] = i
    OBVIOUS
  <2>1. l \in 1..l /\ \A j \in 1..Len(k) : j \in 1..l
    BY <1>1 DEF l
  <2>2. CASE i = n + 1
    BY <1>4, <2>1, <2>2
  <2>3. CASE i \in 1..n
    BY <1>4, <2>1, <2>3 DEF KeepsInOrder
  <2> QED
    BY <2>2, <2>3
<1>9. KeepsInOrder(s, S, n + 1, k2, g)
  BY <1>1, <1>5, <1>6, <1>7, <1>8 DEF KeepsInOrder
<1> QED
  BY <1>9 DEF k2

(* What Kept returns.                                                        *)
LEMMA KeptInOrder ==
    ASSUME NEW X, NEW s \in Seq(X), NEW S
    PROVE  /\ Kept(s, S) \in Seq(X \cap S)
           /\ \E h : KeepsInOrder(s, S, Len(s), Kept(s, S), h)
<1> DEFINE m == Len(s)
<1>1. m \in Nat
  OBVIOUS
<1>2. PICK f : f = [n \in 0..m |-> KeptStep(s, S, f, n)] /\ Kept(s, S) = f[m]
  BY <1>1, KeptDefined
<1>3. \A n \in 0..m : f[n] = KeptStep(s, S, f, n)
  BY <1>2
<1> DEFINE T == {n \in 0..m : f[n] \in Seq(X \cap S) /\ \E h : KeepsInOrder(s, S, n, f[n], h)}
<1>4. 0 \in T
  <2>1. f[0] = <<>> /\ 0 \in 0..m
    BY <1>1, <1>3 DEF KeptStep
  <2>2. <<>> \in Seq(X \cap S)
    OBVIOUS
  <2>3. KeepsInOrder(s, S, 0, <<>>, <<>>)
    BY DEF KeepsInOrder
  <2>4. \E h : KeepsInOrder(s, S, 0, f[0], h)
    BY <2>1, <2>3, Zenon
  <2> QED
    BY <2>1, <2>2, <2>4
<1>5. ASSUME NEW n \in 0..(m - 1), n \in T PROVE n + 1 \in T
  <2>1. f[n] \in Seq(X \cap S)
    BY <1>5
  <2>2. PICK h : KeepsInOrder(s, S, n, f[n], h)
    BY <1>5
  <2>3. n \in Nat /\ n + 1 \in 0..m /\ n + 1 # 0 /\ (n + 1) - 1 = n /\ s[n + 1] \in X
    OBVIOUS
  <2>4. f[n + 1] = IF s[n + 1] \in S THEN Append(f[n], s[n + 1]) ELSE f[n]
    BY <1>3, <2>3 DEF KeptStep
  <2>5. CASE s[n + 1] \notin S
    <3>1. KeepsInOrder(s, S, n + 1, f[n], h)
      BY <2>1, <2>2, <2>3, <2>5, PassesOver
    <3> QED
      BY <2>1, <2>3, <2>4, <2>5, <3>1
  <2>6. CASE s[n + 1] \in S
    <3>1. \E g : KeepsInOrder(s, S, n + 1, Append(f[n], s[n + 1]), g)
      BY <2>1, <2>2, <2>3, <2>6, KeepsOne
    <3>2. Append(f[n], s[n + 1]) \in Seq(X \cap S)
      BY <2>1, <2>3, <2>6
    <3> QED
      BY <2>3, <2>4, <2>6, <3>1, <3>2
  <2> QED
    BY <2>5, <2>6
<1>6. m \in T
  <2> HIDE DEF T, m
  <2>1. \A n \in 0..m : n \in T
    BY <1>1, <1>4, <1>5, CountUp
  <2> QED
    BY <1>1, <2>1
<1> QED
  BY <1>2, <1>6
-----------------------------------------------------------------------------
(* The parts' operators on sequences and sets are the ones above and those    *)
(* the library's facts are about.                                            *)
LEMMA SameKept == \A s, S : Sync!Kept(s, S) = Kept(s, S) /\ News!Kept(s, S) = Kept(s, S)
BY Zenon DEF Sync!Kept, News!Kept, Kept

LEMMA SameCardinality ==
    \A S : Sync!Cardinality(S) = Cardinality(S) /\ Senators!Cardinality(S) = Cardinality(S)
BY Zenon DEF Sync!Cardinality, Senators!Cardinality, Cardinality

(* A finite set has a sequence of its elements, each once.                    *)
EachOnce(s, S) == s \in Seq(S) /\ \A i, j \in DOMAIN s : s[i] = s[j] => i = j

LEMMA SetToSeqEachOnce ==
    ASSUME NEW S, IsFiniteSet(S)
    PROVE  EachOnce(Senators!SetToSeq(S), S) /\ EachOnce(News!SetToSeq(S), S)
<1> DEFINE n == Cardinality(S)
           s == Senators!SetToSeq(S)
<1>1. n \in Nat /\ ExistsBijection(1..n, S)
  BY FS_CardinalityType
<1>2. \E f \in [1..n -> S] : Senators!IsInjective(f)
  BY <1>1 DEF ExistsBijection, Bijection, Injection, IsInjective, Senators!IsInjective
<1>3. s = CHOOSE f \in [1..n -> S] : Senators!IsInjective(f)
  BY SameCardinality, Zenon DEF Senators!SetToSeq
<1>4. s \in [1..n -> S] /\ Senators!IsInjective(s)
  BY <1>2, <1>3, Zenon
<1>5. News!SetToSeq(S) = s
  BY Zenon DEF News!SetToSeq, Senators!SetToSeq, News!Cardinality, Senators!Cardinality,
     News!IsInjective, Senators!IsInjective
<1> HIDE DEF n, s
<1>6. EachOnce(s, S)
  BY <1>1, <1>4 DEF Senators!IsInjective, EachOnce
<1> QED
  BY <1>5, <1>6 DEF s
-----------------------------------------------------------------------------
(* The bounds the proofs take for granted. *)
SyncBounds == /\ PageSize \in Nat \ {0} /\ MaxPages \in Nat \ {0}
              /\ MaxListed \in Nat /\ MaxChanges \in Nat

SyncStoring == {"check", "insert", "update"}

(* A run has the fields of a run, and trades in hand while it stores.         *)
SyncRunStates == [st : Sync!Steps \cup {"idle"}, page : 0..(MaxPages - 1),
                  got : Seq({item \in Sync!Items : Sync!Readable(item)}),
                  counted : SUBSET (TradeIds \cup {NoId}), due : SUBSET Sync!Items,
                  cut : BOOLEAN, alone : BOOLEAN]

SyncRunTyped ==
    /\ run \in [Runs -> SyncRunStates]
    /\ \A r \in Runs : run[r].st \in SyncStoring => run[r].got # <<>>
    /\ \A r \in Runs : ~Sync!Working(r) => run[r].got = <<>>

(* Ids are handed out in turn, and there is one row per trade.                *)
SyncTable ==
    /\ trades \subseteq Sync!Rows /\ IsFiniteSet(trades)
    /\ \A t \in trades : t.id \in 1..Cardinality(trades)
    /\ \A t, u \in trades : t.id = u.id \/ (t.fid # NoId /\ t.fid = u.fid) => t = u

(* A trade is listed once; what a run owes still is, as it was or corrected.  *)
SyncListing ==
    /\ chamber \in {"senate", "house"} /\ changes \in 0..MaxChanges
    /\ listed \in Seq(Sync!Items) /\ Len(listed) <= MaxListed
    /\ \A i, j \in DOMAIN listed : listed[i].fid = listed[j].fid => i = j
    /\ \A r \in Runs : \A d \in run[r].due :
          /\ Sync!Readable(d)
          /\ \E i \in DOMAIN listed : listed[i].fid = d.fid /\ listed[i].kind = d.kind
                                      /\ listed[i].ver >= d.ver

(* A counted trade has a row, and one about to be updated too.                *)
SyncHasRow(T, f) == \E t \in T : t.fid = f

SyncCounting ==
    /\ \A r \in Runs : \A f \in run[r].counted \ {NoId} : SyncHasRow(trades, f)
    /\ \A r \in Runs : run[r].st \in {"check", "update"} => Sync!Item(r).fid # NoId
    /\ \A r \in Runs : run[r].st = "update" => SyncHasRow(trades, Sync!Item(r).fid)

(* A run that is alone is the only one working: nobody inserts what it is     *)
(* about to, and what anybody has fetched is no older than what it owes.      *)
SyncAlone ==
    \A r \in Runs : run[r].alone =>
        /\ Sync!Working(r) => \A q \in Runs : Sync!Working(q) => q = r
        /\ run[r].st = "insert" /\ Sync!Item(r).fid # NoId => ~SyncHasRow(trades,
               Sync!Item(r).fid)
        /\ \A q \in Runs : \A i \in DOMAIN run[q].got : \A d \in run[r].due :
              run[q].got[i].fid = d.fid => run[q].got[i].ver >= d.ver

(* What a run owes is in hand, or still to be fetched, or stored.             *)
SyncInHand(r, d) == \E i \in DOMAIN run[r].got : run[r].got[i].fid = d.fid
SyncToFetch(r, d) ==
    \E i \in DOMAIN listed : i > run[r].page * PageSize /\ listed[i].fid = d.fid
SyncStored(r, d) == \E t \in trades : t.fid = d.fid /\ (run[r].alone => t.ver >= d.ver)

SyncOwing ==
    \A r \in Runs : \A d \in run[r].due : d.fid # NoId =>
        /\ run[r].st = "fetch" => SyncInHand(r, d) \/ SyncToFetch(r, d)
        /\ run[r].st \in {"find", "ended"} \cup SyncStoring /\ ~run[r].cut =>
              SyncInHand(r, d) \/ SyncStored(r, d)

SyncInv == SyncRunTyped /\ SyncTable /\ SyncListing /\ SyncCounting /\ SyncAlone /\ SyncOwing
-----------------------------------------------------------------------------
SyncBusy == {"fetch", "find"} \cup SyncStoring

LEMMA SyncWorkingIsBusy == ASSUME NEW r \in Runs PROVE Sync!Working(r) <=> run[r].st \in SyncBusy
BY DEF Sync!Working, SyncBusy, SyncStoring

(* A run's fields. *)
LEMMA SyncRunFields ==
    ASSUME SyncRunTyped, SyncBounds, NEW r \in Runs
    PROVE  /\ run[r] \in SyncRunStates
           /\ run[r].st \in Sync!Steps \cup {"idle"} /\ run[r].page \in 0..(MaxPages - 1)
           /\ run[r].page \in Nat
           /\ run[r].got \in Seq({item \in Sync!Items : Sync!Readable(item)})
           /\ run[r].counted \subseteq TradeIds \cup {NoId} /\ run[r].due \subseteq Sync!Items
           /\ run[r].cut \in BOOLEAN /\ run[r].alone \in BOOLEAN
<1> DEFINE G == Seq({item \in Sync!Items : Sync!Readable(item)})
<1>1. run[r] \in SyncRunStates
  BY DEF SyncRunTyped
<1>2. SyncRunStates = [st : Sync!Steps \cup {"idle"}, page : 0..(MaxPages - 1), got : G,
                       counted : SUBSET (TradeIds \cup {NoId}), due : SUBSET Sync!Items,
                       cut : BOOLEAN, alone : BOOLEAN]
  BY DEF SyncRunStates
<1>3. 0..(MaxPages - 1) \subseteq Nat
  BY DEF SyncBounds
<1> HIDE DEF G
<1>4. /\ run[r].st \in Sync!Steps \cup {"idle"} /\ run[r].page \in 0..(MaxPages - 1)
      /\ run[r].got \in G
      /\ run[r].counted \subseteq TradeIds \cup {NoId} /\ run[r].due \subseteq Sync!Items
      /\ run[r].cut \in BOOLEAN /\ run[r].alone \in BOOLEAN
  BY <1>1, <1>2
<1> QED
  BY <1>1, <1>3, <1>4 DEF G

(* A trade listed is no older than what any run owes of it.                   *)
LEMMA SyncListedNewer ==
    ASSUME SyncListing, NEW i \in DOMAIN listed, NEW r \in Runs, NEW d \in run[r].due,
           listed[i].fid = d.fid
    PROVE  listed[i].ver >= d.ver /\ listed[i].kind = d.kind
BY DEF SyncListing

(* What may replace the table of trades: rows are kept, for the runs that owe *)
(* their trades no older than they were.                                     *)
SyncKeeping ==
    /\ SyncTable'
    /\ \A f : SyncHasRow(trades, f) => SyncHasRow(trades', f)
    /\ \A q \in Runs : \A d \in run[q].due : d.fid # NoId /\ SyncStored(q, d) =>
          \E t \in trades' : t.fid = d.fid /\ (run[q].alone => t.ver >= d.ver)

LEMMA SyncSameTableKept == ASSUME SyncTable, UNCHANGED <<trades>> PROVE SyncKeeping
BY DEF SyncKeeping, SyncTable, SyncHasRow, SyncStored

(* A step of a working run, to the state s.                                   *)
SyncStepTo(r, s) ==
    /\ run' = [run EXCEPT ![r] = s] /\ s \in SyncRunStates
    /\ UNCHANGED <<chamber, listed, changes>>
    /\ s.st \in SyncStoring => s.got # <<>>
    /\ s.st \notin SyncBusy => s.got = <<>>
    /\ s.alone => run[r].alone \/ (s.due = {} /\ s.st \notin SyncBusy)
    /\ s.due \subseteq run[r].due
    /\ \A i \in DOMAIN s.got : \/ \E j \in DOMAIN run[r].got : run[r].got[j] = s.got[i]
                               \/ \E j \in DOMAIN listed : listed[j] = s.got[i]

(* What it must be true of s besides.                                         *)
SyncSound(s) ==
    /\ \A f \in s.counted \ {NoId} : SyncHasRow(trades', f)
    /\ s.st \in {"check", "update"} => Head(s.got).fid # NoId
    /\ s.st = "update" => SyncHasRow(trades', Head(s.got).fid)
    /\ s.alone /\ s.st = "insert" /\ Head(s.got).fid # NoId => ~SyncHasRow(trades',
           Head(s.got).fid)

SyncOwes(s) ==
    \A d \in s.due : d.fid # NoId =>
        LET inHand == \E i \in DOMAIN s.got : s.got[i].fid = d.fid
        IN  /\ s.st = "fetch" =>
                  inHand \/ \E i \in DOMAIN listed : i > s.page * PageSize
                         /\ listed[i].fid = d.fid
            /\ s.st \in {"find", "ended"} \cup SyncStoring /\ ~s.cut =>
                  inHand \/ \E t \in trades' : t.fid = d.fid /\ (s.alone => t.ver >= d.ver)

LEMMA SyncStepKeeps ==
    ASSUME SyncInv, NEW r \in Runs, Sync!Working(r), NEW s, SyncStepTo(r, s), SyncKeeping,
           SyncSound(s), SyncOwes(s)
    PROVE  SyncInv'
<1>1. /\ run'[r] = s /\ \A q \in Runs \ {r} : run'[q] = run[q]
      /\ \A q \in Runs : run[q] \in SyncRunStates
  BY DEF SyncInv, SyncRunTyped, SyncStepTo
<1>2. \A q \in Runs \ {r} : Sync!Working(q)' <=> Sync!Working(q)
  BY <1>1 DEF Sync!Working
<1>3. Sync!Working(r)' <=> s.st \in SyncBusy
  BY <1>1 DEF Sync!Working, SyncBusy, SyncStoring
<1>4. \A item \in Sync!Items : Sync!Readable(item)' <=> Sync!Readable(item)
  BY DEF SyncStepTo, Sync!Readable
<1>5. SyncRunTyped'
  <2>1. run' \in [Runs -> SyncRunStates]
    BY DEF SyncStepTo, SyncInv, SyncRunTyped
  <2>2. SyncRunStates' = SyncRunStates
    BY <1>4 DEF SyncRunStates
  <2>3. \A q \in Runs : run'[q].st \in SyncStoring => run'[q].got # <<>>
    BY <1>1 DEF SyncStepTo, SyncInv, SyncRunTyped
  <2>4. \A q \in Runs : ~Sync!Working(q)' => run'[q].got = <<>>
    BY <1>1, <1>2, <1>3 DEF SyncStepTo, SyncInv, SyncRunTyped
  <2> QED
    BY <2>1, <2>2, <2>3, <2>4 DEF SyncRunTyped
<1>6. SyncTable'
  BY DEF SyncKeeping
<1>7. \A q \in Runs : run'[q].due \subseteq run[q].due
  BY <1>1 DEF SyncStepTo
<1>8. SyncListing'
  <2>1. \A q \in Runs : \A d \in run[q].due : d \in Sync!Items /\ Sync!Readable(d)
    BY <1>1 DEF SyncRunStates, SyncInv, SyncListing
  <2>2. \A q \in Runs : \A d \in run'[q].due : Sync!Readable(d)'
    BY <1>4, <1>7, <2>1
  <2>3. \A q \in Runs : \A d \in run'[q].due :
           \E i \in DOMAIN listed : listed[i].fid = d.fid /\ listed[i].kind = d.kind
                                    /\ listed[i].ver >= d.ver
    BY <1>7 DEF SyncInv, SyncListing
  <2> QED
    BY <2>2, <2>3 DEF SyncInv, SyncListing, SyncStepTo
<1>9. SyncCounting'
  <2>1. \A f : SyncHasRow(trades, f) => SyncHasRow(trades', f)
    BY DEF SyncKeeping
  <2>2. /\ \A f \in s.counted \ {NoId} : SyncHasRow(trades', f)
        /\ s.st \in {"check", "update"} => Head(s.got).fid # NoId
        /\ s.st = "update" => SyncHasRow(trades', Head(s.got).fid)
    BY DEF SyncSound
  <2>3. \A q \in Runs : \A f \in run'[q].counted \ {NoId} : SyncHasRow(trades', f)
    BY <1>1, <2>1, <2>2 DEF SyncInv, SyncCounting
  <2>4. \A q \in Runs : run'[q].st \in {"check", "update"} => Head(run'[q].got).fid # NoId
    BY <1>1, <2>2 DEF SyncInv, SyncCounting, Sync!Item
  <2>5. ASSUME NEW q \in Runs, run'[q].st = "update" PROVE SyncHasRow(trades',
         Head(run'[q].got).fid)
    <3>1. CASE q = r
      BY <1>1, <2>2, <2>5, <3>1 DEF SyncHasRow
    <3>2. CASE q # r
      <4>1. run'[q] = run[q] /\ SyncHasRow(trades, Sync!Item(q).fid)
        BY <1>1, <2>5, <3>2 DEF SyncInv, SyncCounting
      <4> QED
        BY <2>1, <4>1 DEF SyncHasRow, Sync!Item
    <3> QED
      BY <3>1, <3>2
  <2> QED
    BY <2>3, <2>4, <2>5 DEF SyncCounting, Sync!Item, SyncHasRow
<1>10. SyncAlone'
  <2> SUFFICES ASSUME NEW q \in Runs, run'[q].alone
               PROVE  /\ Sync!Working(q)' => \A p \in Runs : Sync!Working(p)' => p = q
                      /\ run'[q].st = "insert" /\ Head(run'[q].got).fid # NoId =>
                            ~SyncHasRow(trades', Head(run'[q].got).fid)
                      /\ \A p \in Runs : \A i \in DOMAIN run'[p].got : \A d \in run'[q].due :
                            run'[p].got[i].fid = d.fid => run'[p].got[i].ver >= d.ver
    BY DEF SyncAlone, Sync!Item, SyncHasRow
  <2>1. run[q].alone \/ (run'[q].due = {} /\ ~Sync!Working(q)')
    BY <1>1, <1>3 DEF SyncStepTo
  <2>2. Sync!Working(q)' => Sync!Working(q) /\ run[q].alone
    BY <1>2, <2>1
  <2>3. Sync!Working(q)' => \A p \in Runs : Sync!Working(p)' => p = q
    BY <1>2, <2>2 DEF SyncInv, SyncAlone
  <2>4. run'[q].st = "insert" => q = r
    <3>1. run'[q].st = "insert" => Sync!Working(q)'
      BY DEF Sync!Working
    <3> QED
      BY <2>2, <3>1 DEF SyncInv, SyncAlone
  <2>5. run'[q].st = "insert" /\ Head(run'[q].got).fid # NoId =>
           ~SyncHasRow(trades', Head(run'[q].got).fid)
    BY <1>1, <2>4 DEF SyncSound, SyncHasRow
  <2>6. ASSUME NEW p \in Runs, NEW i \in DOMAIN run'[p].got, NEW d \in run'[q].due,
               run'[p].got[i].fid = d.fid
        PROVE  run'[p].got[i].ver >= d.ver
    <3>1. run[q].alone /\ d \in run[q].due
      BY <1>7, <2>1
    <3>2. \/ \E j \in DOMAIN run[p].got : run[p].got[j] = run'[p].got[i]
          \/ \E j \in DOMAIN listed : listed[j] = run'[p].got[i]
      BY <1>1 DEF SyncStepTo
    <3>3. CASE \E j \in DOMAIN run[p].got : run[p].got[j] = run'[p].got[i]
      BY <2>6, <3>1, <3>3 DEF SyncInv, SyncAlone
    <3>4. CASE \E j \in DOMAIN listed : listed[j] = run'[p].got[i]
      BY <2>6, <3>1, <3>4, SyncListedNewer DEF SyncInv
    <3> QED
      BY <3>2, <3>3, <3>4
  <2> QED
    BY <2>3, <2>5, <2>6
<1>11. SyncOwing'
  <2>1. ASSUME NEW q \in Runs, q # r, NEW d \in run'[q].due, d.fid # NoId
        PROVE  /\ run'[q].st = "fetch" => SyncInHand(q, d)' \/ SyncToFetch(q, d)'
               /\ run'[q].st \in {"find", "ended"} \cup SyncStoring /\ ~run'[q].cut =>
                     SyncInHand(q, d)' \/ SyncStored(q, d)'
    <3>1. run'[q] = run[q] /\ listed' = listed
      BY <1>1, <2>1 DEF SyncStepTo
    <3>2. /\ run[q].st = "fetch" => SyncInHand(q, d) \/ SyncToFetch(q, d)
          /\ run[q].st \in {"find", "ended"} \cup SyncStoring /\ ~run[q].cut =>
                SyncInHand(q, d) \/ SyncStored(q, d)
      BY <2>1, <3>1 DEF SyncInv, SyncOwing
    <3>3. SyncInHand(q, d)' <=> SyncInHand(q, d)
      BY <3>1 DEF SyncInHand
    <3>4. SyncToFetch(q, d)' <=> SyncToFetch(q, d)
      BY <3>1 DEF SyncToFetch
    <3>5. SyncStored(q, d) => SyncStored(q, d)'
      BY <2>1, <3>1 DEF SyncKeeping, SyncStored
    <3> QED
      BY <3>1, <3>2, <3>3, <3>4, <3>5
  <2>2. ASSUME NEW d \in run'[r].due, d.fid # NoId
        PROVE  /\ run'[r].st = "fetch" => SyncInHand(r, d)' \/ SyncToFetch(r, d)'
               /\ run'[r].st \in {"find", "ended"} \cup SyncStoring /\ ~run'[r].cut =>
                     SyncInHand(r, d)' \/ SyncStored(r, d)'
    <3>1. run'[r] = s /\ listed' = listed
      BY <1>1 DEF SyncStepTo
    <3> QED
      BY <2>2, <3>1 DEF SyncOwes, SyncInHand, SyncToFetch, SyncStored
  <2> QED
    BY <2>1, <2>2 DEF SyncOwing
<1> QED
  BY <1>5, <1>6, <1>8, <1>9, <1>10, <1>11 DEF SyncInv
-----------------------------------------------------------------------------
(* The provider's list: trades move down and are corrected, none is dropped.  *)
LEMMA SyncListedKeeps ==
    ASSUME SyncInv, SyncBounds, UNCHANGED <<chamber, trades, run>>, changes < MaxChanges,
           changes' = changes + 1,
           listed' \in Seq(Sync!Items), Len(listed') <= MaxListed,
           \A i, j \in DOMAIN listed' : listed'[i].fid = listed'[j].fid => i = j,
           \A i \in DOMAIN listed : \E j \in DOMAIN listed' :
              /\ j >= i /\ listed'[j].fid = listed[i].fid /\ listed'[j].kind = listed[i].kind
              /\ listed'[j].ver >= listed[i].ver
    PROVE  SyncInv'
<1>1. SyncRunTyped' /\ SyncTable' /\ SyncCounting' /\ SyncAlone'
  BY DEF SyncInv, SyncRunTyped, SyncRunStates, Sync!Readable, Sync!Working, SyncTable,
         SyncCounting, Sync!Item, SyncHasRow, SyncAlone
<1>2. SyncListing'
  <2>1. changes' \in 0..MaxChanges
    BY DEF SyncInv, SyncListing, SyncBounds
  <2>2. ASSUME NEW r \in Runs, NEW d \in run[r].due
        PROVE  /\ Sync!Readable(d)'
               /\ \E j \in DOMAIN listed' : listed'[j].fid = d.fid /\ listed'[j].kind = d.kind
                                            /\ listed'[j].ver >= d.ver
    <3>1. PICK i \in DOMAIN listed : listed[i].fid = d.fid /\ listed[i].kind = d.kind
                                     /\ listed[i].ver >= d.ver
      BY DEF SyncInv, SyncListing
    <3>2. PICK j \in DOMAIN listed' :
             /\ listed'[j].fid = listed[i].fid /\ listed'[j].kind = listed[i].kind
             /\ listed'[j].ver >= listed[i].ver
      OBVIOUS
    <3>3. listed[i] \in Sync!Items /\ listed'[j] \in Sync!Items /\ d \in Sync!Items
      <4>1. d \in Sync!Items
        BY SyncRunFields DEF SyncInv
      <4>2. listed \in Seq(Sync!Items)
        BY DEF SyncInv, SyncListing
      <4> QED
        BY <4>1, <4>2
    <3>4. listed'[j].ver >= d.ver
      BY <3>1, <3>2, <3>3 DEF Sync!Items
    <3> QED
      BY <3>1, <3>2, <3>4 DEF SyncInv, SyncListing, Sync!Readable
  <2> QED
    BY <2>1, <2>2 DEF SyncInv, SyncListing
<1>3. SyncOwing'
  <2>1. ASSUME NEW r \in Runs, NEW d \in run[r].due, SyncToFetch(r, d) PROVE SyncToFetch(r, d)'
    <3>1. PICK i \in DOMAIN listed : i > run[r].page * PageSize /\ listed[i].fid = d.fid
      BY <2>1 DEF SyncToFetch
    <3>2. PICK j \in DOMAIN listed' : j >= i /\ listed'[j].fid = listed[i].fid
      OBVIOUS
    <3>3. i \in Nat /\ j \in Nat /\ run[r].page * PageSize \in Nat
      <4>1. i \in Nat /\ j \in Nat
        BY DEF SyncInv, SyncListing
      <4>2. run[r].page \in Nat
        BY SyncRunFields DEF SyncInv
      <4> QED
        BY <4>1, <4>2 DEF SyncBounds
    <3>4. j > run[r].page * PageSize
      BY <3>1, <3>2, <3>3
    <3> QED
      BY <3>1, <3>2, <3>4 DEF SyncToFetch
  <2>2. \A r \in Runs : \A d \in run[r].due :
           (SyncInHand(r, d)' <=> SyncInHand(r, d)) /\ (SyncStored(r, d)' <=> SyncStored(r, d))
    BY DEF SyncInHand, SyncStored
  <2> QED
    BY <2>1, <2>2 DEF SyncInv, SyncOwing
<1> QED
  BY <1>1, <1>2, <1>3 DEF SyncInv

LEMMA SyncPublishKeeps == ASSUME SyncInv, SyncBounds, Sync!Publish PROVE SyncInv'
<1>1. PICK item \in Sync!Items : /\ \A i \in DOMAIN listed : listed[i].fid # item.fid
                                 /\ listed' = <<item>> \o listed
  BY DEF Sync!Publish
<1>2. listed \in Seq(Sync!Items) /\ Len(listed) < MaxListed
  BY DEF Sync!Publish, SyncInv, SyncListing
<1>3. /\ listed' \in Seq(Sync!Items) /\ Len(listed') = Len(listed) + 1
      /\ listed'[1] = item /\ \A i \in DOMAIN listed : listed'[i + 1] = listed[i]
  BY <1>1, <1>2
<1>4. \A i, j \in DOMAIN listed' : listed'[i].fid = listed'[j].fid => i = j
  <2>1. \A i \in DOMAIN listed' : i = 1 \/ (i - 1 \in DOMAIN listed /\ listed'[i] = listed[i - 1])
    BY <1>2, <1>3
  <2> QED
    BY <1>1, <1>2, <1>3, <2>1 DEF SyncInv, SyncListing
<1>5. ASSUME NEW i \in DOMAIN listed
      PROVE  \E j \in DOMAIN listed' :
                /\ j >= i /\ listed'[j].fid = listed[i].fid /\ listed'[j].kind = listed[i].kind
                /\ listed'[j].ver >= listed[i].ver
  <2>1. i + 1 \in DOMAIN listed' /\ i + 1 >= i /\ listed'[i + 1] = listed[i]
         /\ listed[i] \in Sync!Items
    BY <1>2, <1>3
  <2>2. listed[i].ver >= listed[i].ver
    BY <2>1 DEF Sync!Items
  <2> QED
    BY <2>1, <2>2
<1>6. Len(listed') <= MaxListed
  BY <1>2, <1>3 DEF SyncBounds
<1>7. UNCHANGED <<chamber, trades, run>> /\ changes < MaxChanges /\ changes' = changes + 1
  BY DEF Sync!Publish
<1> QED
  BY <1>3, <1>4, <1>5, <1>6, <1>7, SyncListedKeeps

LEMMA SyncCorrectKeeps == ASSUME SyncInv, SyncBounds, Sync!Correct PROVE SyncInv'
<1>1. PICK i \in DOMAIN listed : listed' = [listed EXCEPT ![i].ver = 1]
  BY DEF Sync!Correct
<1>2. listed \in Seq(Sync!Items) /\ \A j \in DOMAIN listed : listed[j] \in Sync!Items
  BY DEF SyncInv, SyncListing
<1>3. [listed[i] EXCEPT !.ver = 1] \in Sync!Items
  BY <1>2 DEF Sync!Items
<1>4. /\ listed' \in Seq(Sync!Items) /\ Len(listed') = Len(listed)
       /\ DOMAIN listed' = DOMAIN listed
      /\ \A j \in DOMAIN listed : listed'[j] = IF j = i THEN [listed[i] EXCEPT !.ver = 1]
                                               ELSE listed[j]
  BY <1>1, <1>2, <1>3
<1>5. \A j \in DOMAIN listed : listed'[j].fid = listed[j].fid /\ listed'[j].kind = listed[j].kind
                               /\ listed'[j].ver >= listed[j].ver
  BY <1>2, <1>4 DEF Sync!Items
<1>6. \A j, k \in DOMAIN listed' : listed'[j].fid = listed'[k].fid => j = k
  BY <1>4, <1>5 DEF SyncInv, SyncListing
<1>7. \A j \in DOMAIN listed : \E k \in DOMAIN listed' :
         /\ k >= j /\ listed'[k].fid = listed[j].fid /\ listed'[k].kind = listed[j].kind
         /\ listed'[k].ver >= listed[j].ver
  <2>1. \A j \in DOMAIN listed : j >= j
    BY <1>2
  <2> QED
    BY <1>4, <1>5, <2>1
<1>8. Len(listed') <= MaxListed
  BY <1>4 DEF SyncInv, SyncListing
<1> QED
  BY <1>4, <1>6, <1>7, <1>8, SyncListedKeeps DEF Sync!Correct
-----------------------------------------------------------------------------
(* Readings of the pages. *)
LEMMA SyncPageListed ==
    ASSUME SyncListing, SyncBounds, NEW p \in Nat
    PROVE  /\ p * PageSize \in Nat /\ (p + 1) * PageSize = p * PageSize + PageSize
           /\ Sync!Page(p) \in Seq(Sync!Items)
           /\ \A j \in DOMAIN Sync!Page(p) : \E i \in DOMAIN listed : Sync!Page(p)[j] = listed[i]
           /\ \A i \in DOMAIN listed :
                 p * PageSize < i /\ i <= (p + 1) * PageSize =>
                    \E j \in DOMAIN Sync!Page(p) : Sync!Page(p)[j] = listed[i]
<1> DEFINE b == p * PageSize
           e == (p + 1) * PageSize
           n == IF e <= Len(listed) THEN e ELSE Len(listed)
<1>1. b \in Nat /\ e = b + PageSize /\ PageSize \in Nat
  BY DEF SyncBounds
<1>2. listed \in Seq(Sync!Items) /\ Len(listed) \in Nat
  BY DEF SyncListing
<1>3. Sync!Page(p) = SubSeq(listed, b + 1, n)
  BY DEF Sync!Page
<1> HIDE DEF b, e
<1>4. n \in Nat /\ n <= Len(listed) /\ n <= e
  BY <1>1, <1>2
<1>5. \A i \in DOMAIN listed : i <= e => i <= n
  BY <1>1, <1>2
<1> HIDE DEF n
<1>6. /\ Sync!Page(p) \in Seq(Sync!Items)
      /\ Len(Sync!Page(p)) = IF b + 1 <= n THEN n - b ELSE 0
      /\ \A j \in DOMAIN Sync!Page(p) : Sync!Page(p)[j] = listed[b + j] /\ b + j \in DOMAIN listed
  BY <1>1, <1>2, <1>3, <1>4
<1>7. ASSUME NEW i \in DOMAIN listed, b < i, i <= e
      PROVE  \E j \in DOMAIN Sync!Page(p) : Sync!Page(p)[j] = listed[i]
  <2>1. i <= n /\ i - b \in DOMAIN Sync!Page(p) /\ b + (i - b) = i
    BY <1>1, <1>2, <1>4, <1>5, <1>6, <1>7
  <2> QED
    BY <1>6, <2>1
<1> QED
  BY <1>1, <1>6, <1>7 DEF b, e

(* A page as mapped holds trades listed, and those of the page it can read.   *)
LEMMA SyncMappedListed ==
    ASSUME SyncListing, SyncBounds, NEW p \in Nat
    PROVE  /\ Sync!MappedPage(p) \in Seq({item \in Sync!Items : Sync!Readable(item)})
           /\ \A j \in DOMAIN Sync!MappedPage(p) : \E i \in DOMAIN listed
                  : Sync!MappedPage(p)[j] = listed[i]
           /\ \A i \in DOMAIN listed :
                 p * PageSize < i /\ i <= (p + 1) * PageSize /\ Sync!Readable(listed[i]) =>
                    \E j \in DOMAIN Sync!MappedPage(p) : Sync!MappedPage(p)[j] = listed[i]
<1> DEFINE S == {item \in Sync!Items : Sync!Readable(item)}
           k == Kept(Sync!Page(p), S)
           s == Sync!Page(p)
<1>1. Sync!MappedPage(p) = k
  <2>1. CASE chamber = "senate"
    BY <2>1, SameKept DEF Sync!MappedPage, Sync!SenatePage, Sync!Readable
  <2>2. CASE chamber # "senate"
    BY <2>2, SameKept DEF Sync!MappedPage, Sync!HousePage, Sync!Readable
  <2> QED
    BY <2>1, <2>2
<1>2. s \in Seq(Sync!Items) /\ Len(s) \in Nat
  BY SyncPageListed
<1> HIDE DEF s, k, S
<1>3. k \in Seq(Sync!Items \cap S) /\ \E h : KeepsInOrder(s, S, Len(s), k, h)
  BY <1>2, KeptInOrder DEF k, s
<1>4. PICK h : KeepsInOrder(s, S, Len(s), k, h)
  BY <1>3
<1>5. k \in Seq(S)
  <2>1. Sync!Items \cap S = S
    BY DEF S
  <2> QED
    BY <1>3, <2>1
<1>6. /\ \A j \in DOMAIN k : \E i \in DOMAIN s : k[j] = s[i]
      /\ \A i \in DOMAIN s : s[i] \in S => \E j \in DOMAIN k : k[j] = s[i]
  <2>1. DOMAIN k = 1..Len(k) /\ DOMAIN s = 1..Len(s)
    BY <1>2, <1>3
  <2>2. \A j \in 1..Len(k) : h[j] \in 1..Len(s) /\ k[j] = s[h[j]]
    BY <1>4 DEF KeepsInOrder
  <2>3. \A i \in 1..Len(s) : s[i] \in S => \E j \in 1..Len(k) : k[j] = s[i]
    BY <1>4, <2>2 DEF KeepsInOrder
  <2> QED
    BY <2>1, <2>2, <2>3
<1>7. \A j \in DOMAIN k : \E i \in DOMAIN listed : k[j] = listed[i]
  BY <1>6, SyncPageListed DEF s
<1>8. ASSUME NEW i \in DOMAIN listed, p * PageSize < i, i <= (p + 1) * PageSize,
             Sync!Readable(listed[i])
      PROVE  \E j \in DOMAIN k : k[j] = listed[i]
  <2>1. PICK j \in DOMAIN s : s[j] = listed[i]
    BY <1>8, SyncPageListed DEF s
  <2>2. s[j] \in S
    BY <1>8, <2>1 DEF S, SyncListing
  <2> QED
    BY <1>6, <2>1, <2>2
<1> QED
  BY <1>1, <1>5, <1>7, <1>8 DEF S
-----------------------------------------------------------------------------
(* The actions of a sync. *)
LEMMA SyncMoveKeeps ==
    ASSUME SyncInv, NEW r \in Runs, Sync!Working(r), NEW s, SyncStepTo(r, s),
           UNCHANGED <<trades>>,
           SyncSound(s), SyncOwes(s)
    PROVE  SyncInv'
<1>1. SyncKeeping
  BY SyncSameTableKept DEF SyncInv
<1> QED
  BY <1>1, SyncStepKeeps

SyncReadables == {item \in Sync!Items : Sync!Readable(item)}

LEMMA SyncFetchPageKeeps == ASSUME SyncInv, SyncBounds, NEW r \in Runs, Sync!FetchPage(r)
       PROVE SyncInv'
<1> DEFINE p == run[r].page
           mapped == Sync!MappedPage(p)
           short == Len(mapped) < PageSize
           final == short \/ p + 1 >= MaxPages
           cut == short /\ Len(listed) > (p + 1) * PageSize
           due == IF final THEN {d \in run[r].due : d.fid \in Sync!Window} ELSE run[r].due
           s == [run[r] EXCEPT !.got = @ \o mapped, !.st = IF final THEN "find" ELSE "fetch",
                               !.page = IF final THEN 0 ELSE @ + 1, !.due = due, !.cut = cut]
<1>1. /\ run[r] \in SyncRunStates /\ p \in 0..(MaxPages - 1) /\ p \in Nat
      /\ run[r].got \in Seq(SyncReadables) /\ run[r].due \subseteq Sync!Items
  BY SyncRunFields DEF SyncInv, SyncReadables
<1>2. run[r].st = "fetch" /\ UNCHANGED <<chamber, listed, changes, trades>>
  BY DEF Sync!FetchPage
<1>3. run' = [run EXCEPT ![r] = s]
  BY DEF Sync!FetchPage
<1>4. /\ mapped \in Seq(SyncReadables)
      /\ \A j \in DOMAIN mapped : \E i \in DOMAIN listed : mapped[j] = listed[i]
      /\ \A i \in DOMAIN listed :
            p * PageSize < i /\ i <= (p + 1) * PageSize /\ Sync!Readable(listed[i]) =>
               \E j \in DOMAIN mapped : mapped[j] = listed[i]
  BY <1>1, SyncMappedListed DEF SyncInv, SyncReadables
<1>5. p * PageSize \in Nat /\ (p + 1) * PageSize = p * PageSize + PageSize
  BY <1>1, SyncPageListed DEF SyncInv
<1> HIDE DEF mapped, p
<1> DEFINE got == run[r].got \o mapped
<1>6. /\ got \in Seq(SyncReadables)
      /\ \A i \in DOMAIN run[r].got : i \in DOMAIN got /\ got[i] = run[r].got[i]
      /\ \A j \in DOMAIN mapped : \E i \in DOMAIN got : got[i] = mapped[j]
      /\ \A i \in DOMAIN got : \/ \E j \in DOMAIN run[r].got : run[r].got[j] = got[i]
                               \/ \E j \in DOMAIN mapped : mapped[j] = got[i]
  <2> DEFINE n == Len(run[r].got)
  <2>1. /\ n \in Nat /\ Len(mapped) \in Nat /\ Len(got) = n + Len(mapped)
        /\ got \in Seq(SyncReadables)
        /\ \A i \in 1..n : got[i] = run[r].got[i]
        /\ \A i \in 1..Len(mapped) : got[n + i] = mapped[i]
    BY <1>1, <1>4
  <2> HIDE DEF n, got
  <2>2. DOMAIN run[r].got = 1..n /\ DOMAIN mapped = 1..Len(mapped) /\ DOMAIN got = 1..Len(got)
    BY <1>1, <1>4, <2>1 DEF n
  <2>3. \A i \in 1..Len(got) : i \in 1..n \/ (i - n \in 1..Len(mapped) /\ n + (i - n) = i)
    BY <2>1
  <2>4. \A i \in 1..Len(mapped) : n + i \in 1..Len(got)
    BY <2>1
  <2>5. \A i \in 1..n : i \in 1..Len(got)
    BY <2>1
  <2> QED
    BY <2>1, <2>2, <2>3, <2>4, <2>5
<1>7. final \in BOOLEAN /\ short \in BOOLEAN /\ cut \in BOOLEAN /\ due \subseteq run[r].due
  OBVIOUS
<1>8. Len(listed) \in Nat /\ DOMAIN listed = 1..Len(listed) /\ PageSize \in Nat
  BY DEF SyncInv, SyncListing, SyncBounds
<1>9. ~final => p + 1 \in 0..(MaxPages - 1) /\ p + 1 < MaxPages
  BY <1>1 DEF SyncBounds, p
<1>10. 0 \in 0..(MaxPages - 1)
  BY DEF SyncBounds
<1>11. ASSUME final, ~cut, NEW d \in due, NEW i \in DOMAIN listed, listed[i].fid = d.fid
       PROVE  i <= (p + 1) * PageSize
  <2>1. CASE short
    BY <1>5, <1>8, <1>11, <2>1
  <2>2. CASE ~short
    <3>1. p + 1 = MaxPages
      BY <1>1, <1>11, <2>2 DEF SyncBounds, p
    <3>2. d.fid \in Sync!Window
      BY <1>11
    <3>3. PICK j \in DOMAIN listed : j <= MaxPages * PageSize /\ listed[j].fid = d.fid
      BY <3>2 DEF Sync!Window
    <3>4. i = j
      BY <1>11, <3>3 DEF SyncInv, SyncListing
    <3> QED
      BY <3>1, <3>3, <3>4
  <2> QED
    BY <2>1, <2>2
<1> HIDE DEF got, due, cut, final, short
<1>12. /\ s.got = got /\ s.st = (IF final THEN "find" ELSE "fetch")
       /\ s.page = (IF final THEN 0 ELSE p + 1) /\ s.due = due /\ s.cut = cut
       /\ s.counted = run[r].counted /\ s.alone = run[r].alone
       /\ s \in SyncRunStates
  <2>1. (IF final THEN "find" ELSE "fetch") \in Sync!Steps \cup {"idle"}
    BY DEF Sync!Steps
  <2>2. (IF final THEN 0 ELSE p + 1) \in 0..(MaxPages - 1)
    BY <1>9, <1>10
  <2>3. got \in Seq(SyncReadables) /\ due \in SUBSET Sync!Items /\ cut \in BOOLEAN
    BY <1>1, <1>6, <1>7
  <2> DEFINE G == Seq(SyncReadables)
  <2>4. SyncRunStates = [st : Sync!Steps \cup {"idle"}, page : 0..(MaxPages - 1), got : G,
                         counted : SUBSET (TradeIds \cup {NoId}), due : SUBSET Sync!Items,
                         cut : BOOLEAN, alone : BOOLEAN]
    BY DEF SyncRunStates, SyncReadables
  <2> HIDE DEF G
  <2> QED
    BY <1>1, <2>1, <2>2, <2>3, <2>4 DEF G, got, p
<1> HIDE DEF s
<1>13. SyncStepTo(r, s)
  <2>1. s.st \in SyncBusy /\ s.st \notin SyncStoring
    BY <1>12 DEF SyncBusy, SyncStoring
  <2> QED
    BY <1>2, <1>3, <1>4, <1>6, <1>7, <1>12, <2>1 DEF SyncStepTo
<1>14. SyncSound(s)
  BY <1>2, <1>12 DEF SyncInv, SyncCounting, SyncSound, SyncHasRow
<1>15. SyncOwes(s)
  <2> SUFFICES ASSUME NEW d \in due, d.fid # NoId, ~\E i \in DOMAIN got : got[i].fid = d.fid
               PROVE  /\ ~final => \E i \in DOMAIN listed :
                                     i > (p + 1) * PageSize /\ listed[i].fid = d.fid
                      /\ final /\ ~cut => \E t \in trades' : t.fid = d.fid
                                            /\ (s.alone => t.ver >= d.ver)
    BY <1>2, <1>12 DEF SyncOwes, SyncStoring
  <2>1. ~SyncInHand(r, d)
    BY <1>6 DEF SyncInHand
  <2>2. PICK i \in DOMAIN listed : i > p * PageSize /\ listed[i].fid = d.fid
    BY <1>2, <1>7, <2>1 DEF SyncInv, SyncOwing, SyncToFetch, p
  <2>3. Sync!Readable(listed[i])
    <3>1. Sync!Readable(d) /\ listed[i].kind = d.kind
      BY <1>7, <2>2, SyncListedNewer DEF SyncInv, SyncListing
    <3> QED
      BY <3>1 DEF Sync!Readable, Sync!SenateReadable, Sync!HouseReadable
  <2>4. ~(i <= (p + 1) * PageSize)
    <3> SUFFICES ASSUME i <= (p + 1) * PageSize PROVE FALSE
      OBVIOUS
    <3>1. p * PageSize < i
      BY <1>5, <1>8, <2>2
    <3> QED
      BY <1>4, <1>6, <2>2, <2>3, <3>1
  <2>5. i > (p + 1) * PageSize
    BY <1>5, <1>8, <2>4
  <2>6. ~(final /\ ~cut)
    BY <1>11, <2>2, <2>4
  <2> QED
    BY <2>2, <2>5, <2>6
<1>16. Sync!Working(r)
  BY <1>2 DEF Sync!Working
<1> QED
  BY <1>2, <1>13, <1>14, <1>15, <1>16, SyncMoveKeeps

LEMMA SyncFetchOddKeeps == ASSUME SyncInv, SyncBounds, NEW r \in Runs, Sync!FetchOdd(r)
       PROVE SyncInv'
<1> DEFINE due == {d \in run[r].due : d.fid \in Sync!Window}
           cut == Len(listed) > run[r].page * PageSize
           s == [run[r] EXCEPT !.st = "find", !.page = 0, !.due = due, !.cut = cut]
<1>1. /\ run[r] \in SyncRunStates /\ run[r].page \in Nat /\ run[r].due \subseteq Sync!Items
      /\ run[r].got \in Seq(SyncReadables)
  BY SyncRunFields DEF SyncInv, SyncReadables
<1>2. run[r].st = "fetch" /\ UNCHANGED <<chamber, listed, changes, trades>>
  BY DEF Sync!FetchOdd
<1>3. run' = [run EXCEPT ![r] = s]
  BY DEF Sync!FetchOdd
<1>4. due \subseteq run[r].due /\ cut \in BOOLEAN /\ 0 \in 0..(MaxPages - 1)
       /\ "find" \in Sync!Steps
  BY DEF SyncBounds, Sync!Steps
<1>5. ASSUME ~cut, NEW i \in DOMAIN listed PROVE ~(i > run[r].page * PageSize)
  BY <1>1, <1>5 DEF SyncInv, SyncListing, SyncBounds
<1> HIDE DEF due, cut
<1>6. /\ s.st = "find" /\ s.got = run[r].got /\ s.due = due /\ s.cut = cut
      /\ s.counted = run[r].counted /\ s.alone = run[r].alone /\ s \in SyncRunStates
  <2>1. due \in SUBSET Sync!Items
    BY <1>1, <1>4
  <2> DEFINE G == Seq(SyncReadables)
  <2>2. SyncRunStates = [st : Sync!Steps \cup {"idle"}, page : 0..(MaxPages - 1), got : G,
                         counted : SUBSET (TradeIds \cup {NoId}), due : SUBSET Sync!Items,
                         cut : BOOLEAN, alone : BOOLEAN]
    BY DEF SyncRunStates, SyncReadables
  <2> HIDE DEF G
  <2> QED
    BY <1>1, <1>4, <2>1, <2>2
<1> HIDE DEF s
<1>7. SyncStepTo(r, s)
  <2>1. s.st \in SyncBusy /\ s.st \notin SyncStoring
    BY <1>6 DEF SyncBusy, SyncStoring
  <2>2. \A i \in DOMAIN s.got : \E j \in DOMAIN run[r].got : run[r].got[j] = s.got[i]
    BY <1>6
  <2> QED
    BY <1>2, <1>3, <1>4, <1>6, <2>1, <2>2 DEF SyncStepTo
<1>8. SyncSound(s)
  BY <1>2, <1>6 DEF SyncInv, SyncCounting, SyncSound, SyncHasRow
<1>9. SyncOwes(s)
  <2> SUFFICES ASSUME NEW d \in due, d.fid # NoId, ~cut
               PROVE  \E i \in DOMAIN run[r].got : run[r].got[i].fid = d.fid
    BY <1>6 DEF SyncOwes, SyncStoring
  <2>1. ~SyncToFetch(r, d)
    BY <1>5 DEF SyncToFetch
  <2> QED
    BY <1>2, <1>4, <2>1 DEF SyncInv, SyncOwing, SyncInHand
<1>10. Sync!Working(r)
  BY <1>2 DEF Sync!Working
<1> QED
  BY <1>2, <1>7, <1>8, <1>9, <1>10, SyncMoveKeeps

LEMMA SyncFetchFailsKeeps == ASSUME SyncInv, SyncBounds, NEW r \in Runs,
       Sync!FetchFails(r) PROVE SyncInv'
<1> DEFINE s == [Sync!NoRun EXCEPT !.st = "aborted"]
<1>1. run[r].st = "fetch" /\ UNCHANGED <<chamber, listed, changes, trades>>
      /\ run' = [run EXCEPT ![r] = s] /\ Sync!Working(r)
  BY DEF Sync!FetchFails, Sync!Working
<1>2. /\ s.st = "aborted" /\ s.got = <<>> /\ s.counted = {} /\ s.due = {} /\ s.alone
      /\ s \in SyncRunStates
  <2>1. <<>> \in Seq(SyncReadables) /\ 0 \in 0..(MaxPages - 1) /\ "aborted" \in Sync!Steps
    BY DEF SyncBounds, Sync!Steps
  <2> DEFINE G == Seq(SyncReadables)
  <2>2. SyncRunStates = [st : Sync!Steps \cup {"idle"}, page : 0..(MaxPages - 1), got : G,
                         counted : SUBSET (TradeIds \cup {NoId}), due : SUBSET Sync!Items,
                         cut : BOOLEAN, alone : BOOLEAN]
    BY DEF SyncRunStates, SyncReadables
  <2> HIDE DEF G
  <2> QED
    BY <2>1, <2>2 DEF Sync!NoRun, G
<1> HIDE DEF s
<1>3. SyncStepTo(r, s)
  <2>1. s.st \notin SyncBusy /\ s.st \notin SyncStoring
    BY <1>2 DEF SyncBusy, SyncStoring
  <2> QED
    BY <1>1, <1>2, <2>1 DEF SyncStepTo
<1>4. SyncSound(s) /\ SyncOwes(s)
  BY <1>2 DEF SyncSound, SyncOwes
<1> QED
  BY <1>1, <1>3, <1>4, SyncMoveKeeps
-----------------------------------------------------------------------------
(* The next trade in hand, and those after it. *)
LEMMA SyncNextInHand ==
    ASSUME SyncInv, SyncBounds, NEW r \in Runs, run[r].got # <<>>
    PROVE  /\ Sync!Item(r) = run[r].got[1] /\ 1 \in DOMAIN run[r].got
           /\ Sync!Item(r) \in SyncReadables
           /\ Tail(run[r].got) \in Seq(SyncReadables)
           /\ \A i \in DOMAIN run[r].got : run[r].got[i] = Sync!Item(r) \/
                 \E j \in DOMAIN Tail(run[r].got) : Tail(run[r].got)[j] = run[r].got[i]
           /\ \A i \in DOMAIN Tail(run[r].got) :
                 \E j \in DOMAIN run[r].got : run[r].got[j] = Tail(run[r].got)[i]
<1> DEFINE g == run[r].got
<1>1. g \in Seq(SyncReadables)
  BY SyncRunFields DEF SyncInv, SyncReadables
<1> HIDE DEF g
<1>2. g # <<>> /\ Sync!Item(r) = Head(g)
  BY DEF g, Sync!Item
<1>3. /\ Len(g) \in Nat /\ Len(g) > 0 /\ Head(g) = g[1] /\ g[1] \in SyncReadables
      /\ Tail(g) \in Seq(SyncReadables) /\ Len(Tail(g)) = Len(g) - 1
      /\ \A i \in 1..Len(Tail(g)) : Tail(g)[i] = g[i + 1]
  BY <1>1, <1>2
<1>4. DOMAIN g = 1..Len(g) /\ DOMAIN Tail(g) = 1..(Len(g) - 1)
  BY <1>1, <1>3
<1>5. \A i \in 1..Len(g) : i = 1 \/ (i - 1 \in 1..(Len(g) - 1) /\ (i - 1) + 1 = i)
  BY <1>3
<1>6. \A i \in 1..(Len(g) - 1) : i + 1 \in 1..Len(g)
  BY <1>3
<1>7. \A i \in 1..Len(g) : i = 1 \/ Tail(g)[i - 1] = g[i]
  BY <1>3, <1>5
<1>8. \A i \in DOMAIN g : g[i] = Head(g) \/ \E j \in DOMAIN Tail(g) : Tail(g)[j] = g[i]
  BY <1>3, <1>4, <1>5, <1>7
<1>9. \A i \in DOMAIN Tail(g) : \E j \in DOMAIN g : g[j] = Tail(g)[i]
  BY <1>3, <1>4, <1>6
<1> QED
  BY <1>2, <1>3, <1>4, <1>8, <1>9 DEF g

(* A failed trade is no longer owed. *)
LEMMA SyncFailedKeeps ==
    ASSUME SyncInv, SyncBounds, NEW r \in Runs, run[r].st \in {"find"} \cup SyncStoring,
           run[r].got # <<>>,
           run' = [run EXCEPT ![r] = Sync!Failed(@)], UNCHANGED <<chamber, listed, changes,
                  trades>>
    PROVE  SyncInv'
<1> DEFINE due == {d \in run[r].due : d.fid # Sync!Item(r).fid}
           got == Tail(run[r].got)
           s == [run[r] EXCEPT !.st = "find", !.got = got, !.due = due]
<1>1. /\ run[r] \in SyncRunStates /\ run[r].due \subseteq Sync!Items
  BY SyncRunFields DEF SyncInv
<1>2. run' = [run EXCEPT ![r] = s]
  <2>1. Sync!Failed(run[r]) = s
    BY DEF Sync!Failed, Sync!Item
  <2> QED
    BY <2>1
<1>3. due \subseteq run[r].due /\ "find" \in Sync!Steps
  BY DEF Sync!Steps
<1>4. /\ got \in Seq(SyncReadables)
      /\ \A i \in DOMAIN run[r].got : run[r].got[i] = Sync!Item(r)
                                      \/ \E j \in DOMAIN got : got[j] = run[r].got[i]
      /\ \A i \in DOMAIN got : \E j \in DOMAIN run[r].got : run[r].got[j] = got[i]
  BY SyncNextInHand
<1>5. \A d \in due : d \in run[r].due /\ d.fid # Sync!Item(r).fid
  OBVIOUS
<1> HIDE DEF due, got
<1>6. /\ s.st = "find" /\ s.got = got /\ s.due = due /\ s.cut = run[r].cut
      /\ s.counted = run[r].counted /\ s.alone = run[r].alone /\ s \in SyncRunStates
  <2>1. due \in SUBSET Sync!Items
    BY <1>1, <1>3
  <2> DEFINE G == Seq(SyncReadables)
  <2>2. SyncRunStates = [st : Sync!Steps \cup {"idle"}, page : 0..(MaxPages - 1), got : G,
                         counted : SUBSET (TradeIds \cup {NoId}), due : SUBSET Sync!Items,
                         cut : BOOLEAN, alone : BOOLEAN]
    BY DEF SyncRunStates, SyncReadables
  <2>3. got \in G
    BY <1>4
  <2> HIDE DEF G
  <2> QED
    BY <1>1, <1>3, <2>1, <2>2, <2>3
<1> HIDE DEF s
<1>7. SyncStepTo(r, s)
  <2>1. s.st \in SyncBusy /\ s.st \notin SyncStoring
    BY <1>6 DEF SyncBusy, SyncStoring
  <2> QED
    BY <1>2, <1>3, <1>4, <1>6, <2>1 DEF SyncStepTo
<1>8. SyncSound(s)
  BY <1>6 DEF SyncInv, SyncCounting, SyncSound, SyncHasRow
<1>9. SyncOwes(s)
  <2> SUFFICES ASSUME NEW d \in due, d.fid # NoId, ~run[r].cut
               PROVE  \/ \E i \in DOMAIN got : got[i].fid = d.fid
                      \/ \E t \in trades : t.fid = d.fid /\ (run[r].alone => t.ver >= d.ver)
    BY <1>6 DEF SyncOwes, SyncStoring
  <2>1. SyncInHand(r, d) \/ SyncStored(r, d)
    BY <1>5 DEF SyncInv, SyncOwing
  <2> QED
    BY <1>4, <1>5, <2>1 DEF SyncInHand, SyncStored
<1>10. Sync!Working(r)
  BY DEF Sync!Working, SyncStoring
<1> QED
  BY <1>7, <1>8, <1>9, <1>10, SyncMoveKeeps

(* Only the step changes. *)
LEMMA SyncAdvanceKeeps ==
    ASSUME SyncInv, SyncBounds, NEW r \in Runs, run[r].st \in {"find", "check"}, NEW to,
           run' = [run EXCEPT ![r].st = to], UNCHANGED <<chamber, listed, changes, trades>>,
           \/ to \in {"check", "update", "insert"} /\ run[r].got # <<>>
           \/ to = "ended" /\ run[r].got = <<>>,
           to \in {"check", "update"} => Sync!Item(r).fid # NoId,
           to = "update" => SyncHasRow(trades, Sync!Item(r).fid),
           to = "insert" /\ Sync!Item(r).fid # NoId => ~SyncHasRow(trades, Sync!Item(r).fid)
    PROVE  SyncInv'
<1> DEFINE s == [run[r] EXCEPT !.st = to]
<1>1. run[r] \in SyncRunStates
  BY SyncRunFields DEF SyncInv
<1>2. run' = [run EXCEPT ![r] = s]
  OBVIOUS
<1>3. /\ s.st = to /\ s.got = run[r].got /\ s.due = run[r].due /\ s.cut = run[r].cut
      /\ s.counted = run[r].counted /\ s.alone = run[r].alone /\ s \in SyncRunStates
  <2>1. to \in Sync!Steps \cup {"idle"}
    BY DEF Sync!Steps
  <2> DEFINE G == Seq(SyncReadables)
  <2>2. SyncRunStates = [st : Sync!Steps \cup {"idle"}, page : 0..(MaxPages - 1), got : G,
                         counted : SUBSET (TradeIds \cup {NoId}), due : SUBSET Sync!Items,
                         cut : BOOLEAN, alone : BOOLEAN]
    BY DEF SyncRunStates, SyncReadables
  <2> HIDE DEF G
  <2> QED
    BY <1>1, <2>1, <2>2
<1> HIDE DEF s
<1>4. SyncStepTo(r, s)
  <2>1. /\ s.st \in SyncStoring => s.got # <<>>
        /\ s.st \notin SyncBusy => s.got = <<>>
    BY <1>3 DEF SyncBusy, SyncStoring
  <2> QED
    BY <1>2, <1>3, <2>1 DEF SyncStepTo
<1>5. SyncSound(s)
  <2>1. Head(s.got) = Sync!Item(r)
    BY <1>3 DEF Sync!Item
  <2> QED
    BY <1>3, <2>1 DEF SyncInv, SyncCounting, SyncSound, SyncHasRow
<1>6. SyncOwes(s)
  <2> SUFFICES ASSUME NEW d \in run[r].due, d.fid # NoId, ~run[r].cut
               PROVE  \/ \E i \in DOMAIN run[r].got : run[r].got[i].fid = d.fid
                      \/ \E t \in trades : t.fid = d.fid /\ (run[r].alone => t.ver >= d.ver)
    BY <1>3 DEF SyncOwes, SyncStoring
  <2> QED
    BY DEF SyncInv, SyncOwing, SyncInHand, SyncStored, SyncStoring
<1>7. Sync!Working(r)
  BY DEF Sync!Working
<1> QED
  BY <1>4, <1>5, <1>6, <1>7, SyncMoveKeeps

LEMMA SyncFindExistingKeeps == ASSUME SyncInv, SyncBounds, NEW r \in Runs,
       Sync!FindExisting(r) PROVE SyncInv'
<1>1. /\ run[r].st = "find" /\ run[r].got # <<>>
      /\ UNCHANGED <<chamber, listed, changes, trades>>
  BY DEF Sync!FindExisting, Sync!AtItem
<1>2. CASE Sync!Item(r).kind = "invalid"
  BY <1>1, <1>2, SyncFailedKeeps DEF Sync!FindExisting
<1>3. CASE Sync!Item(r).kind # "invalid"
  <2> DEFINE to == IF Sync!Item(r).fid = NoId THEN "insert" ELSE "check"
  <2>1. run' = [run EXCEPT ![r].st = to]
    BY <1>3 DEF Sync!FindExisting
  <2>2. /\ to \in {"check", "insert"} /\ (to = "check" => Sync!Item(r).fid # NoId)
        /\ (to = "insert" => Sync!Item(r).fid = NoId)
    OBVIOUS
  <2> HIDE DEF to
  <2> QED
    BY <1>1, <2>1, <2>2, SyncAdvanceKeeps
<1> QED
  BY <1>2, <1>3

LEMMA SyncCheckExistingKeeps == ASSUME SyncInv, SyncBounds, NEW r \in Runs,
       Sync!CheckExisting(r) PROVE SyncInv'
<1>1. /\ run[r].st = "check" /\ run[r].got # <<>>
      /\ UNCHANGED <<chamber, listed, changes, trades>>
  BY DEF Sync!CheckExisting, Sync!AtItem
<1> DEFINE to == IF Sync!RowOf(Sync!Item(r).fid) # {} THEN "update" ELSE "insert"
<1>2. run' = [run EXCEPT ![r].st = to]
  BY DEF Sync!CheckExisting
<1>3. Sync!Item(r).fid # NoId
  BY <1>1 DEF SyncInv, SyncCounting
<1>4. Sync!RowOf(Sync!Item(r).fid) # {} <=> SyncHasRow(trades, Sync!Item(r).fid)
  BY <1>3 DEF Sync!RowOf, SyncHasRow
<1>5. /\ to \in {"update", "insert"} /\ (to = "update" => SyncHasRow(trades, Sync!Item(r).fid))
      /\ (to = "insert" => ~SyncHasRow(trades, Sync!Item(r).fid))
  BY <1>4
<1> HIDE DEF to
<1> QED
  BY <1>1, <1>2, <1>3, <1>5, SyncAdvanceKeeps

LEMMA SyncStatementFailsKeeps == ASSUME SyncInv, SyncBounds, NEW r \in Runs,
       Sync!StatementFails(r) PROVE SyncInv'
<1>1. /\ run[r].st \in {"find"} \cup SyncStoring /\ run[r].got # <<>>
      /\ run' = [run EXCEPT ![r] = Sync!Failed(@)] /\ UNCHANGED <<chamber, listed, changes,
             trades>>
  BY DEF Sync!StatementFails, Sync!AtItem, SyncStoring
<1> QED
  BY <1>1, SyncFailedKeeps

LEMMA SyncFinishKeeps == ASSUME SyncInv, SyncBounds, NEW r \in Runs, Sync!Finish(r) PROVE SyncInv'
<1> DEFINE to == "ended"
<1>1. /\ run[r].st = "find" /\ run[r].got = <<>> /\ to = "ended"
      /\ run' = [run EXCEPT ![r].st = to] /\ UNCHANGED <<chamber, listed, changes, trades>>
  BY DEF Sync!Finish
<1> HIDE DEF to
<1>2. to # "check" /\ to # "update" /\ to # "insert"
  BY <1>1
<1>3. run[r].st \in {"find", "check"}
  BY <1>1
<1> QED
  BY <1>1, <1>2, <1>3, SyncAdvanceKeeps
-----------------------------------------------------------------------------
(* A trade written is counted. *)
LEMMA SyncCountedKeeps ==
    ASSUME SyncInv, SyncBounds, NEW r \in Runs, run[r].st \in {"insert", "update"},
           run[r].got # <<>>,
           run' = [run EXCEPT ![r] = Sync!Counted(@)], UNCHANGED <<chamber, listed, changes>>,
                  SyncKeeping,
           Sync!Item(r).fid # NoId => \E t \in trades' : t.fid = Sync!Item(r).fid
                                                   /\ (run[r].alone => t.ver >= Sync!Item(r).ver)
    PROVE  SyncInv'
<1> DEFINE f == Sync!Item(r).fid
           got == Tail(run[r].got)
           s == [run[r] EXCEPT !.st = "find", !.got = got, !.counted = @ \cup {f}]
<1>1. /\ run[r] \in SyncRunStates /\ run[r].due \subseteq Sync!Items
      /\ run[r].counted \subseteq TradeIds \cup {NoId}
  BY SyncRunFields DEF SyncInv
<1>2. run' = [run EXCEPT ![r] = s]
  <2>1. Sync!Counted(run[r]) = s
    BY DEF Sync!Counted, Sync!Item
  <2> QED
    BY <2>1
<1>3. /\ got \in Seq(SyncReadables) /\ Sync!Item(r) \in SyncReadables
      /\ 1 \in DOMAIN run[r].got /\ run[r].got[1] = Sync!Item(r)
      /\ \A i \in DOMAIN run[r].got : run[r].got[i] = Sync!Item(r)
                                      \/ \E j \in DOMAIN got : got[j] = run[r].got[i]
      /\ \A i \in DOMAIN got : \E j \in DOMAIN run[r].got : run[r].got[j] = got[i]
  BY SyncNextInHand
<1>4. f \in TradeIds \cup {NoId} /\ Sync!Item(r).ver \in Int
  BY <1>3 DEF SyncReadables, Sync!Items
<1> HIDE DEF got
<1>5. /\ s.st = "find" /\ s.got = got /\ s.due = run[r].due /\ s.cut = run[r].cut
      /\ s.counted = run[r].counted \cup {f} /\ s.alone = run[r].alone /\ s \in SyncRunStates
  <2>1. run[r].counted \cup {f} \in SUBSET (TradeIds \cup {NoId}) /\ "find" \in Sync!Steps
    BY <1>1, <1>4 DEF Sync!Steps
  <2> DEFINE G == Seq(SyncReadables)
             C == run[r].counted \cup {f}
  <2>2. SyncRunStates = [st : Sync!Steps \cup {"idle"}, page : 0..(MaxPages - 1), got : G,
                         counted : SUBSET (TradeIds \cup {NoId}), due : SUBSET Sync!Items,
                         cut : BOOLEAN, alone : BOOLEAN]
    BY DEF SyncRunStates, SyncReadables
  <2>3. got \in G /\ s = [run[r] EXCEPT !.st = "find", !.got = got, !.counted = C]
    BY <1>3
  <2> HIDE DEF G, C, s
  <2>4. C \in SUBSET (TradeIds \cup {NoId})
    BY <2>1 DEF C
  <2>5. s \in SyncRunStates /\ s.st = "find" /\ s.got = got /\ s.due = run[r].due
        /\ s.cut = run[r].cut /\ s.counted = C /\ s.alone = run[r].alone
    BY <1>1, <2>1, <2>2, <2>3, <2>4
  <2> QED
    BY <2>5 DEF C
<1> HIDE DEF s
<1>6. SyncStepTo(r, s)
  <2>1. s.st \in SyncBusy /\ s.st \notin SyncStoring
    BY <1>5 DEF SyncBusy, SyncStoring
  <2> QED
    BY <1>2, <1>3, <1>5, <2>1 DEF SyncStepTo
<1>7. SyncSound(s)
  <2>1. \A g \in run[r].counted \ {NoId} : SyncHasRow(trades', g)
    BY DEF SyncInv, SyncCounting, SyncKeeping
  <2>2. f # NoId => SyncHasRow(trades', f)
    BY DEF SyncHasRow
  <2> QED
    BY <1>5, <2>1, <2>2 DEF SyncSound
<1>8. SyncOwes(s)
  <2> SUFFICES ASSUME NEW d \in run[r].due, d.fid # NoId, ~run[r].cut,
                      ~\E i \in DOMAIN got : got[i].fid = d.fid
               PROVE  \E t \in trades' : t.fid = d.fid /\ (run[r].alone => t.ver >= d.ver)
    BY <1>5 DEF SyncOwes, SyncStoring
  <2>1. SyncInHand(r, d) \/ SyncStored(r, d)
    BY DEF SyncInv, SyncOwing, SyncStoring
  <2>2. CASE SyncStored(r, d)
    BY <2>2 DEF SyncKeeping
  <2>3. CASE SyncInHand(r, d)
    <3>1. Sync!Item(r).fid = d.fid
      BY <1>3, <2>3 DEF SyncInHand
    <3>2. PICK t \in trades' : t.fid = d.fid /\ (run[r].alone => t.ver >= Sync!Item(r).ver)
      BY <3>1
    <3>3. run[r].alone => Sync!Item(r).ver >= d.ver
      BY <1>3, <3>1 DEF SyncInv, SyncAlone
    <3>4. t.ver \in Int /\ d.ver \in Int
      <4>1. trades' \subseteq Sync!Rows
        BY DEF SyncKeeping, SyncTable
      <4> QED
        BY <1>1, <4>1 DEF Sync!Rows, Sync!Items
    <3>5. run[r].alone => t.ver >= d.ver
      BY <1>4, <3>2, <3>3, <3>4
    <3> QED
      BY <3>2, <3>5
  <2> QED
    BY <2>1, <2>2, <2>3
<1>9. Sync!Working(r)
  BY DEF Sync!Working
<1> QED
  BY <1>6, <1>7, <1>8, <1>9, SyncStepKeeps

(* The image of the table, row by row under the same ids, has as many rows.   *)
LEMMA SyncRewrittenTable ==
    ASSUME SyncTable, NEW u \in [trades -> Sync!Rows],
           \A t \in trades : u[t].id = t.id /\ u[t].fid = t.fid,
           trades' = {u[t] : t \in trades}
    PROVE  SyncTable'
<1>1. u \in Bijection(trades, trades')
  BY DEF SyncTable, Bijection, Injection, Surjection, IsInjective
<1>2. IsFiniteSet(trades') /\ Cardinality(trades') = Cardinality(trades)
  BY <1>1, FS_Bijection DEF SyncTable, ExistsBijection
<1>3. trades' \subseteq Sync!Rows
  OBVIOUS
<1>4. \A t \in trades' : t.id \in 1..Cardinality(trades')
  BY <1>2 DEF SyncTable
<1>5. \A t, x \in trades' : t.id = x.id \/ (t.fid # NoId /\ t.fid = x.fid) => t = x
  BY DEF SyncTable
<1> QED
  BY <1>2, <1>3, <1>4, <1>5 DEF SyncTable

LEMMA SyncUpdateKeeps == ASSUME SyncInv, SyncBounds, NEW r \in Runs, Sync!Update(r) PROVE SyncInv'
<1> DEFINE f == Sync!Item(r).fid
           v == Sync!Item(r).ver
           u == [t \in trades |-> IF t.fid = f THEN [t EXCEPT !.ver = v] ELSE t]
<1>1. run[r].st = "update" /\ run[r].got # <<>> /\ run' = [run EXCEPT ![r] = Sync!Counted(@)]
      /\ UNCHANGED <<chamber, listed, changes>>
  BY DEF Sync!Update, Sync!AtItem
<1>2. Sync!Item(r) \in SyncReadables /\ 1 \in DOMAIN run[r].got /\ run[r].got[1] = Sync!Item(r)
  BY <1>1, SyncNextInHand
<1>3. v \in 0..1 /\ trades \subseteq Sync!Rows
  BY <1>2 DEF SyncReadables, Sync!Items, SyncInv, SyncTable
<1>4. f # NoId /\ SyncHasRow(trades, f)
  BY <1>1 DEF SyncInv, SyncCounting
<1>5. trades' = {u[t] : t \in trades}
  BY DEF Sync!Update
<1> HIDE DEF f, v
<1>6. \A t \in trades : u[t] \in Sync!Rows /\ u[t].id = t.id /\ u[t].fid = t.fid
                        /\ u[t].ver = (IF t.fid = f THEN v ELSE t.ver)
  BY <1>3 DEF Sync!Rows
<1>7. u \in [trades -> Sync!Rows]
  BY <1>6
<1> HIDE DEF u
<1>8. SyncTable'
  BY <1>5, <1>6, <1>7, SyncRewrittenTable DEF SyncInv
<1>9. \A g : SyncHasRow(trades, g) => SyncHasRow(trades', g)
  BY <1>5, <1>6 DEF SyncHasRow
<1>10. ASSUME NEW q \in Runs, NEW d \in run[q].due, d.fid # NoId, SyncStored(q, d)
       PROVE  \E t \in trades' : t.fid = d.fid /\ (run[q].alone => t.ver >= d.ver)
  <2>1. PICK t \in trades : t.fid = d.fid /\ (run[q].alone => t.ver >= d.ver)
    BY <1>10 DEF SyncStored
  <2>2. u[t] \in trades' /\ u[t].fid = d.fid
    BY <1>5, <1>6, <2>1
  <2>3. t.fid = f /\ run[q].alone => v >= d.ver
    BY <1>2, <2>1 DEF SyncInv, SyncAlone, f, v
  <2>4. run[q].alone => u[t].ver >= d.ver
    BY <1>6, <2>1, <2>3
  <2> QED
    BY <2>2, <2>4
<1>11. SyncKeeping
  BY <1>8, <1>9, <1>10 DEF SyncKeeping
<1>12. \E t \in trades' : t.fid = f /\ t.ver >= v
  <2>1. PICK t \in trades : t.fid = f
    BY <1>4 DEF SyncHasRow
  <2>2. u[t] \in trades' /\ u[t].fid = f /\ u[t].ver = v
    BY <1>5, <1>6, <2>1
  <2>3. v >= v
    BY <1>3
  <2> QED
    BY <2>2, <2>3
<1> QED
  BY <1>1, <1>11, <1>12, SyncCountedKeeps DEF f, v

LEMMA SyncInsertKeeps == ASSUME SyncInv, SyncBounds, NEW r \in Runs, Sync!Insert(r) PROVE SyncInv'
<1> DEFINE f == Sync!Item(r).fid
           v == Sync!Item(r).ver
           n == Cardinality(trades) + 1
           x == [id |-> n, fid |-> f, ver |-> v]
<1>1. run[r].st = "insert" /\ run[r].got # <<>> /\ run' = [run EXCEPT ![r] = Sync!Counted(@)]
      /\ UNCHANGED <<chamber, listed, changes>>
  BY DEF Sync!Insert, Sync!AtItem
<1>2. Sync!Item(r) \in SyncReadables /\ 1 \in DOMAIN run[r].got /\ run[r].got[1] = Sync!Item(r)
  BY <1>1, SyncNextInHand
<1>3. v \in 0..1 /\ f \in TradeIds \cup {NoId} /\ trades \subseteq Sync!Rows
  BY <1>2 DEF SyncReadables, Sync!Items, SyncInv, SyncTable
<1>4. trades' = IF Sync!RowOf(f) # {} THEN trades ELSE trades \cup {x}
  BY SameCardinality DEF Sync!Insert
<1> HIDE DEF f, v
<1>5. CASE Sync!RowOf(f) # {}
  <2>1. UNCHANGED <<trades>> /\ f # NoId /\ SyncHasRow(trades, f)
    BY <1>4, <1>5 DEF Sync!RowOf, SyncHasRow
  <2>2. ~run[r].alone
    BY <1>1, <2>1 DEF SyncInv, SyncAlone, f
  <2>3. SyncKeeping
    BY <2>1, SyncSameTableKept DEF SyncInv
  <2>4. \E t \in trades' : t.fid = f
    BY <2>1 DEF SyncHasRow
  <2> QED
    BY <1>1, <2>2, <2>3, <2>4, SyncCountedKeeps DEF f
<1>6. CASE Sync!RowOf(f) = {}
  <2>1. n \in Nat \ {0} /\ IsFiniteSet(trades) /\ Cardinality(trades) \in Nat
    BY FS_CardinalityType DEF SyncInv, SyncTable
  <2>2. \A t \in trades : t.id # n /\ t.id \in 1..Cardinality(trades) /\ (f # NoId => t.fid # f)
    BY <1>6, <2>1 DEF SyncInv, SyncTable, Sync!RowOf
  <2> HIDE DEF n
  <2>3. x \in Sync!Rows /\ x.id = n /\ x.fid = f /\ x.ver = v /\ x \notin trades
    BY <1>3, <2>1, <2>2 DEF Sync!Rows
  <2> HIDE DEF x
  <2>4. trades' = trades \cup {x}
    BY <1>4, <1>6
  <2>5. IsFiniteSet(trades') /\ Cardinality(trades') = Cardinality(trades) + 1
    BY <2>1, <2>3, <2>4, FS_AddElement
  <2>6. SyncTable'
    <3>1. trades' \subseteq Sync!Rows
      BY <1>3, <2>3, <2>4
    <3>2. \A t \in trades' : t.id \in 1..Cardinality(trades')
      BY <2>1, <2>2, <2>3, <2>4, <2>5 DEF n
    <3>3. \A t, y \in trades' : t.id = y.id \/ (t.fid # NoId /\ t.fid = y.fid) => t = y
      BY <2>2, <2>3, <2>4 DEF SyncInv, SyncTable
    <3> QED
      BY <2>5, <3>1, <3>2, <3>3 DEF SyncTable
  <2>7. SyncKeeping
    BY <2>4, <2>6 DEF SyncKeeping, SyncHasRow, SyncStored
  <2>8. \E t \in trades' : t.fid = f /\ t.ver >= v
    <3>1. v >= v
      BY <1>3
    <3> QED
      BY <2>3, <2>4, <3>1
  <2> QED
    BY <1>1, <2>7, <2>8, SyncCountedKeeps DEF f, v
<1> QED
  BY <1>5, <1>6
-----------------------------------------------------------------------------
(* A run begins: it owes what is listed, and whoever works is not alone.      *)
LEMMA SyncBeginKeeps == ASSUME SyncInv, SyncBounds, NEW r \in Runs, Sync!Begin(r) PROVE SyncInv'
<1> DEFINE others == {q \in Runs \ {r} : Sync!Working(q)}
           due == {listed[i] : i \in {j \in DOMAIN listed :
                                        Sync!Readable(listed[j]) /\ listed[j].kind # "invalid"}}
           s == [Sync!NoRun EXCEPT !.st = "fetch", !.due = due, !.alone = others = {}]
<1>1. run[r].st = "idle" /\ UNCHANGED <<chamber, listed, changes, trades>>
  BY DEF Sync!Begin
<1>2. run' = [q \in Runs |-> IF q = r THEN s
                             ELSE IF q \in others THEN [run[q] EXCEPT !.alone = FALSE] ELSE run[q]]
  BY DEF Sync!Begin
<1>3. \A q \in others : q \in Runs /\ q # r /\ Sync!Working(q)
  OBVIOUS
<1>4. \A q \in Runs \ {r} : Sync!Working(q) => q \in others
  OBVIOUS
<1>5. listed \in Seq(Sync!Items) /\ \A i \in DOMAIN listed : listed[i] \in Sync!Items
  BY DEF SyncInv, SyncListing
<1>6. due \subseteq Sync!Items /\ \A d \in due : Sync!Readable(d) /\ \E i \in DOMAIN listed
       : listed[i] = d
  BY <1>5
<1>7. (others = {}) \in BOOLEAN
  OBVIOUS
<1> HIDE DEF others, due
<1>8. /\ s.st = "fetch" /\ s.page = 0 /\ s.got = <<>> /\ s.counted = {} /\ s.due = due
      /\ s.cut = FALSE /\ s.alone = (others = {})
  BY DEF Sync!NoRun
<1>9. s \in SyncRunStates
  <2>1. <<>> \in Seq(SyncReadables) /\ 0 \in 0..(MaxPages - 1) /\ "fetch" \in Sync!Steps
        /\ due \in SUBSET Sync!Items
    BY <1>6 DEF SyncBounds, Sync!Steps
  <2> DEFINE G == Seq(SyncReadables)
             a == others = {}
             z == [Sync!NoRun EXCEPT !.st = "fetch", !.due = due, !.alone = a]
  <2>2. SyncRunStates = [st : Sync!Steps \cup {"idle"}, page : 0..(MaxPages - 1), got : G,
                         counted : SUBSET (TradeIds \cup {NoId}), due : SUBSET Sync!Items,
                         cut : BOOLEAN, alone : BOOLEAN]
    BY DEF SyncRunStates, SyncReadables
  <2>3. s = z
    OBVIOUS
  <2>4. a \in BOOLEAN /\ <<>> \in G
    BY <1>7, <2>1
  <2> HIDE DEF G, a
  <2>5. z \in SyncRunStates
    BY <2>1, <2>2, <2>4 DEF Sync!NoRun
  <2> QED
    BY <2>3, <2>5
<1> HIDE DEF s
<1>10. /\ run'[r] = s
       /\ \A q \in others : run'[q] = [run[q] EXCEPT !.alone = FALSE] /\ run[q] \in SyncRunStates
       /\ \A q \in Runs \ {r} : q \notin others => run'[q] = run[q]
       /\ DOMAIN run' = Runs
  BY <1>2, <1>3 DEF SyncInv, SyncRunTyped
<1>11. \A q \in Runs \ {r} :
          /\ run'[q] \in SyncRunStates
          /\ run'[q].st = run[q].st /\ run'[q].page = run[q].page /\ run'[q].got = run[q].got
          /\ run'[q].counted = run[q].counted /\ run'[q].due = run[q].due
          /\ run'[q].cut = run[q].cut
          /\ run'[q].alone = (IF q \in others THEN FALSE ELSE run[q].alone)
  <2> SUFFICES ASSUME NEW q \in Runs \ {r}
               PROVE  /\ run'[q] \in SyncRunStates
                      /\ run'[q].st = run[q].st /\ run'[q].page = run[q].page
                      /\ run'[q].got = run[q].got
                      /\ run'[q].counted = run[q].counted /\ run'[q].due = run[q].due
                      /\ run'[q].cut = run[q].cut
                      /\ run'[q].alone = (IF q \in others THEN FALSE ELSE run[q].alone)
    OBVIOUS
  <2>1. run[q] \in SyncRunStates
    BY DEF SyncInv, SyncRunTyped
  <2>2. CASE q \in others
    <3>1. run'[q] = [run[q] EXCEPT !.alone = FALSE]
      BY <1>10, <2>2
    <3> DEFINE G == Seq(SyncReadables)
    <3>2. SyncRunStates = [st : Sync!Steps \cup {"idle"}, page : 0..(MaxPages - 1), got : G,
                           counted : SUBSET (TradeIds \cup {NoId}), due : SUBSET Sync!Items,
                           cut : BOOLEAN, alone : BOOLEAN]
      BY DEF SyncRunStates, SyncReadables
    <3> HIDE DEF G
    <3> QED
      BY <2>1, <2>2, <3>1, <3>2
  <2>3. CASE q \notin others
    BY <1>10, <2>1, <2>3
  <2> QED
    BY <2>2, <2>3
<1>12. \A q \in Runs \ {r} : Sync!Working(q)' <=> Sync!Working(q)
  BY <1>11 DEF Sync!Working
<1>13. \A item \in Sync!Items : Sync!Readable(item)' <=> Sync!Readable(item)
  BY <1>1 DEF Sync!Readable
<1>14. SyncRunTyped'
  <2>1. SyncRunStates' = SyncRunStates
    BY <1>13 DEF SyncRunStates
  <2>2. run' \in [Runs -> SyncRunStates]
    BY <1>2, <1>9, <1>10, <1>11
  <2>3. \A q \in Runs : run'[q].st \in SyncStoring => run'[q].got # <<>>
    BY <1>8, <1>10, <1>11 DEF SyncInv, SyncRunTyped, SyncStoring
  <2>4. \A q \in Runs : ~Sync!Working(q)' => run'[q].got = <<>>
    BY <1>8, <1>10, <1>11, <1>12 DEF SyncInv, SyncRunTyped
  <2> QED
    BY <2>1, <2>2, <2>3, <2>4 DEF SyncRunTyped
<1>15. SyncTable'
  BY <1>1 DEF SyncInv, SyncTable
<1>16. SyncListing'
  <2>1. \A d \in due : Sync!Readable(d)' /\ \E i \in DOMAIN listed :
           listed[i].fid = d.fid /\ listed[i].kind = d.kind /\ listed[i].ver >= d.ver
    <3> SUFFICES ASSUME NEW d \in due
                 PROVE  Sync!Readable(d)' /\ \E i \in DOMAIN listed :
                           listed[i].fid = d.fid /\ listed[i].kind = d.kind
                           /\ listed[i].ver >= d.ver
      OBVIOUS
    <3>1. d.ver >= d.ver
      BY <1>6 DEF Sync!Items
    <3> QED
      BY <1>6, <1>13, <3>1
  <2>2. \A q \in Runs \ {r} : \A d \in run[q].due :
           /\ Sync!Readable(d)'
           /\ \E i \in DOMAIN listed : listed[i].fid = d.fid /\ listed[i].kind = d.kind
                                       /\ listed[i].ver >= d.ver
    <3>1. \A q \in Runs : run[q].due \subseteq Sync!Items
      BY SyncRunFields DEF SyncInv
    <3> QED
      BY <1>13, <3>1 DEF SyncInv, SyncListing
  <2>3. \A q \in Runs : q = r \/ q \in Runs \ {r}
    OBVIOUS
  <2>4. \A q \in Runs : \A d \in run'[q].due :
           /\ Sync!Readable(d)'
           /\ \E i \in DOMAIN listed : listed[i].fid = d.fid /\ listed[i].kind = d.kind
                                       /\ listed[i].ver >= d.ver
    <3> SUFFICES ASSUME NEW q \in Runs, NEW d \in run'[q].due
                 PROVE  /\ Sync!Readable(d)'
                        /\ \E i \in DOMAIN listed : listed[i].fid = d.fid
                              /\ listed[i].kind = d.kind /\ listed[i].ver >= d.ver
      OBVIOUS
    <3>1. q = r => d \in due
      BY <1>8, <1>10
    <3>2. q # r => d \in run[q].due
      BY <1>11
    <3> QED
      BY <2>1, <2>2, <2>3, <3>1, <3>2
  <2> QED
    BY <1>1, <2>4 DEF SyncInv, SyncListing
<1>17. SyncCounting'
  <2>1. \A q \in Runs : \/ run'[q].counted = {} /\ run'[q].st = "fetch"
                        \/ /\ run'[q].counted = run[q].counted /\ run'[q].st = run[q].st
                           /\ run'[q].got = run[q].got
    <3> SUFFICES ASSUME NEW q \in Runs
                 PROVE  \/ run'[q].counted = {} /\ run'[q].st = "fetch"
                        \/ /\ run'[q].counted = run[q].counted /\ run'[q].st = run[q].st
                           /\ run'[q].got = run[q].got
      OBVIOUS
    <3>1. CASE q = r
      BY <1>8, <1>10, <3>1
    <3>2. CASE q # r
      BY <1>11, <3>2
    <3> QED
      BY <3>1, <3>2
  <2>2. \A q \in Runs : \A f \in run'[q].counted \ {NoId} : SyncHasRow(trades', f)
    BY <1>1, <2>1 DEF SyncInv, SyncCounting, SyncHasRow
  <2>3. \A q \in Runs : run'[q].st \in {"check", "update"} => Head(run'[q].got).fid # NoId
    BY <2>1 DEF SyncInv, SyncCounting, Sync!Item
  <2>4. \A q \in Runs : run'[q].st = "update" => SyncHasRow(trades', Head(run'[q].got).fid)
    <3> SUFFICES ASSUME NEW q \in Runs, run'[q].st = "update"
                 PROVE  SyncHasRow(trades', Head(run'[q].got).fid)
      OBVIOUS
    <3>1. run'[q].got = run[q].got /\ run[q].st = "update"
      BY <2>1
    <3>2. SyncHasRow(trades, Sync!Item(q).fid)
      BY <3>1 DEF SyncInv, SyncCounting
    <3> QED
      BY <1>1, <3>1, <3>2 DEF SyncHasRow, Sync!Item
  <2> QED
    BY <2>2, <2>3, <2>4 DEF SyncCounting, Sync!Item, SyncHasRow
<1>18. SyncAlone'
  <2> SUFFICES ASSUME NEW q \in Runs, run'[q].alone
               PROVE  /\ Sync!Working(q)' => \A p \in Runs : Sync!Working(p)' => p = q
                      /\ run'[q].st = "insert" /\ Head(run'[q].got).fid # NoId =>
                            ~SyncHasRow(trades', Head(run'[q].got).fid)
                      /\ \A p \in Runs : \A i \in DOMAIN run'[p].got : \A d \in run'[q].due :
                            run'[p].got[i].fid = d.fid => run'[p].got[i].ver >= d.ver
    BY DEF SyncAlone, Sync!Item, SyncHasRow
  <2>1. \A p \in Runs : ~Sync!Working(p) => run[p].got = <<>>
    BY DEF SyncInv, SyncRunTyped
  <2>2. CASE q = r
    <3>1. \A p \in Runs \ {r} : ~Sync!Working(p)
      BY <1>4, <1>8, <1>10, <2>2
    <3>2. \A p \in Runs : run'[p].got = <<>>
      <4> SUFFICES ASSUME NEW p \in Runs PROVE run'[p].got = <<>>
        OBVIOUS
      <4>1. CASE p = r
        BY <1>8, <1>10, <4>1
      <4>2. CASE p # r
        <5>1. run[p].got = <<>>
          BY <2>1, <3>1, <4>2
        <5> QED
          BY <1>11, <4>2, <5>1
      <4> QED
        BY <4>1, <4>2
    <3>3. run'[q].st # "insert"
      BY <1>8, <1>10, <2>2
    <3>4. \A p \in Runs : DOMAIN run'[p].got = {}
      BY <3>2
    <3> QED
      BY <1>12, <2>2, <3>1, <3>3, <3>4
  <2>3. CASE q # r
    <3>1. q \notin others /\ run[q].alone
      BY <1>11, <2>3
    <3>2. ~Sync!Working(q) /\ ~Sync!Working(q)' /\ run'[q].st # "insert"
      BY <1>4, <1>11, <1>12, <2>3, <3>1 DEF Sync!Working
    <3>3. DOMAIN run'[r].got = {}
      BY <1>8, <1>10
    <3> QED
      BY <1>11, <2>3, <3>1, <3>2, <3>3 DEF SyncInv, SyncAlone
  <2> QED
    BY <2>2, <2>3
<1>19. SyncOwing'
  <2>1. ASSUME NEW d \in due PROVE SyncToFetch(r, d)'
    <3>1. PICK i \in DOMAIN listed : listed[i] = d
      BY <1>6
    <3>2. i > 0 * PageSize
      BY <1>5 DEF SyncBounds
    <3> QED
      BY <1>1, <1>8, <1>10, <3>1, <3>2 DEF SyncToFetch
  <2>2. ASSUME NEW q \in Runs \ {r}, NEW d \in run[q].due
        PROVE  /\ SyncInHand(q, d) => SyncInHand(q, d)'
               /\ SyncToFetch(q, d) => SyncToFetch(q, d)'
               /\ SyncStored(q, d) => SyncStored(q, d)'
    BY <1>1, <1>11 DEF SyncInHand, SyncToFetch, SyncStored
  <2>3. \A q \in Runs \ {r} : \A d \in run'[q].due : d.fid # NoId =>
           /\ run'[q].st = "fetch" => SyncInHand(q, d)' \/ SyncToFetch(q, d)'
           /\ run'[q].st \in {"find", "ended"} \cup SyncStoring /\ ~run'[q].cut =>
                 SyncInHand(q, d)' \/ SyncStored(q, d)'
    BY <1>11, <2>2 DEF SyncInv, SyncOwing
  <2>4. run'[r].st = "fetch" /\ run'[r].due = due
    BY <1>8, <1>10
  <2> QED
    BY <2>1, <2>3, <2>4 DEF SyncOwing, SyncStoring
<1> QED
  BY <1>14, <1>15, <1>16, <1>17, <1>18, <1>19 DEF SyncInv
-----------------------------------------------------------------------------
(* The invariant holds initially, and every step keeps it.                    *)
LEMMA SyncInitially == ASSUME Sync!Init, SyncBounds PROVE SyncInv
<1>1. listed \in Seq(Sync!Items) /\ Len(listed) <= MaxListed
      /\ \A i, j \in DOMAIN listed : listed[i].fid = listed[j].fid => i = j
  <2>1. listed \in UNION {[1..n -> Sync!Items] : n \in 0..MaxListed}
        /\ \A i, j \in DOMAIN listed : i # j => listed[i].fid # listed[j].fid
    BY DEF Sync!Init, Sync!Listings
  <2>2. PICK n \in 0..MaxListed : listed \in [1..n -> Sync!Items]
    BY <2>1
  <2> QED
    BY <2>1, <2>2 DEF SyncBounds
<1>2. \A r \in Runs : run[r] = Sync!NoRun
  BY DEF Sync!Init
<1>3. /\ Sync!NoRun.st = "idle" /\ Sync!NoRun.page = 0 /\ Sync!NoRun.got = <<>>
       /\ Sync!NoRun.counted = {}
      /\ Sync!NoRun.due = {} /\ DOMAIN Sync!NoRun.got = {}
  BY DEF Sync!NoRun
<1>4. Sync!NoRun \in SyncRunStates
  <2>1. <<>> \in Seq(SyncReadables) /\ 0 \in 0..(MaxPages - 1)
    BY DEF SyncBounds
  <2> DEFINE G == Seq(SyncReadables)
  <2>2. SyncRunStates = [st : Sync!Steps \cup {"idle"}, page : 0..(MaxPages - 1), got : G,
                         counted : SUBSET (TradeIds \cup {NoId}), due : SUBSET Sync!Items,
                         cut : BOOLEAN, alone : BOOLEAN]
    BY DEF SyncRunStates, SyncReadables
  <2> HIDE DEF G
  <2> QED
    BY <2>1, <2>2 DEF Sync!NoRun, G
<1> HIDE DEF Sync!NoRun
<1>5. SyncRunTyped
  BY <1>2, <1>3, <1>4 DEF SyncRunTyped, Sync!Init, SyncStoring
<1>6. SyncTable
  BY FS_EmptySet DEF SyncTable, Sync!Init
<1>7. SyncListing
  BY <1>1, <1>2, <1>3 DEF SyncListing, Sync!Init, SyncBounds
<1>8. SyncCounting /\ SyncAlone /\ SyncOwing
  BY <1>2, <1>3 DEF SyncCounting, SyncAlone, SyncOwing, SyncStoring, Sync!Working
<1> QED
  BY <1>5, <1>6, <1>7, <1>8 DEF SyncInv

LEMMA SyncNextKeeps == ASSUME SyncInv, SyncBounds, [Sync!Next]_(Sync!vars) PROVE SyncInv'
<1>1. CASE UNCHANGED Sync!vars
  <2>1. UNCHANGED <<chamber, listed, changes, trades, run>>
    BY <1>1 DEF Sync!vars
  <2>2. SyncRunTyped' /\ SyncTable'
    BY <2>1 DEF SyncInv, SyncRunTyped, SyncRunStates, Sync!Readable, Sync!Working, SyncTable
  <2>3. SyncListing'
    BY <2>1 DEF SyncInv, SyncListing, Sync!Readable
  <2>4. SyncCounting'
    BY <2>1 DEF SyncInv, SyncCounting, Sync!Item, SyncHasRow
  <2>5. SyncAlone'
    BY <2>1 DEF SyncInv, SyncAlone, Sync!Item, SyncHasRow, Sync!Working
  <2>6. SyncOwing'
    BY <2>1 DEF SyncInv, SyncOwing, SyncInHand, SyncToFetch, SyncStored
  <2> QED
    BY <2>2, <2>3, <2>4, <2>5, <2>6 DEF SyncInv
<1>2. CASE Sync!Publish
  BY <1>2, SyncPublishKeeps
<1>3. CASE Sync!Correct
  BY <1>3, SyncCorrectKeeps
<1>4. ASSUME NEW r \in Runs, Sync!SenateSync(r) \/ Sync!HouseSync(r) PROVE SyncInv'
  <2>1. \/ Sync!Begin(r) \/ Sync!FetchPage(r) \/ Sync!FetchOdd(r) \/ Sync!FetchFails(r)
         \/ Sync!FindExisting(r)
        \/ Sync!CheckExisting(r) \/ Sync!StatementFails(r) \/ Sync!Update(r)
               \/ Sync!Insert(r) \/ Sync!Finish(r)
    BY <1>4 DEF Sync!SenateSync, Sync!HouseSync, Sync!Sync, Sync!SenateUpsert, Sync!HouseUpsert,
           Sync!Upsert
  <2> QED
    BY <2>1, SyncBeginKeeps, SyncFetchPageKeeps, SyncFetchOddKeeps, SyncFetchFailsKeeps,
           SyncFindExistingKeeps,
       SyncCheckExistingKeeps, SyncStatementFailsKeeps, SyncUpdateKeeps, SyncInsertKeeps,
              SyncFinishKeeps
<1> QED
  BY <1>1, <1>2, <1>3, <1>4 DEF Sync!Next

(* What it implies. *)
LEMMA SyncHolds == ASSUME SyncInv, SyncBounds
       PROVE Sync!TypeOK /\ Sync!CountedMeansStored /\ Sync!SyncComplete
<1>1. Sync!TypeOK
  <2>1. \A r \in Runs :
          /\ run[r].st \in Sync!Steps \cup {"idle"}
          /\ run[r].page \in 0..(MaxPages - 1)
          /\ run[r].got \in Seq({item \in Sync!Items : Sync!Readable(item)})
          /\ run[r].counted \subseteq TradeIds \cup {NoId}
          /\ run[r].due \subseteq Sync!Items
          /\ {run[r].cut, run[r].alone} \subseteq BOOLEAN
    <3> SUFFICES ASSUME NEW r \in Runs
                 PROVE  /\ run[r].st \in Sync!Steps \cup {"idle"}
                        /\ run[r].page \in 0..(MaxPages - 1)
                        /\ run[r].got \in Seq({item \in Sync!Items : Sync!Readable(item)})
                        /\ run[r].counted \subseteq TradeIds \cup {NoId}
                        /\ run[r].due \subseteq Sync!Items
                        /\ {run[r].cut, run[r].alone} \subseteq BOOLEAN
      OBVIOUS
    <3>1. run[r].cut \in BOOLEAN /\ run[r].alone \in BOOLEAN
      BY SyncRunFields DEF SyncInv
    <3>2. {run[r].cut, run[r].alone} \subseteq BOOLEAN
      BY <3>1, Zenon
    <3> QED
      BY <3>2, SyncRunFields DEF SyncInv
  <2> QED
    BY <2>1 DEF Sync!TypeOK, SyncInv, SyncListing, SyncTable
<1>2. Sync!CountedMeansStored
  <2> SUFFICES ASSUME NEW r \in Runs, NEW f \in run[r].counted \ {NoId}
               PROVE  Cardinality(Sync!RowOf(f)) = 1
    BY SameCardinality DEF Sync!CountedMeansStored
  <2>1. PICK t \in trades : t.fid = f
    BY DEF SyncInv, SyncCounting, SyncHasRow
  <2>2. Sync!RowOf(f) = {t}
    BY <2>1 DEF Sync!RowOf, SyncInv, SyncTable
  <2> QED
    BY <2>2, FS_Singleton
<1>3. Sync!SyncComplete
  <2> SUFFICES ASSUME NEW r \in Runs, run[r].st = "ended", ~run[r].cut,
                      NEW d \in run[r].due, d.fid # NoId
               PROVE  SyncStored(r, d)
    BY DEF Sync!SyncComplete, SyncStored
  <2>1. SyncInHand(r, d) \/ SyncStored(r, d)
    BY DEF SyncInv, SyncOwing
  <2>2. run[r].got = <<>>
    BY DEF SyncInv, SyncRunTyped, Sync!Working
  <2>3. DOMAIN run[r].got = {}
    BY <2>2
  <2> QED
    BY <2>1, <2>3 DEF SyncInHand
<1> QED
  BY <1>1, <1>2, <1>3
-----------------------------------------------------------------------------
SenatorReading == {"stocks", "follows", "alert", "declined"}
SenatorSending == {"send", "log", "logError"}
SenatorPushing == {"done"} \cup SenatorSending

(* While a pair is in hand it is one of a trade and a row, and a user has one *)
(* row.                                                                      *)
SenatorPlaced ==
    /\ \A i, j \in DOMAIN rows : rows[i] = rows[j] => i = j
    /\ st \in {"trades", "users"} =>
          handed = <<>> /\ rows = <<>> /\ at = [trade |-> 1, user |-> 1]
    /\ st \in {"prefs"} \cup SenatorReading \cup SenatorPushing =>
          at.trade \in 1..Len(trades) /\ at.user \in 1..Len(rows)
    /\ st \in {"log", "logError"} => handed # <<>>

(* What was handed over is about a trade before the one in hand, or a user    *)
(* before the one in hand, or about them and to a token no longer queued.    *)
SenatorPassed(h) ==
    \/ h[1] < at.trade
    \/ h[1] = at.trade /\ \E j \in 1..(at.user - 1) : rows[j] = h[2]
    \/ h[1] = at.trade /\ h[2] = Senators!User /\ st \in SenatorPushing /\ h[3] \notin queue

(* No user gets a trade twice on one token.                                   *)
SenatorOnce == \A i, j \in DOMAIN handed : handed[i] = handed[j] => i = j

SenatorHandedPassed == \A i \in DOMAIN handed : SenatorPassed(handed[i])

(* What was read of a profile that did not change is the profile, or what a   *)
(* failed read stands for.                                                   *)
SenatorReadAsIs ==
    steady =>
       /\ st \in {"stocks", "follows"} =>
             /\ saw.on
             /\ "prefs" \notin failed =>
                   /\ profile[Senators!User].on
                   /\ saw.holdingsOnly = profile[Senators!User].holdingsOnly
                   /\ saw.followedOnly = profile[Senators!User].followedOnly
       /\ st = "follows" =>
             /\ saw.holds => profile[Senators!User].holds
             /\ "stocks" \notin failed => saw.holds = profile[Senators!User].holds

SenatorCore == Senators!TypeOK /\ SenatorPlaced /\ SenatorHandedPassed /\ SenatorOnce
       /\ SenatorReadAsIs /\ Senators!AlertsWanted

(* A token that has not moved is of the user it is queued for or was handed    *)
(* over for.                                                                 *)
SenatorHeld ==
    /\ \A i \in DOMAIN handed : handed[i][3] \in moved \cup device[handed[i][2]]
    /\ st \in SenatorSending => \A t \in queue : t \in moved \cup device[Senators!User]

SenatorInv == SenatorCore /\ SenatorHeld
-----------------------------------------------------------------------------
(* The user and the trade in hand.                                           *)
LEMMA SenatorInHandTyped ==
    ASSUME Senators!TypeOK, SenatorPlaced,
           st \in {"prefs"} \cup SenatorReading \cup SenatorPushing
    PROVE  Senators!User \in Users /\ Senators!Trade \in Senators!Types
           /\ at.trade \in 1..Len(trades)
           /\ at.user \in 1..Len(rows) /\ profile[Senators!User] \in Senators!Profiles
BY DEF Senators!TypeOK, SenatorPlaced, Senators!User, Senators!Trade

(* Outside the reads nothing is said of what was read.                        *)
LEMMA SenatorNothingRead == st \notin SenatorReading => SenatorReadAsIs /\ Senators!AlertsWanted
BY DEF SenatorReadAsIs, Senators!AlertsWanted, SenatorReading

LEMMA SenatorEditProfileKeeps == ASSUME SenatorCore, MaxEdits \in Nat, Senators!EditProfile
       PROVE SenatorCore'
<1>1. PICK u \in Users, p \in Senators!Profiles :
         profile' = [profile EXCEPT ![u] = p] /\ steady' = (steady /\ ~Senators!InHand(u))
  BY DEF Senators!EditProfile
<1>2. /\ UNCHANGED <<trades, device, moved, st, rows, at, saw, queue, handed, log, failed>>
      /\ edits' \in 0..MaxEdits
  BY DEF Senators!EditProfile, Senators!work, SenatorCore, Senators!TypeOK
<1>3. Senators!TypeOK'
  <2>1. profile' \in [Users -> Senators!Profiles]
    BY <1>1 DEF SenatorCore, Senators!TypeOK
  <2>2. steady' \in BOOLEAN
    BY <1>1
  <2> QED
    BY <1>2, <2>1, <2>2 DEF SenatorCore, Senators!TypeOK
<1>4. SenatorPlaced' /\ SenatorHandedPassed' /\ SenatorOnce'
  BY <1>2 DEF SenatorCore, SenatorPlaced, SenatorHandedPassed, SenatorPassed,
         SenatorOnce, Senators!User
<1>5. SenatorReadAsIs' /\ Senators!AlertsWanted'
  <2>1. CASE st \notin SenatorReading \/ ~steady'
    BY <1>2, <2>1 DEF SenatorReadAsIs, Senators!AlertsWanted, SenatorReading
  <2>2. CASE st \in SenatorReading /\ steady'
    <3>1. steady /\ Senators!User # u
      BY <1>1, <2>2 DEF Senators!InHand, SenatorReading, Senators!User
    <3>2. profile'[Senators!User] = profile[Senators!User]
      BY <1>1, <2>2, <3>1, SenatorInHandTyped DEF SenatorCore, Senators!TypeOK
    <3>3. Senators!User' = Senators!User /\ Senators!Trade' = Senators!Trade
      BY <1>2 DEF Senators!User, Senators!Trade
    <3> QED
      BY <1>2, <3>1, <3>2, <3>3 DEF SenatorCore, SenatorReadAsIs, Senators!AlertsWanted
  <2> QED
    BY <2>1, <2>2
<1> QED
  BY <1>3, <1>4, <1>5 DEF SenatorCore

LEMMA SenatorMoveTokenKeeps ==
    ASSUME SenatorCore, MaxEdits \in Nat, IsFiniteSet(Users), Senators!MoveToken PROVE SenatorCore'
<1>1. PICK t \in Tokens, owner \in [Users -> BOOLEAN] :
         /\ Cardinality({u \in Users : owner[u]}) <= 1
         /\ device' = [u \in Users |-> IF owner[u] THEN device[u] \cup {t}
                                                   ELSE device[u] \ {t}]
         /\ moved' = IF device' = device THEN moved ELSE moved \cup {t}
  BY SameCardinality DEF Senators!MoveToken
<1>2. /\ UNCHANGED <<trades, profile, st, rows, at, saw, queue, handed, log, failed, steady>>
      /\ edits' \in 0..MaxEdits
  BY DEF Senators!MoveToken, Senators!work, SenatorCore, Senators!TypeOK
<1>3. \A u, v \in Users : owner[u] /\ owner[v] => u = v
  <2> SUFFICES ASSUME NEW u \in Users, NEW v \in Users, owner[u], owner[v], u # v PROVE FALSE
    OBVIOUS
  <2> DEFINE O == {w \in Users : owner[w]}
  <2>1. IsFiniteSet(O) /\ {u, v} \subseteq O
    BY FS_Subset
  <2>2. IsFiniteSet({u}) /\ Cardinality({u}) = 1
    BY FS_Singleton
  <2>3. Cardinality({u} \cup {v}) = 2 /\ {u} \cup {v} = {u, v}
    <3>1. v \notin {u} /\ {u} \cup {v} = {u, v}
      OBVIOUS
    <3> DEFINE U == {u}
    <3>2. IsFiniteSet(U) /\ v \notin U /\ Cardinality(U) = 1
      BY <2>2, <3>1
    <3> HIDE DEF U
    <3>3. Cardinality(U \cup {v}) = 1 + 1
      BY <3>2, FS_AddElement
    <3> QED
      BY <3>1, <3>3 DEF U
  <2>4. Cardinality({u, v}) <= Cardinality(O) /\ Cardinality(O) \in Nat
    BY <2>1, FS_Subset, FS_CardinalityType
  <2>5. Cardinality(O) <= 1
    BY <1>1, Zenon
  <2> HIDE DEF O
  <2> QED
    BY <2>3, <2>4, <2>5
<1>4. Senators!TypeOK'
  <2>1. device' \in [Users -> SUBSET Tokens]
    BY <1>1 DEF SenatorCore, Senators!TypeOK
  <2>2. \A u, v \in Users : u # v => device'[u] \cap device'[v] = {}
    <3> SUFFICES ASSUME NEW u \in Users, NEW v \in Users, u # v
                 PROVE  device'[u] \cap device'[v] = {}
      OBVIOUS
    <3>1. device[u] \cap device[v] = {}
      BY DEF SenatorCore, Senators!TypeOK
    <3>2. ~(owner[u] /\ owner[v])
      BY <1>3
    <3> QED
      BY <1>1, <3>1, <3>2
  <2> QED
    BY <1>1, <1>2, <2>1, <2>2 DEF SenatorCore, Senators!TypeOK
<1>5. SenatorPlaced' /\ SenatorHandedPassed' /\ SenatorOnce' /\ SenatorReadAsIs'
       /\ Senators!AlertsWanted'
  BY <1>2 DEF SenatorCore, SenatorPlaced, SenatorHandedPassed, SenatorPassed,
         SenatorOnce, SenatorReadAsIs, Senators!AlertsWanted, Senators!User,
                Senators!Trade
<1> QED
  BY <1>4, <1>5 DEF SenatorCore

LEMMA SenatorSelectKeeps ==
    ASSUME SenatorCore, IsFiniteSet(Users),
           Senators!SelectTrades \/ Senators!SelectUsers \/ Senators!SelectFails PROVE SenatorCore'
<1>1. /\ UNCHANGED <<trades, profile, device, moved, edits, at, saw, queue, handed, log,
                      failed, steady>>
      /\ st \in {"trades", "users"} /\ st' \in {"users", "prefs", "ended"}
      /\ rows' = rows \/ rows' = Senators!UserRows
  BY DEF Senators!SelectTrades, Senators!SelectUsers, Senators!SelectFails, Senators!people,
         Senators!Begin
<1>2. rows' \in Seq(Users) /\ \A i, j \in DOMAIN rows' : rows'[i] = rows'[j] => i = j
  <2>1. IsFiniteSet({u \in Users : device[u] # {}})
    BY FS_Subset
  <2>2. /\ Senators!UserRows \in Seq({u \in Users : device[u] # {}})
        /\ \A i, j \in DOMAIN Senators!UserRows : Senators!UserRows[i] = Senators!UserRows[j]
               => i = j
    BY <2>1, SetToSeqEachOnce DEF Senators!UserRows, EachOnce
  <2>3. Senators!UserRows \in Seq(Users)
    BY <2>2
  <2> QED
    BY <1>1, <2>2, <2>3 DEF SenatorCore, Senators!TypeOK, SenatorPlaced
<1>3. at = [trade |-> 1, user |-> 1] /\ handed = <<>> /\ rows = <<>>
  BY <1>1 DEF SenatorCore, SenatorPlaced
<1>4. Senators!TypeOK'
  BY <1>1, <1>2, <1>3 DEF SenatorCore, Senators!TypeOK
<1>5. st' = "prefs" => at.trade \in 1..Len(trades) /\ at.user \in 1..Len(rows')
  BY <1>1, <1>2, <1>3 DEF SenatorCore, Senators!TypeOK, Senators!SelectTrades,
         Senators!SelectUsers, Senators!SelectFails, Senators!Begin
<1>6. st' = "users" => rows' = rows
  BY DEF Senators!SelectTrades, Senators!SelectUsers, Senators!SelectFails, Senators!Begin
<1>7. SenatorPlaced'
  BY <1>1, <1>2, <1>3, <1>5, <1>6 DEF SenatorPlaced, SenatorReading,
         SenatorPushing, SenatorSending
<1>8. SenatorHandedPassed' /\ SenatorOnce'
  BY <1>1, <1>3 DEF SenatorHandedPassed, SenatorOnce
<1>9. SenatorReadAsIs' /\ Senators!AlertsWanted'
  BY <1>1 DEF SenatorReadAsIs, Senators!AlertsWanted
<1> QED
  BY <1>4, <1>7, <1>8, <1>9 DEF SenatorCore

(* A read leaves what was handed over before the pair in hand.                *)
LEMMA SenatorReadKeeps ==
    ASSUME SenatorCore,
           UNCHANGED <<trades, profile, device, moved, edits, rows, at, queue, handed, log>>,
           st \in {"prefs", "stocks", "follows"}, st' \in SenatorReading,
           saw' \in Senators!Profiles, failed' \subseteq {"prefs", "stocks", "follows"},
           steady' \in BOOLEAN
    PROVE  Senators!TypeOK' /\ SenatorPlaced' /\ SenatorHandedPassed' /\ SenatorOnce'
<1>1. Senators!TypeOK'
  BY DEF SenatorCore, Senators!TypeOK, SenatorReading
<1>2. SenatorPlaced'
  BY DEF SenatorCore, SenatorPlaced, SenatorReading,
         SenatorPushing, SenatorSending
<1>3. SenatorHandedPassed' /\ SenatorOnce'
  BY DEF SenatorCore, SenatorHandedPassed, SenatorPassed, SenatorOnce, Senators!User,
         SenatorPushing, SenatorSending
<1> QED
  BY <1>1, <1>2, <1>3

LEMMA SenatorReadPreferencesKeeps ==
    ASSUME SenatorCore, NEW ok \in BOOLEAN, Senators!ReadPreferences(ok) PROVE SenatorCore'
<1>1. /\ UNCHANGED <<trades, profile, device, moved, edits, rows, at, queue, handed, log>>
      /\ st = "prefs" /\ steady' = TRUE
      /\ failed' = IF ok THEN {} ELSE {"prefs"}
      /\ saw' = IF ok THEN [profile[Senators!User] EXCEPT !.holds = FALSE,
             !.follow = Senators!NoFollow]
                ELSE Senators!DefaultProfile
      /\ st' = IF saw'.on THEN "stocks" ELSE "declined"
  BY DEF Senators!ReadPreferences, Senators!people
<1>2. Senators!User \in Users /\ profile[Senators!User] \in Senators!Profiles
  BY <1>1, SenatorInHandTyped DEF SenatorCore
<1>3. /\ ok => /\ saw' \in Senators!Profiles /\ saw'.on = profile[Senators!User].on
               /\ saw'.holdingsOnly = profile[Senators!User].holdingsOnly
               /\ saw'.followedOnly = profile[Senators!User].followedOnly
      /\ ~ok => saw' \in Senators!Profiles /\ saw'.on = TRUE
  BY <1>1, <1>2 DEF Senators!Profiles, Senators!DefaultProfile, Senators!Follows
<1>4. /\ st' \in SenatorReading /\ failed' \subseteq {"prefs", "stocks", "follows"}
      /\ ok => failed' = {}
      /\ ~ok => "prefs" \in failed'
      /\ Senators!User' = Senators!User /\ profile' = profile
  BY <1>1 DEF SenatorReading, Senators!User
<1>5. Senators!TypeOK' /\ SenatorPlaced' /\ SenatorHandedPassed' /\ SenatorOnce'
  BY <1>1, <1>3, <1>4, SenatorReadKeeps
<1>6. CASE st' = "stocks" /\ saw'.on
  <2>1. ok => profile[Senators!User].on
    BY <1>3, <1>6
  <2> QED
    <3>1. ~ok => "prefs" \in failed'
      BY <1>4
    <3>2. SenatorReadAsIs'
      BY <1>3, <1>4, <1>6, <2>1, <3>1 DEF SenatorReadAsIs
    <3>3. Senators!AlertsWanted'
      BY <1>6 DEF Senators!AlertsWanted
    <3> QED
      BY <1>5, <3>2, <3>3 DEF SenatorCore
<1>7. CASE st' = "declined" /\ ~saw'.on
  <2>1. ok /\ ~profile[Senators!User].on
    BY <1>3, <1>7
  <2> QED
    BY <1>4, <1>5, <1>7, <2>1 DEF SenatorCore, SenatorReadAsIs, Senators!AlertsWanted,
           Senators!Wants
<1> QED
  BY <1>1, <1>6, <1>7

LEMMA SenatorReadStocksKeeps ==
    ASSUME SenatorCore, NEW ok \in BOOLEAN, Senators!ReadStocks(ok) PROVE SenatorCore'
<1>1. /\ UNCHANGED <<trades, profile, device, moved, edits, rows, at, queue, handed, log, steady>>
      /\ st = "stocks" /\ st' = "follows"
      /\ failed' = IF ok THEN failed ELSE failed \cup {"stocks"}
      /\ saw' = [saw EXCEPT !.holds = ok /\ profile[Senators!User].holds]
  BY DEF Senators!ReadStocks, Senators!people
<1>2. Senators!User \in Users /\ profile[Senators!User] \in Senators!Profiles
       /\ saw \in Senators!Profiles
      /\ failed \subseteq {"prefs", "stocks", "follows"} /\ steady \in BOOLEAN
  BY <1>1, SenatorInHandTyped DEF SenatorCore, Senators!TypeOK, SenatorReading
<1>3. /\ saw' \in Senators!Profiles /\ saw'.on = saw.on
      /\ saw'.holdingsOnly = saw.holdingsOnly /\ saw'.followedOnly = saw.followedOnly
      /\ saw'.holds = (ok /\ profile[Senators!User].holds)
  BY <1>1, <1>2 DEF Senators!Profiles
<1>4. /\ failed' \subseteq {"prefs", "stocks", "follows"} /\ failed \subseteq failed'
      /\ ~ok => "stocks" \in failed'
      /\ Senators!User' = Senators!User /\ profile' = profile /\ st' \in SenatorReading
  BY <1>1, <1>2 DEF SenatorReading, Senators!User
<1>5. Senators!TypeOK' /\ SenatorPlaced' /\ SenatorHandedPassed' /\ SenatorOnce'
  BY <1>1, <1>2, <1>3, <1>4, SenatorReadKeeps
<1>6. SenatorReadAsIs'
  <2> SUFFICES ASSUME steady
               PROVE  /\ saw'.on
                      /\ "prefs" \notin failed' =>
                            /\ profile[Senators!User].on
                            /\ saw'.holdingsOnly = profile[Senators!User].holdingsOnly
                            /\ saw'.followedOnly = profile[Senators!User].followedOnly
                      /\ saw'.holds => profile[Senators!User].holds
                      /\ "stocks" \notin failed' => saw'.holds = profile[Senators!User].holds
    BY <1>1, <1>4, Zenon DEF SenatorReadAsIs
  <2>1. "stocks" \notin failed' => saw'.holds = profile[Senators!User].holds
    <3>1. profile[Senators!User].holds \in BOOLEAN
      BY <1>2 DEF Senators!Profiles
    <3>2. CASE ok
      BY <1>3, <3>1, <3>2
    <3>3. CASE ~ok
      BY <1>4, <3>3
    <3> QED
      BY <3>2, <3>3
  <2>2. saw'.holds => profile[Senators!User].holds
    BY <1>3
  <2> QED
    BY <1>1, <1>3, <1>4, <2>1, <2>2 DEF SenatorCore, SenatorReadAsIs
<1>7. Senators!AlertsWanted'
  BY <1>1 DEF Senators!AlertsWanted
<1> QED
  BY <1>5, <1>6, <1>7 DEF SenatorCore

LEMMA SenatorReadFollowsKeeps == ASSUME SenatorCore,
       Senators!ReadFollows \/ Senators!ReadFollowsFails PROVE SenatorCore'
<1>1. /\ UNCHANGED <<trades, profile, device, moved, edits, rows, at, queue, handed, log, steady>>
      /\ st = "follows" /\ st' \in {"alert", "declined"}
  BY DEF Senators!ReadFollows, Senators!ReadFollowsFails, Senators!people
<1>2. Senators!User \in Users /\ profile[Senators!User] \in Senators!Profiles
       /\ saw \in Senators!Profiles
      /\ failed \subseteq {"prefs", "stocks", "follows"} /\ steady \in BOOLEAN
  BY <1>1, SenatorInHandTyped DEF SenatorCore, Senators!TypeOK, SenatorReading
<1>3. Senators!User' = Senators!User /\ Senators!Trade' = Senators!Trade
       /\ profile' = profile /\ st' \in SenatorReading
  BY <1>1 DEF SenatorReading, Senators!User, Senators!Trade
<1>4. SenatorReadAsIs'
  BY <1>1 DEF SenatorReadAsIs
<1>5. CASE Senators!ReadFollowsFails
  <2>1. saw' = saw /\ failed' = failed \cup {"follows"} /\ st' = "declined"
    BY <1>5 DEF Senators!ReadFollowsFails
  <2>2. Senators!TypeOK' /\ SenatorPlaced' /\ SenatorHandedPassed' /\ SenatorOnce'
    BY <1>1, <1>2, <1>3, <2>1, SenatorReadKeeps
  <2>3. Senators!AlertsWanted'
    BY <2>1 DEF Senators!AlertsWanted
  <2> QED
    BY <1>4, <2>2, <2>3 DEF SenatorCore
<1>6. CASE Senators!ReadFollows
  <2> DEFINE p == profile[Senators!User]
  <2>1. /\ saw' = [saw EXCEPT !.follow = p.follow] /\ failed' = failed
        /\ st' = IF Senators!ShouldAlert(saw', Senators!Trade) THEN "alert" ELSE "declined"
    BY <1>6 DEF Senators!ReadFollows
  <2>2. /\ saw' \in Senators!Profiles /\ saw'.follow = p.follow /\ saw'.on = saw.on
        /\ saw'.holds = saw.holds
        /\ saw'.holdingsOnly = saw.holdingsOnly /\ saw'.followedOnly = saw.followedOnly
    BY <1>2, <2>1 DEF Senators!Profiles
  <2>3. Senators!TypeOK' /\ SenatorPlaced' /\ SenatorHandedPassed' /\ SenatorOnce'
    BY <1>1, <1>2, <1>3, <2>1, <2>2, SenatorReadKeeps
  <2>4. Senators!AlertsWanted'
    <3> SUFFICES ASSUME steady
                 PROVE  /\ st' = "alert" =>
                              /\ "prefs" \notin failed => Senators!Wants(p, Senators!Trade)
                              /\ p.holds \/ p.follow # Senators!NoFollow
                        /\ st' = "declined" /\ failed = {} =>
                              \/ ~Senators!Wants(p, Senators!Trade)
                              \/ Senators!TypeSilenced(p, Senators!Trade)
      BY <1>1, <1>3, <2>1 DEF Senators!AlertsWanted
    <3>1. /\ "prefs" \notin failed =>
                 p.on /\ saw.holdingsOnly = p.holdingsOnly /\ saw.followedOnly = p.followedOnly
          /\ saw.holds => p.holds
          /\ "stocks" \notin failed => saw.holds = p.holds
      BY <1>1 DEF SenatorCore, SenatorReadAsIs
    <3> HIDE DEF p
    <3>2. CASE Senators!ShouldAlert(saw', Senators!Trade)
      <4>1. /\ Senators!TypeAsked(p.follow, Senators!Trade)
            /\ saw.holds \/ p.follow # Senators!NoFollow
            /\ saw.holdingsOnly => saw.holds
            /\ saw.followedOnly => p.follow # Senators!NoFollow
        BY <2>2, <3>2 DEF Senators!ShouldAlert
      <4>2. st' = "alert"
        BY <2>1, <3>2
      <4>3. p.holds \/ p.follow # Senators!NoFollow
        BY <3>1, <4>1
      <4>4. ASSUME "prefs" \notin failed PROVE Senators!Wants(p, Senators!Trade)
        BY <3>1, <4>1, <4>4 DEF Senators!Wants
      <4> QED
        BY <4>2, <4>3, <4>4
    <3>3. CASE ~Senators!ShouldAlert(saw', Senators!Trade)
      <4>1. st' = "declined"
        BY <2>1, <3>3
      <4>2. ASSUME failed = {}, Senators!Wants(p, Senators!Trade)
            PROVE  Senators!TypeSilenced(p, Senators!Trade)
        <5>1. CASE Senators!TypeAsked(p.follow, Senators!Trade)
          <6>1. Senators!ShouldAlert(saw', Senators!Trade)
            BY <2>2, <3>1, <4>2, <5>1 DEF Senators!ShouldAlert, Senators!Wants
          <6> QED
            BY <3>3, <6>1
        <5>2. CASE ~Senators!TypeAsked(p.follow, Senators!Trade)
          BY <4>2, <5>2 DEF Senators!Wants, Senators!TypeSilenced
        <5> QED
          BY <5>1, <5>2
      <4> QED
        BY <4>1, <4>2
    <3> QED
      BY <3>2, <3>3
  <2> QED
    BY <1>4, <2>3, <2>4 DEF SenatorCore
<1> QED
  BY <1>5, <1>6

(* The tokens of the pair in hand leave what was handed over before it.       *)
LEMMA SenatorTokensKeep ==
    ASSUME SenatorCore, Senators!SelectTokens \/ Senators!SelectTokensFails
           \/ Senators!SkipOldToken PROVE SenatorCore'
<1>1. /\ UNCHANGED <<trades, profile, device, moved, edits, rows, at, saw, handed, log,
                      failed, steady>>
      /\ st \in {"alert", "send"} /\ st' \in {"done", "send"}
      /\ \/ st = "alert" /\ (queue' = device[Senators!User] \/ queue' = queue)
         \/ st = "send" /\ queue' \subseteq queue
  BY DEF Senators!SelectTokens, Senators!SelectTokensFails, Senators!SkipOldToken,
         Senators!people, Senators!More
<1>2. Senators!User \in Users /\ Senators!User' = Senators!User
  BY <1>1, SenatorInHandTyped DEF SenatorCore, Senators!TypeOK, SenatorReading,
         SenatorPushing, SenatorSending,
         Senators!User
<1>3. Senators!TypeOK'
  <2>1. queue' \subseteq Tokens
    BY <1>1, <1>2 DEF SenatorCore, Senators!TypeOK
  <2> QED
    BY <1>1, <2>1 DEF SenatorCore, Senators!TypeOK
<1>4. SenatorPlaced'
  BY <1>1 DEF SenatorCore, SenatorPlaced, SenatorReading,
         SenatorPushing, SenatorSending
<1>5. SenatorHandedPassed' /\ SenatorOnce'
  <2>1. \A i \in DOMAIN handed : SenatorPassed(handed[i])
    BY DEF SenatorCore, SenatorHandedPassed
  <2>2. st = "alert" => st \notin SenatorPushing
    BY DEF SenatorPushing, SenatorSending
  <2>3. \A i \in DOMAIN handed : SenatorPassed(handed[i])'
    BY <1>1, <1>2, <2>1, <2>2 DEF SenatorPassed,
           SenatorPushing, SenatorSending
  <2> QED
    BY <1>1, <2>3 DEF SenatorCore, SenatorHandedPassed, SenatorOnce
<1>6. SenatorReadAsIs' /\ Senators!AlertsWanted'
  BY <1>1 DEF SenatorReadAsIs, Senators!AlertsWanted
<1> QED
  BY <1>3, <1>4, <1>5, <1>6 DEF SenatorCore

LEMMA SenatorSendKeeps == ASSUME SenatorCore, Senators!Send PROVE SenatorCore'
<1>1. PICK t \in queue \ OldTokens :
         /\ queue' = queue \ {t} /\ handed' = Append(handed, <<at.trade, Senators!User, t>>)
         /\ st = "send" /\ st' \in {"log", "logError", "done", "send"}
         /\ UNCHANGED <<trades, profile, device, moved, edits, rows, at, saw, log, failed, steady>>
  BY DEF Senators!Send, Senators!people, Senators!More
<1> DEFINE H == (1..Len(trades)) \X Users \X (Tokens \ OldTokens)
           h == <<at.trade, Senators!User, t>>
<1>2. Senators!User \in Users /\ at.trade \in 1..Len(trades) /\ at.user \in 1..Len(rows)
  BY <1>1, SenatorInHandTyped DEF SenatorCore,
         SenatorPushing, SenatorSending
<1>3. Senators!User' = Senators!User /\ t \in Tokens
  BY <1>1 DEF Senators!User, SenatorCore, Senators!TypeOK
<1>4. h \in H /\ handed \in Seq(H)
  BY <1>1, <1>2, <1>3 DEF SenatorCore, Senators!TypeOK
<1>5. /\ h[1] = at.trade /\ h[2] = Senators!User /\ h[3] = t
      /\ \A i \in DOMAIN handed : handed[i] \in H
  BY <1>4
<1>6. at.trade \in Nat /\ at.user \in Nat /\ rows \in Seq(Users)
  BY <1>2 DEF SenatorCore, Senators!TypeOK
<1>7. \A i \in DOMAIN handed : handed[i] # h
  <2> SUFFICES ASSUME NEW i \in DOMAIN handed, handed[i] = h PROVE FALSE
    OBVIOUS
  <2>1. SenatorPassed(h)
    BY DEF SenatorCore, SenatorHandedPassed
  <2>2. ~(h[1] < at.trade)
    BY <1>5, <1>6
  <2>3. ~\E j \in 1..(at.user - 1) : rows[j] = h[2]
    BY <1>2, <1>5, <1>6 DEF SenatorCore, SenatorPlaced, Senators!User
  <2> QED
    BY <1>1, <1>5, <2>1, <2>2, <2>3 DEF SenatorPassed
<1> HIDE DEF H, h
<1>8. /\ handed' \in Seq(H) /\ Len(handed') = Len(handed) + 1 /\ handed' # <<>>
      /\ \A i \in DOMAIN handed : i \in DOMAIN handed' /\ handed'[i] = handed[i]
      /\ \A i \in DOMAIN handed' : i \in DOMAIN handed \/ i = Len(handed')
      /\ handed'[Len(handed')] = h
  BY <1>1, <1>4 DEF h
<1>9. Senators!TypeOK'
  <2>1. handed' \in Seq((1..Len(trades)) \X Users \X (Tokens \ OldTokens))
    BY <1>8 DEF H
  <2>2. \A l \in log : \E i \in DOMAIN handed' :
           l[1] = handed'[i][1] /\ l[2] = handed'[i][3] /\ l[3] \in {"success", "error"}
    BY <1>8 DEF SenatorCore, Senators!TypeOK
  <2>3. queue' \subseteq Tokens
    BY <1>1 DEF SenatorCore, Senators!TypeOK
  <2> QED
    BY <1>1, <2>1, <2>2, <2>3 DEF SenatorCore, Senators!TypeOK
<1>10. SenatorPlaced'
  BY <1>1, <1>2, <1>8 DEF SenatorCore, SenatorPlaced
<1>11. SenatorOnce'
  BY <1>7, <1>8 DEF SenatorCore, SenatorOnce
<1>12. SenatorHandedPassed'
  <2>1. \A i \in DOMAIN handed : SenatorPassed(handed[i])
    BY DEF SenatorCore, SenatorHandedPassed
  <2>2. \A i \in DOMAIN handed : SenatorPassed(handed[i])'
    BY <1>1, <1>3, <1>8, <2>1 DEF SenatorPassed,
           SenatorPushing, SenatorSending
  <2>3. /\ h[1] = at'.trade /\ h[2] = Senators!User' /\ st' \in SenatorPushing
         /\ h[3] \notin queue'
    BY <1>1, <1>3, <1>5 DEF SenatorPushing, SenatorSending
  <2>4. \A i \in DOMAIN handed' : i \notin DOMAIN handed => handed'[i] = h
    BY <1>8
  <2>5. ASSUME NEW i \in DOMAIN handed', i \notin DOMAIN handed PROVE SenatorPassed(handed[i])'
    BY <2>3, <2>4, <2>5 DEF SenatorPassed
  <2> QED
    BY <2>2, <2>5 DEF SenatorHandedPassed
<1>13. SenatorReadAsIs' /\ Senators!AlertsWanted'
  BY <1>1 DEF SenatorReadAsIs, Senators!AlertsWanted
<1> QED
  BY <1>9, <1>10, <1>11, <1>12, <1>13 DEF SenatorCore

LEMMA SenatorLogKeeps == ASSUME SenatorCore, Senators!Log \/ Senators!LogFails PROVE SenatorCore'
<1>1. /\ UNCHANGED <<trades, profile, device, moved, edits, rows, at, saw, queue, handed, failed,
       steady>>
      /\ st \in {"log", "logError"} /\ st' \in {"done", "send"}
  BY DEF Senators!Log, Senators!LogFails, Senators!people, Senators!More
<1>2. \A l \in log' : \E i \in DOMAIN handed :
         l[1] = handed[i][1] /\ l[2] = handed[i][3] /\ l[3] \in {"success", "error"}
  <2>1. \A l \in log : \E i \in DOMAIN handed :
           l[1] = handed[i][1] /\ l[2] = handed[i][3] /\ l[3] \in {"success", "error"}
    BY DEF SenatorCore, Senators!TypeOK
  <2>2. Len(handed) \in DOMAIN handed
    BY <1>1 DEF SenatorCore, Senators!TypeOK, SenatorPlaced
  <2> DEFINE done == handed[Len(handed)]
             l == <<done[1], done[3], IF st = "log" THEN "success" ELSE "error">>
  <2>3. l[1] = done[1] /\ l[2] = done[3] /\ l[3] \in {"success", "error"}
    OBVIOUS
  <2>4. log' = log \/ log' = log \cup {l}
    BY DEF Senators!Log, Senators!LogFails
  <2> HIDE DEF l
  <2> QED
    BY <2>1, <2>2, <2>3, <2>4
<1>3. Senators!TypeOK'
  BY <1>1, <1>2 DEF SenatorCore, Senators!TypeOK
<1>4. SenatorPlaced'
  BY <1>1 DEF SenatorCore, SenatorPlaced, SenatorReading,
         SenatorPushing, SenatorSending
<1>5. SenatorHandedPassed' /\ SenatorOnce'
  BY <1>1 DEF SenatorCore, SenatorHandedPassed, SenatorPassed,
         SenatorPushing, SenatorSending,
         SenatorOnce, Senators!User
<1>6. SenatorReadAsIs' /\ Senators!AlertsWanted'
  BY <1>1 DEF SenatorReadAsIs, Senators!AlertsWanted
<1> QED
  BY <1>3, <1>4, <1>5, <1>6 DEF SenatorCore

LEMMA SenatorNextPairKeeps == ASSUME SenatorCore, Senators!NextPair PROVE SenatorCore'
<1>1. /\ UNCHANGED <<trades, profile, device, moved, edits, rows, saw, queue, handed, log, failed,
       steady>>
      /\ st \in {"declined", "done"}
      /\ at' = IF at.user < Len(rows) THEN [at EXCEPT !.user = @ + 1]
               ELSE [trade |-> at.trade + 1, user |-> 1]
      /\ st' = IF at'.trade <= Len(trades) /\ Len(rows) > 0 THEN "prefs" ELSE "ended"
  BY DEF Senators!NextPair, Senators!people, Senators!Begin
<1>2. /\ at.trade \in 1..Len(trades) /\ at.user \in 1..Len(rows)
      /\ Len(trades) \in Nat /\ Len(rows) \in Nat
      /\ at \in [trade : 1..(Len(trades) + 1), user : 1..(Len(rows) + 1)]
  BY <1>1 DEF SenatorCore, Senators!TypeOK, SenatorPlaced, SenatorReading,
         SenatorPushing, SenatorSending
<1>3. CASE at.user < Len(rows) /\ at'.trade = at.trade /\ at'.user = at.user + 1
           /\ at' \in [trade : 1..(Len(trades) + 1), user : 1..(Len(rows) + 1)]
  <2>1. Senators!TypeOK'
    BY <1>1, <1>3 DEF SenatorCore, Senators!TypeOK
  <2>2. SenatorPlaced'
    BY <1>1, <1>2, <1>3 DEF SenatorCore, SenatorPlaced, SenatorReading,
           SenatorPushing, SenatorSending
  <2>3. SenatorHandedPassed' /\ SenatorOnce'
    <3>1. \A i \in DOMAIN handed : SenatorPassed(handed[i])
      BY DEF SenatorCore, SenatorHandedPassed
    <3>2. at.user \in 1..(at'.user - 1) /\ Senators!User = rows[at.user]
          /\ \A j \in 1..(at.user - 1) : j \in 1..(at'.user - 1)
      BY <1>2, <1>3 DEF Senators!User
    <3>3. ASSUME NEW i \in DOMAIN handed PROVE SenatorPassed(handed[i])'
      BY <1>1, <1>3, <3>1, <3>2 DEF SenatorPassed
    <3> QED
      BY <1>1, <3>3 DEF SenatorCore, SenatorHandedPassed, SenatorOnce
  <2>4. SenatorReadAsIs' /\ Senators!AlertsWanted'
    BY <1>1 DEF SenatorReadAsIs, Senators!AlertsWanted
  <2> QED
    BY <2>1, <2>2, <2>3, <2>4 DEF SenatorCore
<1>4. CASE at' = [trade |-> at.trade + 1, user |-> 1]
  <2>1. Senators!TypeOK'
    BY <1>1, <1>2, <1>4 DEF SenatorCore, Senators!TypeOK
  <2>2. SenatorPlaced'
    BY <1>1, <1>2, <1>4 DEF SenatorCore, SenatorPlaced, SenatorReading,
           SenatorPushing, SenatorSending
  <2>3. SenatorHandedPassed' /\ SenatorOnce'
    <3>1. \A i \in DOMAIN handed : SenatorPassed(handed[i])
      BY DEF SenatorCore, SenatorHandedPassed
    <3>2. \A i \in DOMAIN handed : handed[i] \in (1..Len(trades)) \X Users \X (Tokens \ OldTokens)
      BY DEF SenatorCore, Senators!TypeOK
    <3>3. ASSUME NEW i \in DOMAIN handed PROVE SenatorPassed(handed[i])'
      <4>1. handed[i][1] \in Nat /\ handed[i][1] <= at.trade
        BY <1>2, <3>1, <3>2 DEF SenatorPassed
      <4>2. handed[i][1] < at'.trade
        BY <1>2, <1>4, <4>1
      <4> QED
        BY <1>1, <4>2 DEF SenatorPassed
    <3> QED
      BY <1>1, <3>3 DEF SenatorCore, SenatorHandedPassed, SenatorOnce
  <2>4. SenatorReadAsIs' /\ Senators!AlertsWanted'
    BY <1>1 DEF SenatorReadAsIs, Senators!AlertsWanted
  <2> QED
    BY <2>1, <2>2, <2>3, <2>4 DEF SenatorCore
<1> QED
  BY <1>1, <1>2, <1>3, <1>4
-----------------------------------------------------------------------------
LEMMA SenatorInitially == ASSUME MaxEdits \in Nat, MaxTrades \in Nat, Senators!Init
       PROVE SenatorInv
<1>1. PICK n \in 0..MaxTrades : trades \in [1..n -> Senators!Types]
  BY DEF Senators!Init
<1>2. trades \in Seq(Senators!Types) /\ Len(trades) <= MaxTrades
  BY <1>1
<1>3. Senators!DefaultProfile \in Senators!Profiles
  BY DEF Senators!DefaultProfile, Senators!Profiles, Senators!Follows, Senators!NoFollow
<1>4. Senators!TypeOK
  BY <1>2, <1>3 DEF Senators!Init, Senators!TypeOK
<1>5. SenatorPlaced /\ SenatorHandedPassed /\ SenatorOnce /\ SenatorReadAsIs
       /\ Senators!AlertsWanted
  BY DEF Senators!Init, SenatorPlaced, SenatorHandedPassed, SenatorOnce,
         SenatorReadAsIs, Senators!AlertsWanted, SenatorReading, SenatorPushing, SenatorSending
<1>6. SenatorHeld
  BY DEF Senators!Init, SenatorHeld,
         SenatorPushing, SenatorSending
<1> QED
  BY <1>4, <1>5, <1>6 DEF SenatorCore, SenatorInv

LEMMA SenatorCoreKeeps ==
    ASSUME SenatorCore, IsFiniteSet(Users), MaxEdits \in Nat,
           [Senators!Next]_(Senators!vars) PROVE SenatorCore'
<1>1. CASE UNCHANGED Senators!vars
  BY <1>1 DEF Senators!vars, Senators!people, Senators!work, SenatorCore, Senators!TypeOK,
         SenatorPlaced, SenatorHandedPassed, SenatorPassed, SenatorOnce,
              SenatorReadAsIs, Senators!AlertsWanted, Senators!User, Senators!Trade
<1>2. CASE Senators!Evaluate
  <2>1. CASE Senators!SelectTrades \/ Senators!SelectUsers \/ Senators!SelectFails
    BY <2>1, SenatorSelectKeeps
  <2>2. CASE \E ok \in BOOLEAN : Senators!ReadPreferences(ok) \/ Senators!ReadStocks(ok)
    BY <2>2, SenatorReadPreferencesKeeps, SenatorReadStocksKeeps
  <2>3. CASE Senators!ReadFollows \/ Senators!ReadFollowsFails
    BY <2>3, SenatorReadFollowsKeeps
  <2>4. CASE Senators!SelectTokens \/ Senators!SelectTokensFails \/ Senators!SkipOldToken
    BY <2>4, SenatorTokensKeep
  <2>5. CASE Senators!Send
    BY <2>5, SenatorSendKeeps
  <2>6. CASE Senators!Log \/ Senators!LogFails
    BY <2>6, SenatorLogKeeps
  <2>7. CASE Senators!NextPair
    BY <2>7, SenatorNextPairKeeps
  <2> QED
    BY <1>2, <2>1, <2>2, <2>3, <2>4, <2>5, <2>6, <2>7 DEF Senators!Evaluate
<1> QED
  BY <1>1, <1>2, SenatorEditProfileKeeps, SenatorMoveTokenKeeps DEF Senators!Next


(* Every step keeps what is queued or handed over with its user.             *)
LEMMA SenatorHeldKeeps ==
    ASSUME SenatorInv, [Senators!Next]_(Senators!vars) PROVE SenatorHeld'
<1> USE DEF SenatorInv
<1>1. ASSUME UNCHANGED <<device, moved, rows, at, handed>>,
             st' \in SenatorSending => st \in SenatorSending /\ queue' \subseteq queue
      PROVE  SenatorHeld'
  BY <1>1 DEF SenatorHeld, Senators!User
<1>2. CASE Senators!EditProfile \/ UNCHANGED Senators!vars
  BY <1>1, <1>2 DEF Senators!EditProfile, Senators!vars, Senators!people, Senators!work
<1>3. CASE Senators!MoveToken
  <2>1. PICK t \in Tokens, owner \in [Users -> BOOLEAN] :
           /\ device' = [u \in Users |-> IF owner[u] THEN device[u] \cup {t}
                                                     ELSE device[u] \ {t}]
           /\ moved' = IF device' = device THEN moved ELSE moved \cup {t}
    BY <1>3 DEF Senators!MoveToken
  <2>2. UNCHANGED <<st, rows, at, queue, handed>>
    BY <1>3 DEF Senators!MoveToken, Senators!work
  <2>3. ASSUME NEW u \in Users, NEW k, k \in moved \cup device[u]
        PROVE  k \in moved' \cup device'[u]
    BY <2>1, <2>3
  <2>4. \A i \in DOMAIN handed : handed[i][2] \in Users
    BY DEF SenatorCore, Senators!TypeOK
  <2>5. st \in SenatorSending => Senators!User \in Users
    BY SenatorInHandTyped DEF SenatorCore, SenatorPushing
  <2> QED
    BY <2>2, <2>3, <2>4, <2>5 DEF SenatorHeld, Senators!User
<1>4. CASE Senators!SelectTrades \/ Senators!SelectUsers \/ Senators!SelectFails
  <2>1. handed = <<>> /\ handed' = handed /\ st' \notin SenatorSending
    BY <1>4 DEF Senators!SelectTrades, Senators!SelectUsers, Senators!SelectFails,
           Senators!Begin, SenatorSending, SenatorCore, SenatorPlaced
  <2> QED
    BY <2>1 DEF SenatorHeld
<1>5. CASE \/ \E ok \in BOOLEAN : Senators!ReadPreferences(ok) \/ Senators!ReadStocks(ok)
           \/ Senators!ReadFollows \/ Senators!ReadFollowsFails \/ Senators!NextPair
  <2>1. UNCHANGED <<device, moved, handed>> /\ st' \notin SenatorSending
    BY <1>5 DEF Senators!ReadPreferences, Senators!ReadStocks, Senators!ReadFollows,
           Senators!ReadFollowsFails, Senators!NextPair, Senators!Begin, Senators!people,
           SenatorSending
  <2> QED
    BY <2>1 DEF SenatorHeld
<1>6. CASE Senators!SelectTokens
  <2>1. UNCHANGED <<device, moved, rows, at, handed>> /\ queue' = device[Senators!User]
    BY <1>6 DEF Senators!SelectTokens, Senators!people
  <2> QED
    BY <2>1 DEF SenatorHeld, Senators!User
<1>7. CASE Senators!SelectTokensFails
  <2>1. UNCHANGED <<device, moved, handed>> /\ st' = "done"
    BY <1>7 DEF Senators!SelectTokensFails, Senators!people
  <2> QED
    BY <2>1 DEF SenatorHeld, SenatorSending
<1>8. CASE Senators!SkipOldToken \/ Senators!Log \/ Senators!LogFails
  <2>1. UNCHANGED <<device, moved, rows, at, handed>> /\ st \in SenatorSending
        /\ queue' \subseteq queue
    BY <1>8 DEF Senators!SkipOldToken, Senators!Log, Senators!LogFails, Senators!people,
           SenatorSending
  <2> QED
    BY <1>1, <2>1
<1>9. CASE Senators!Send
  <2>1. PICK t \in queue :
           /\ queue' = queue \ {t} /\ handed' = Append(handed, <<at.trade, Senators!User, t>>)
           /\ st = "send" /\ UNCHANGED <<device, moved, rows, at>>
    BY <1>9 DEF Senators!Send, Senators!people
  <2>2. t \in moved \cup device[Senators!User] /\ Senators!User' = Senators!User
    BY <2>1 DEF SenatorHeld, SenatorSending, Senators!User
  <2>3. \A i \in DOMAIN handed' : \/ i \in DOMAIN handed /\ handed'[i] = handed[i]
                                  \/ handed'[i] = <<at.trade, Senators!User, t>>
    BY <2>1 DEF SenatorCore, Senators!TypeOK
  <2> QED
    BY <2>1, <2>2, <2>3 DEF SenatorHeld, SenatorSending
<1> QED
  BY <1>2, <1>3, <1>4, <1>5, <1>6, <1>7, <1>8, <1>9 DEF Senators!Next, Senators!Evaluate

(* Every step keeps the invariant.                                           *)
LEMMA SenatorNextKeeps ==
    ASSUME SenatorInv, IsFiniteSet(Users), MaxEdits \in Nat,
           [Senators!Next]_(Senators!vars) PROVE SenatorInv'
BY SenatorCoreKeeps, SenatorHeldKeeps DEF SenatorInv

(* One token of two users has moved: devices are disjoint.                    *)
LEMMA SenatorNotTwice == ASSUME SenatorInv PROVE Senators!OncePerRun
<1> SUFFICES ASSUME NEW i \in DOMAIN handed, NEW j \in DOMAIN handed,
                    handed[i][1] = handed[j][1], handed[i][3] = handed[j][3], i # j
             PROVE  handed[i][2] # handed[j][2] /\ handed[i][3] \in moved
  BY DEF Senators!OncePerRun
<1>1. /\ handed[i] = <<handed[i][1], handed[i][2], handed[i][3]>>
      /\ handed[j] = <<handed[j][1], handed[j][2], handed[j][3]>>
      /\ handed[i][2] \in Users /\ handed[j][2] \in Users
  BY DEF SenatorInv, SenatorCore, Senators!TypeOK
<1>2. handed[i][2] # handed[j][2]
  BY <1>1 DEF SenatorInv, SenatorCore, SenatorOnce
<1>3. device[handed[i][2]] \cap device[handed[j][2]] = {}
  BY <1>1, <1>2 DEF SenatorInv, SenatorCore, Senators!TypeOK
<1> QED
  BY <1>2, <1>3 DEF SenatorInv, SenatorHeld
-----------------------------------------------------------------------------
(* What was handed over is marked, so that an article being marked has been   *)
(* handed to nobody, and one being sent to nobody who is left.               *)
NewsHanding ==
    /\ active \subseteq Readers
    /\ handed \in Seq(marks \X Readers)
    /\ st = "put" => News!Article \notin marks
    /\ st \in {"tokens", "send"} => News!Article \in marks
    /\ st = "tokens" => \A i \in DOMAIN handed : handed[i][1] # News!Article
    /\ st = "send" =>
          /\ queue \subseteq Readers
          /\ \A i \in DOMAIN handed : handed[i][1] = News!Article => handed[i][2] \notin queue

(* A reader owed the article in hand has been handed it or is left.           *)
NewsOwing ==
    /\ \A o \in owed : o = <<o[1], o[2]>>
    /\ st = "send" =>
          \A o \in owed : o[1] = News!Article =>
             \/ o \in {handed[i] : i \in DOMAIN handed}
             \/ o[1] \in excused
             \/ o[2] \in queue

NewsInv ==
    /\ NewsHanding
    /\ News!HandedOnce
    /\ NewsOwing
    /\ News!LossExplained
-----------------------------------------------------------------------------
(* A step that hands nothing over, to a step of the run without an article.   *)
LEMMA NewsRestKeeps ==
    ASSUME NewsInv, active' \subseteq Readers, UNCHANGED <<marks, handed, owed>>,
           st' \in {"idle", "settings", "fetch", "get"},
           excused \subseteq excused',
           st \in {"tokens", "send"} => News!Article \in excused'
                                        \/ \A o \in owed : o[1] = News!Article =>
                                              o \in {handed[i] : i \in DOMAIN handed}
    PROVE  NewsInv'
<1>1. NewsHanding' /\ News!HandedOnce'
  BY DEF NewsInv, NewsHanding, News!HandedOnce
<1>2. NewsOwing'
  BY DEF NewsInv, NewsOwing
<1>3. News!LossExplained'
  BY DEF NewsInv, News!LossExplained
<1> QED
  BY <1>1, <1>2, <1>3 DEF NewsInv

(* A step that hands nothing over and stays with the article.                 *)
LEMMA NewsStayKeeps ==
    ASSUME NewsInv, active' \subseteq Readers,
           UNCHANGED <<marks, handed, owed, excused, st, todo, queue>>
    PROVE  NewsInv'
BY DEF NewsInv, NewsHanding, News!HandedOnce, NewsOwing, News!LossExplained, News!Article

LEMMA NewsEditKeeps == ASSUME NewsInv, News!EditLikes \/ News!EditDevices PROVE NewsInv'
<1>1. active' \subseteq Readers
  BY DEF News!EditLikes, News!EditDevices, NewsInv, NewsHanding
<1> QED
  BY <1>1, NewsStayKeeps DEF News!EditLikes, News!EditDevices, News!Edit, News!work

LEMMA NewsBeginKeeps ==
    ASSUME NewsInv, News!Start \/ News!SelectSettings \/ News!Fetch \/ News!FetchFails
           \/ News!Finish PROVE NewsInv'
<1>1. /\ UNCHANGED <<active, marks, handed, owed, excused>>
      /\ st' \in {"idle", "settings", "fetch", "get"} /\ st \notin {"tokens", "send"}
  BY DEF News!Start, News!SelectSettings, News!Fetch, News!FetchFails, News!Finish, News!End,
         News!world
<1> QED
  BY <1>1, NewsRestKeeps DEF NewsInv, NewsHanding

LEMMA NewsGetMarkKeeps == ASSUME NewsInv, News!GetMark PROVE NewsInv'
<1>1. st = "get" /\ UNCHANGED <<active, marks, queue, handed, owed, excused>>
  BY DEF News!GetMark, News!world
<1>2. CASE st' = "get"
  BY <1>1, <1>2, NewsRestKeeps DEF NewsInv, NewsHanding
<1>3. CASE st' = "put" /\ todo' = todo /\ News!Article \notin marks
  <2>1. NewsHanding' /\ News!HandedOnce'
    BY <1>1, <1>3 DEF NewsInv, NewsHanding, News!HandedOnce, News!Article
  <2>2. NewsOwing' /\ News!LossExplained'
    BY <1>1, <1>3 DEF NewsInv, NewsOwing, News!LossExplained
  <2> QED
    BY <2>1, <2>2 DEF NewsInv
<1>4. st' = "get" \/ (st' = "put" /\ todo' = todo /\ News!Article \notin marks)
  BY DEF News!GetMark, News!NextSymbol, News!NextArticle
<1> QED
  BY <1>2, <1>3, <1>4

LEMMA NewsStepFailsKeeps == ASSUME NewsInv, News!StepFails PROVE NewsInv'
<1>1. UNCHANGED <<active, marks, handed, owed>> /\ st' = "get" /\ st # "send"
  BY DEF News!StepFails, News!NextSymbol, News!world
<1>2. excused \subseteq excused' /\ (st = "tokens" => News!Article \in excused')
  BY DEF News!StepFails
<1> QED
  BY <1>1, <1>2, NewsRestKeeps DEF NewsInv, NewsHanding

LEMMA NewsCutOffKeeps == ASSUME NewsInv, News!CutOff PROVE NewsInv'
<1>1. UNCHANGED <<active, marks, handed, owed>> /\ st' = "idle"
  BY DEF News!CutOff, News!End, News!world
<1>2. excused \subseteq excused' /\ (st \in {"tokens", "send"} => News!Article \in excused')
  BY DEF News!CutOff
<1> QED
  BY <1>1, <1>2, NewsRestKeeps DEF NewsInv, NewsHanding

(* The mark is there, and the article over.                                  *)
LEMMA NewsPutUnseenKeeps == ASSUME NewsInv, News!PutUnseen PROVE NewsInv'
<1>1. /\ st = "put" /\ st' \in {"get", "idle"} /\ marks' = marks \cup {News!Article}
      /\ owed' = owed \cup {<<News!Article, u>> : u \in found[SymbolOf[News!Article]]}
      /\ excused' = excused \cup {News!Article} /\ UNCHANGED <<active, handed>>
  BY DEF News!PutUnseen, News!Mark, News!NextSymbol, News!End, News!world
<1>2. handed \in Seq(marks' \X Readers)
  <2>1. \A i \in DOMAIN handed : handed[i] \in marks' \X Readers
    BY <1>1 DEF NewsInv, NewsHanding
  <2> QED
    BY <2>1 DEF NewsInv, NewsHanding
<1>3. NewsHanding' /\ News!HandedOnce'
  BY <1>1, <1>2 DEF NewsInv, NewsHanding, News!HandedOnce
<1>4. NewsOwing'
  BY <1>1 DEF NewsInv, NewsOwing
<1>5. News!LossExplained'
  BY <1>1 DEF NewsInv, News!LossExplained
<1> QED
  BY <1>3, <1>4, <1>5 DEF NewsInv

LEMMA NewsPutMarkKeeps == ASSUME NewsInv, News!PutMark PROVE NewsInv'
<1>1. /\ st = "put" /\ st' = "tokens" /\ marks' = marks \cup {News!Article}
      /\ owed' = owed \cup {<<News!Article, u>> : u \in found[SymbolOf[News!Article]]}
      /\ UNCHANGED <<active, todo, queue, handed, excused>> /\ News!Article' = News!Article
  BY DEF News!PutMark, News!Mark, News!world, News!Article
<1>2. handed \in Seq(marks' \X Readers)
  <2>1. \A i \in DOMAIN handed : handed[i] \in marks' \X Readers
    BY <1>1 DEF NewsInv, NewsHanding
  <2> QED
    BY <2>1 DEF NewsInv, NewsHanding
<1>3. \A i \in DOMAIN handed : handed[i][1] # News!Article
  BY <1>1 DEF NewsInv, NewsHanding
<1>4. NewsHanding' /\ News!HandedOnce'
  BY <1>1, <1>2, <1>3 DEF NewsInv, NewsHanding, News!HandedOnce
<1>5. NewsOwing'
  BY <1>1 DEF NewsInv, NewsOwing
<1>6. News!LossExplained'
  BY <1>1 DEF NewsInv, News!LossExplained
<1> QED
  BY <1>4, <1>5, <1>6 DEF NewsInv

LEMMA NewsSelectTokensKeeps == ASSUME NewsInv, News!SelectTokens PROVE NewsInv'
<1>1. /\ st = "tokens" /\ queue' \subseteq Readers
      /\ owed' = {o \in owed : o[1] = News!Article => o[2] \in queue'}
      /\ UNCHANGED <<active, marks, handed, excused>>
  BY DEF News!SelectTokens, News!world, NewsInv, NewsHanding
<1>2. \A o \in owed' : \/ o \in {handed[i] : i \in DOMAIN handed}
                       \/ o[1] \in excused
                       \/ o[1] = News!Article /\ o[2] \in queue'
  BY <1>1 DEF NewsInv, News!LossExplained
<1>3. CASE queue' = {} /\ st' = "get"
  <2>1. NewsHanding' /\ News!HandedOnce'
    BY <1>1, <1>3 DEF NewsInv, NewsHanding, News!HandedOnce
  <2>2. NewsOwing' /\ News!LossExplained'
    BY <1>1, <1>2, <1>3 DEF NewsInv, NewsOwing, News!LossExplained
  <2> QED
    BY <2>1, <2>2 DEF NewsInv
<1>4. CASE st' = "send" /\ todo' = todo
  <2>1. News!Article' = News!Article
    BY <1>4 DEF News!Article
  <2>2. NewsHanding' /\ News!HandedOnce'
    BY <1>1, <1>4, <2>1 DEF NewsInv, NewsHanding, News!HandedOnce
  <2>3. NewsOwing' /\ News!LossExplained'
    BY <1>1, <1>2, <1>4, <2>1 DEF NewsInv, NewsOwing, News!LossExplained
  <2> QED
    BY <2>2, <2>3 DEF NewsInv
<1> QED
  BY <1>3, <1>4 DEF News!SelectTokens, News!NextArticle

LEMMA NewsSendKeeps == ASSUME NewsInv, News!Send PROVE NewsInv'
<1>1. PICK u \in queue : /\ st = "send" /\ handed' = Append(handed, <<News!Article, u>>)
                         /\ queue' = queue \ {u}
                         /\ IF queue' = {} THEN News!NextArticle ELSE UNCHANGED <<st, todo>>
                         /\ UNCHANGED <<active, marks, owed, excused>>
  BY DEF News!Send, News!world
<1>2. /\ handed \in Seq(marks \X Readers) /\ News!Article \in marks /\ queue \subseteq Readers
      /\ \A i \in DOMAIN handed : handed[i][1] = News!Article => handed[i][2] \notin queue
  BY <1>1 DEF NewsInv, NewsHanding
<1>3. /\ handed' \in Seq(marks \X Readers) /\ Len(handed') = Len(handed) + 1
      /\ \A i \in DOMAIN handed : i \in DOMAIN handed' /\ handed'[i] = handed[i]
      /\ \A i \in DOMAIN handed' : i \in DOMAIN handed \/ i = Len(handed')
      /\ Len(handed') \in DOMAIN handed' /\ handed'[Len(handed')] = <<News!Article, u>>
  BY <1>1, <1>2
<1>4. News!HandedOnce'
  <2>1. \A i \in DOMAIN handed : handed'[i] # <<News!Article, u>>
    <3> SUFFICES ASSUME NEW i \in DOMAIN handed, handed[i] = <<News!Article, u>> PROVE FALSE
      BY <1>3
    <3>1. handed[i][1] = News!Article /\ handed[i][2] = u
      OBVIOUS
    <3> QED
      BY <1>2, <3>1
  <2> QED
    BY <1>3, <2>1 DEF NewsInv, News!HandedOnce
<1>5. \A i \in DOMAIN handed' : handed'[i][1] = News!Article => handed'[i][2] \notin queue'
  BY <1>1, <1>2, <1>3
<1>6. \A o \in owed : \/ o \in {handed'[i] : i \in DOMAIN handed'}
                      \/ o[1] \in excused
                      \/ o[1] = News!Article /\ o[2] \in queue'
  <2> SUFFICES ASSUME NEW o \in owed, o[1] = News!Article, o[2] \in queue, o[2] \notin queue'
               PROVE  o \in {handed'[i] : i \in DOMAIN handed'}
    BY <1>1, <1>3 DEF NewsInv, NewsOwing, News!LossExplained
  <2>1. o = <<News!Article, u>>
    BY <1>1 DEF NewsInv, NewsOwing
  <2> QED
    BY <1>3, <2>1
<1>7. CASE queue' = {} /\ st' = "get"
  <2>1. NewsHanding'
    BY <1>1, <1>3, <1>7 DEF NewsInv, NewsHanding
  <2>2. NewsOwing' /\ News!LossExplained'
    BY <1>1, <1>6, <1>7 DEF NewsInv, NewsOwing, News!LossExplained
  <2> QED
    BY <1>4, <2>1, <2>2 DEF NewsInv
<1>8. CASE st' = st /\ todo' = todo
  <2>1. News!Article' = News!Article
    BY <1>8 DEF News!Article
  <2>2. NewsHanding'
    BY <1>1, <1>2, <1>3, <1>5, <1>8, <2>1 DEF NewsInv, NewsHanding
  <2>3. NewsOwing' /\ News!LossExplained'
    BY <1>1, <1>6, <1>8, <2>1 DEF NewsInv, NewsOwing, News!LossExplained
  <2> QED
    BY <1>4, <2>2, <2>3 DEF NewsInv
<1> QED
  BY <1>1, <1>7, <1>8 DEF News!NextArticle
-----------------------------------------------------------------------------
LEMMA NewsInitially == News!Init => NewsInv
BY DEF News!Init, NewsInv, NewsHanding, News!HandedOnce, NewsOwing, News!LossExplained

(* Every step keeps the invariant.                                           *)
LEMMA NewsNextKeeps == ASSUME NewsInv, [News!Next]_(News!vars) PROVE NewsInv'
<1>1. CASE UNCHANGED News!vars
  BY <1>1, NewsStayKeeps DEF News!vars, News!world, News!work, NewsInv, NewsHanding
<1> QED
  BY <1>1, NewsEditKeeps, NewsBeginKeeps, NewsGetMarkKeeps, NewsStepFailsKeeps, NewsCutOffKeeps,
         NewsPutMarkKeeps, NewsPutUnseenKeeps,
     NewsSelectTokensKeeps, NewsSendKeeps DEF News!Next, News!Run

NewsBounds ==
    /\ MaxEdits \in Nat /\ MaxRuns \in Nat /\ MaxFeed \in Nat
    /\ SymbolOf \in [Articles -> Symbols] /\ IsFiniteSet(Symbols)

(* The articles about a symbol stand together.                               *)
NewsTogether(s) ==
    \A i, j, k \in DOMAIN s : i < j /\ j < k /\ SymbolOf[s[i]] = SymbolOf[s[k]]
       => SymbolOf[s[j]] = SymbolOf[s[i]]

NewsTyped ==
    /\ likes \in [Symbols -> SUBSET Readers]
    /\ edits \in 0..MaxEdits /\ runs \in 0..MaxRuns
    /\ marks \subseteq Articles \ (OldDates \cup BadDates)
    /\ st \in {"idle", "settings", "fetch", "get", "put", "tokens", "send"}
    /\ found \in [Symbols -> SUBSET Readers]
    /\ todo \in Seq(Articles) /\ NewsTogether(todo)
    /\ st \in {"put", "tokens", "send"} => todo # <<>>
    /\ st = "put" => News!Article \notin OldDates \cup BadDates
    /\ queue \subseteq Readers
    /\ owed \subseteq marks \X Readers
    /\ excused \subseteq marks
-----------------------------------------------------------------------------
(* Filtering, dropping the first and joining keep the articles about a symbol *)
(* together.                                                                 *)
LEMMA NewsKeptTogether ==
    ASSUME NEW s \in Seq(Articles), NewsTogether(s), NEW S
    PROVE  Kept(s, S) \in Seq(Articles) /\ NewsTogether(Kept(s, S))
<1> DEFINE k == Kept(s, S)
<1>1. k \in Seq(Articles \cap S) /\ \E h : KeepsInOrder(s, S, Len(s), k, h)
  BY KeptInOrder
<1>2. PICK h : KeepsInOrder(s, S, Len(s), k, h)
  BY <1>1
<1> HIDE DEF k
<1>3. k \in Seq(Articles) /\ DOMAIN k = 1..Len(k) /\ DOMAIN s = 1..Len(s)
  BY <1>1
<1>4. \A j \in 1..Len(k) : h[j] \in 1..Len(s) /\ k[j] = s[h[j]]
  BY <1>2 DEF KeepsInOrder
<1>5. \A i, j \in 1..Len(k) : i < j => h[i] < h[j]
  BY <1>2 DEF KeepsInOrder
<1>6. NewsTogether(k)
  <2> SUFFICES ASSUME NEW i \in 1..Len(k), NEW j \in 1..Len(k), NEW l \in 1..Len(k),
                      i < j, j < l, SymbolOf[k[i]] = SymbolOf[k[l]]
               PROVE  SymbolOf[k[j]] = SymbolOf[k[i]]
    BY <1>3 DEF NewsTogether
  <2>1. h[i] < h[j] /\ h[j] < h[l]
    BY <1>5
  <2>2. /\ k[i] = s[h[i]] /\ k[j] = s[h[j]] /\ k[l] = s[h[l]]
        /\ h[i] \in DOMAIN s /\ h[j] \in DOMAIN s /\ h[l] \in DOMAIN s
    BY <1>3, <1>4
  <2>3. SymbolOf[s[h[i]]] = SymbolOf[s[h[l]]]
    BY <2>2
  <2>4. SymbolOf[s[h[j]]] = SymbolOf[s[h[i]]]
    BY <2>1, <2>2, <2>3 DEF NewsTogether
  <2> QED
    BY <2>2, <2>4
<1> QED
  BY <1>3, <1>6 DEF k

LEMMA NewsTailTogether ==
    ASSUME NEW s \in Seq(Articles), s # <<>>, NewsTogether(s)
    PROVE  Tail(s) \in Seq(Articles) /\ NewsTogether(Tail(s)) /\ Head(s) \in Articles
<1>1. /\ Tail(s) \in Seq(Articles) /\ Len(Tail(s)) = Len(s) - 1 /\ Len(s) \in Nat
      /\ \A i \in 1..(Len(s) - 1) : Tail(s)[i] = s[i + 1] /\ i + 1 \in 1..Len(s)
      /\ Head(s) \in Articles
  OBVIOUS
<1>2. DOMAIN Tail(s) = 1..(Len(s) - 1) /\ DOMAIN s = 1..Len(s)
  BY <1>1
<1>3. NewsTogether(Tail(s))
  <2> SUFFICES ASSUME NEW i \in 1..(Len(s) - 1), NEW j \in 1..(Len(s) - 1),
                      NEW k \in 1..(Len(s) - 1), i < j, j < k,
                      SymbolOf[Tail(s)[i]] = SymbolOf[Tail(s)[k]]
               PROVE  SymbolOf[Tail(s)[j]] = SymbolOf[Tail(s)[i]]
    BY <1>2 DEF NewsTogether
  <2>1. /\ i + 1 < j + 1 /\ j + 1 < k + 1
        /\ i + 1 \in DOMAIN s /\ j + 1 \in DOMAIN s /\ k + 1 \in DOMAIN s
    BY <1>1, <1>2
  <2>2. Tail(s)[i] = s[i + 1] /\ Tail(s)[j] = s[j + 1] /\ Tail(s)[k] = s[k + 1]
    BY <1>1
  <2> QED
    BY <2>1, <2>2 DEF NewsTogether
<1> QED
  BY <1>1, <1>3

LEMMA NewsJoinTogether ==
    ASSUME NEW s \in Seq(Articles), NEW t \in Seq(Articles), NewsTogether(s), NEW c,
           \A i \in DOMAIN s : SymbolOf[s[i]] # c, \A i \in DOMAIN t : SymbolOf[t[i]] = c
    PROVE  /\ s \o t \in Seq(Articles) /\ NewsTogether(s \o t)
           /\ \A i \in DOMAIN (s \o t) : \/ i \in DOMAIN s /\ (s \o t)[i] = s[i]
                                         \/ SymbolOf[(s \o t)[i]] = c
<1> DEFINE u == s \o t
           n == Len(s)
<1>1. /\ n \in Nat /\ Len(t) \in Nat /\ u \in Seq(Articles) /\ Len(u) = n + Len(t)
      /\ \A i \in 1..n : u[i] = s[i]
      /\ \A i \in 1..Len(t) : u[n + i] = t[i]
  OBVIOUS
<1>2. DOMAIN s = 1..n /\ DOMAIN t = 1..Len(t) /\ DOMAIN u = 1..Len(u)
  BY <1>1
<1> HIDE DEF u, n
<1>3. \A i \in 1..Len(u) : i \in 1..n \/ (i > n /\ i - n \in 1..Len(t) /\ n + (i - n) = i)
  BY <1>1
<1>4. \A i \in 1..Len(u) : \/ i \in 1..n /\ u[i] = s[i] /\ SymbolOf[u[i]] # c
                           \/ i > n /\ SymbolOf[u[i]] = c
  <2> SUFFICES ASSUME NEW i \in 1..Len(u)
               PROVE  \/ i \in 1..n /\ u[i] = s[i] /\ SymbolOf[u[i]] # c
                      \/ i > n /\ SymbolOf[u[i]] = c
    OBVIOUS
  <2>1. CASE i \in 1..n
    <3>1. u[i] = s[i] /\ SymbolOf[s[i]] # c
      BY <1>1, <1>2, <2>1
    <3> QED
      BY <2>1, <3>1
  <2>2. CASE i > n /\ i - n \in 1..Len(t) /\ n + (i - n) = i
    <3>1. u[i] = t[i - n]
      BY <1>1, <2>2
    <3>2. SymbolOf[t[i - n]] = c
      BY <1>2, <2>2
    <3> QED
      BY <2>2, <3>1, <3>2
  <2> QED
    BY <1>3, <2>1, <2>2
<1>5. NewsTogether(u)
  <2> SUFFICES ASSUME NEW i \in 1..Len(u), NEW j \in 1..Len(u), NEW k \in 1..Len(u),
                      i < j, j < k, SymbolOf[u[i]] = SymbolOf[u[k]]
               PROVE  SymbolOf[u[j]] = SymbolOf[u[i]]
    BY <1>2 DEF NewsTogether
  <2>1. CASE k \in 1..n
    <3>1. i \in 1..n /\ j \in 1..n
      BY <1>1, <2>1
    <3> QED
      BY <1>1, <1>2, <2>1, <3>1 DEF NewsTogether
  <2>2. CASE k \notin 1..n
    <3>1. SymbolOf[u[k]] = c
      BY <1>4, <2>2
    <3>2. i > n
      BY <1>4, <3>1
    <3>3. j > n /\ j \notin 1..n
      BY <1>1, <3>2
    <3>4. SymbolOf[u[j]] = c
      BY <1>4, <3>3
    <3> QED
      BY <3>1, <3>4
  <2> QED
    BY <2>1, <2>2
<1> QED
  BY <1>1, <1>2, <1>4, <1>5 DEF u

NewsJoin(seqs, f, i) == IF i = 1 THEN seqs[i] ELSE f[i - 1] \o seqs[i]

(* The recursion of FlattenSeq defines a function.                            *)
LEMMA NewsFlattenDefined ==
    ASSUME NEW seqs, Len(seqs) \in Nat \ {0}
    PROVE  \E f : f = [i \in 1..Len(seqs) |-> NewsJoin(seqs, f,
           i)] /\ News!FlattenSeq(seqs) = f[Len(seqs)]
<1> DEFINE Upto(f, m) == f = [i \in 1..m |-> NewsJoin(seqs, f, i)]
           m == Len(seqs)
           T == {n \in 0..m : \E f : Upto(f, n)}
<1>1. 0 \in T
  <2> DEFINE f == [i \in 1..0 |-> <<>>]
  <2>1. f = [i \in 1..0 |-> NewsJoin(seqs, f, i)]
    OBVIOUS
  <2>2. 0 \in 0..m
    OBVIOUS
  <2> HIDE DEF f
  <2> QED
    BY <2>1, <2>2
<1>2. ASSUME NEW n \in 0..(m - 1), n \in T PROVE n + 1 \in T
  <2>1. PICK f : Upto(f, n)
    BY <1>2
  <2> DEFINE g == [k \in 1..(n + 1) |-> IF k = n + 1 THEN NewsJoin(seqs, f, k) ELSE f[k]]
  <2>2. \A k \in 1..n : g[k] = f[k] /\ f[k] = NewsJoin(seqs, f, k)
    <3>1. \A k \in 1..n : k \in 1..(n + 1) /\ k # n + 1
      OBVIOUS
    <3>2. \A k \in 1..n : f[k] = NewsJoin(seqs, f, k)
      BY <2>1
    <3> QED
      BY <3>1, <3>2
  <2>3. \A k \in 1..(n + 1) : NewsJoin(seqs, g, k) = NewsJoin(seqs, f, k)
    <3>1. \A k \in 1..(n + 1) : k = 1 \/ k - 1 \in 1..n
      OBVIOUS
    <3> QED
      BY <2>2, <3>1 DEF NewsJoin
  <2>4. \A k \in 1..(n + 1) : g[k] = NewsJoin(seqs, g, k)
    <3>1. \A k \in 1..(n + 1) : k \in 1..n \/ k = n + 1
      OBVIOUS
    <3>2. n + 1 \in 1..(n + 1) /\ g[n + 1] = NewsJoin(seqs, f, n + 1)
      OBVIOUS
    <3> HIDE DEF g
    <3> QED
      BY <2>2, <2>3, <3>1, <3>2
  <2>5. g = [k \in 1..(n + 1) |-> g[k]]
    OBVIOUS
  <2> HIDE DEF g
  <2>6. g = [k \in 1..(n + 1) |-> NewsJoin(seqs, g, k)]
    BY <2>4, <2>5
  <2>7. n + 1 \in 0..m
    OBVIOUS
  <2> QED
    BY <2>6, <2>7
<1>3. m \in T
  <2> HIDE DEF T
  <2>1. \A n \in 0..m : n \in T
    BY <1>1, <1>2, CountUp
  <2> QED
    BY <2>1
<1>4. PICK f : Upto(f, m)
  BY <1>3
<1> DEFINE g == CHOOSE x : Upto(x, m)
<1>5. Upto(g, m)
  BY <1>4
<1>6. Len(seqs) # 0
  OBVIOUS
<1>7. News!FlattenSeq(seqs) = g[Len(seqs)]
  BY <1>6, Zenon DEF News!FlattenSeq, NewsJoin
<1> QED
  BY <1>5, <1>7

(* Sequences of articles about different symbols, joined.                     *)
LEMMA NewsFlattenTogether ==
    ASSUME NEW symbols \in Seq(Symbols),
           \A i, j \in DOMAIN symbols : symbols[i] = symbols[j] => i = j,
           NEW seqs \in [DOMAIN symbols -> Seq(Articles)],
           \A i \in DOMAIN symbols : \A j \in DOMAIN seqs[i] : SymbolOf[seqs[i][j]] = symbols[i]
    PROVE  News!FlattenSeq(seqs) \in Seq(Articles) /\ NewsTogether(News!FlattenSeq(seqs))
<1> DEFINE m == Len(symbols)
<1>1. m \in Nat /\ DOMAIN symbols = 1..m /\ seqs \in Seq(Seq(Articles)) /\ Len(seqs) = m
  OBVIOUS
<1>2. CASE m = 0
  <2>1. News!FlattenSeq(seqs) = seqs /\ seqs = <<>>
    BY <1>1, <1>2 DEF News!FlattenSeq
  <2> QED
    BY <2>1 DEF NewsTogether
<1>3. CASE m # 0
  <2>1. PICK f : f = [i \in 1..m |-> NewsJoin(seqs, f, i)] /\ News!FlattenSeq(seqs) = f[m]
    BY <1>1, <1>3, NewsFlattenDefined
  <2>2. \A i \in 1..m : f[i] = NewsJoin(seqs, f, i)
    BY <2>1
  <2> DEFINE Good(s, i) ==
               /\ s \in Seq(Articles) /\ NewsTogether(s)
               /\ \A j \in DOMAIN s : \E k \in 1..i : SymbolOf[s[j]] = symbols[k]
             T == {n \in 0..(m - 1) : Good(f[n + 1], n + 1)}
  <2>3. \A i \in 1..m : seqs[i] \in Seq(Articles)
                        /\ \A j \in DOMAIN seqs[i] : SymbolOf[seqs[i][j]] = symbols[i]
    BY <1>1
  <2>4. 0 \in T
    <3>1. 0 \in 0..(m - 1) /\ 1 \in 1..m /\ f[1] = seqs[1] /\ 0 + 1 = 1
      BY <1>1, <1>3, <2>2 DEF NewsJoin
    <3>2. NewsTogether(seqs[1])
      BY <2>3, <3>1 DEF NewsTogether
    <3>3. \A j \in DOMAIN seqs[1] : SymbolOf[seqs[1][j]] = symbols[1] /\ 1 \in 1..1
      BY <2>3, <3>1
    <3>4. Good(f[1], 1)
      BY <2>3, <3>1, <3>2, <3>3
    <3> QED
      BY <3>1, <3>4
  <2>5. ASSUME NEW n \in 0..((m - 1) - 1), n \in T PROVE n + 1 \in T
    <3> DEFINE s == f[n + 1]
               t == seqs[n + 2]
               c == symbols[n + 2]
    <3>1. /\ n + 1 \in 0..(m - 1) /\ n + 2 \in 1..m /\ (n + 1) + 1 = n + 2 /\ n + 2 # 1
          /\ (n + 2) - 1 = n + 1
      BY <1>1
    <3>2. f[n + 2] = s \o t
      BY <2>2, <3>1 DEF NewsJoin
    <3>3. Good(s, n + 1)
      BY <2>5
    <3>4. t \in Seq(Articles) /\ \A j \in DOMAIN t : SymbolOf[t[j]] = c
      BY <2>3, <3>1
    <3>5. \A k \in 1..(n + 1) : symbols[k] # c /\ k \in 1..(n + 2)
      <4> SUFFICES ASSUME NEW k \in 1..(n + 1) PROVE symbols[k] # c /\ k \in 1..(n + 2)
        OBVIOUS
      <4>1. k \in 1..(n + 2) /\ k \in 1..m /\ n + 2 \in 1..m /\ k # n + 2
        BY <1>1, <3>1
      <4> QED
        BY <1>1, <4>1
    <3> HIDE DEF s, t, c
    <3>6. \A i \in DOMAIN s : SymbolOf[s[i]] # c
      <4> SUFFICES ASSUME NEW i \in DOMAIN s PROVE SymbolOf[s[i]] # c
        OBVIOUS
      <4>1. PICK k \in 1..(n + 1) : SymbolOf[s[i]] = symbols[k]
        BY <3>3
      <4> QED
        BY <3>5, <4>1
    <3>7. /\ s \o t \in Seq(Articles) /\ NewsTogether(s \o t)
          /\ \A i \in DOMAIN (s \o t) : \/ i \in DOMAIN s /\ (s \o t)[i] = s[i]
                                        \/ SymbolOf[(s \o t)[i]] = c
      BY <3>3, <3>4, <3>6, NewsJoinTogether
    <3>8. n + 2 \in 1..(n + 2) /\ symbols[n + 2] = c
      BY DEF c
    <3>9. \A j \in DOMAIN (s \o t) : \E k \in 1..(n + 2) : SymbolOf[(s \o t)[j]] = symbols[k]
      <4> SUFFICES ASSUME NEW j \in DOMAIN (s \o t)
                   PROVE  \E k \in 1..(n + 2) : SymbolOf[(s \o t)[j]] = symbols[k]
        OBVIOUS
      <4>1. CASE j \in DOMAIN s /\ (s \o t)[j] = s[j]
        <5>1. PICK k \in 1..(n + 1) : SymbolOf[s[j]] = symbols[k]
          BY <3>3, <4>1
        <5>2. k \in 1..(n + 2) /\ SymbolOf[(s \o t)[j]] = symbols[k]
          BY <3>5, <4>1, <5>1
        <5> QED
          BY <5>2
      <4>2. CASE SymbolOf[(s \o t)[j]] = c
        BY <3>8, <4>2
      <4> QED
        BY <3>7, <4>1, <4>2
    <3> DEFINE v == s \o t
    <3>10. f[n + 2] = v /\ v \in Seq(Articles) /\ NewsTogether(v)
           /\ \A j \in DOMAIN v : \E k \in 1..(n + 2) : SymbolOf[v[j]] = symbols[k]
      BY <3>2, <3>7, <3>9
    <3> HIDE DEF v
    <3>11. Good(f[n + 2], n + 2)
      BY <3>10
    <3> QED
      BY <3>1, <3>11
  <2>6. m - 1 \in T
    <3> HIDE DEF T
    <3>1. m - 1 \in Nat
      BY <1>1, <1>3
    <3>2. \A n \in 0..(m - 1) : n \in T
      BY <2>4, <2>5, <3>1, CountUp
    <3> QED
      BY <3>1, <3>2
  <2>7. (m - 1) + 1 = m
    BY <1>1
  <2> QED
    BY <2>1, <2>6, <2>7
<1> QED
  BY <1>2, <1>3

LEMMA NewsGroupedTogether ==
    ASSUME NewsBounds, NEW answer \in News!Answers
    PROVE  News!Grouped(answer) \in Seq(Articles) /\ NewsTogether(News!Grouped(answer))
<1> DEFINE symbols == News!SetToSeq(Symbols)
           seqs == [i \in DOMAIN symbols |-> News!About(answer, symbols[i])]
<1>1. /\ symbols \in Seq(Symbols)
      /\ \A i, j \in DOMAIN symbols : symbols[i] = symbols[j] => i = j
  BY SetToSeqEachOnce DEF NewsBounds, EachOnce
<1>2. answer \in Seq(Articles)
  BY DEF News!Answers, NewsBounds
<1>3. ASSUME NEW c
      PROVE  News!About(answer, c) \in Seq(Articles)
             /\ \A j \in DOMAIN News!About(answer, c) : SymbolOf[News!About(answer, c)[j]] = c
  <2> DEFINE S == {a \in Articles : SymbolOf[a] = c /\ found[c] # {}}
             k == News!About(answer, c)
  <2>1. k = Kept(answer, S)
    BY SameKept DEF News!About
  <2>2. \A a \in Articles \cap S : a \in Articles /\ SymbolOf[a] = c
    OBVIOUS
  <2> HIDE DEF S, k
  <2>3. k \in Seq(Articles \cap S)
    BY <1>2, <2>1, KeptInOrder
  <2>4. \A j \in DOMAIN k : k[j] \in Articles \cap S
    BY <2>3
  <2>5. k \in Seq(Articles)
    BY <2>3
  <2> QED
    BY <2>2, <2>4, <2>5 DEF k
<1> HIDE DEF symbols
<1>4. seqs \in [DOMAIN symbols -> Seq(Articles)]
  BY <1>3
<1>5. \A i \in DOMAIN symbols : \A j \in DOMAIN seqs[i] : SymbolOf[seqs[i][j]] = symbols[i]
  BY <1>3
<1>6. News!Grouped(answer) = News!FlattenSeq(seqs)
  BY DEF News!Grouped, symbols
<1> HIDE DEF seqs
<1>7. News!FlattenSeq(seqs) \in Seq(Articles) /\ NewsTogether(News!FlattenSeq(seqs))
  BY <1>1, <1>4, <1>5, NewsFlattenTogether
<1> QED
  BY <1>6, <1>7
-----------------------------------------------------------------------------
(* What the steps do to the articles left.                                    *)
LEMMA NewsHeadInHand ==
    ASSUME NewsTyped, todo # <<>>
    PROVE  News!Article \in Articles
BY DEF NewsTyped, News!Article

LEMMA NewsLeftTogether ==
    ASSUME NewsTyped, (News!NextArticle /\ todo # <<>>) \/ News!NextSymbol
    PROVE  todo' \in Seq(Articles) /\ NewsTogether(todo') /\ st' = "get"
<1>1. CASE News!NextArticle /\ todo # <<>>
  BY <1>1, NewsTailTogether DEF NewsTyped, News!NextArticle
<1>2. CASE News!NextSymbol
  BY <1>2, SameKept, NewsKeptTogether DEF NewsTyped, News!NextSymbol
<1> QED
  BY <1>1, <1>2

(* A step that leaves the readers owed and the marks alone.                   *)
LEMMA NewsTypedStays ==
    ASSUME NewsTyped, likes' \in [Symbols -> SUBSET Readers], edits' \in 0..MaxEdits,
           runs' \in 0..MaxRuns, UNCHANGED <<marks>>,
           st' \in {"idle", "settings", "fetch", "get", "put", "tokens", "send"},
           found' \in [Symbols -> SUBSET Readers],
           todo' \in Seq(Articles), NewsTogether(todo'),
           st' \in {"put", "tokens", "send"} => todo' # <<>>,
           st' = "put" => News!Article' \notin OldDates \cup BadDates,
           queue' \subseteq Readers, owed' \subseteq marks \X Readers, excused' \subseteq marks
    PROVE  NewsTyped'
BY DEF NewsTyped, NewsTogether

LEMMA NewsEndTyped ==
    ASSUME NewsBounds, News!End
    PROVE  /\ st' = "idle" /\ found' \in [Symbols -> SUBSET Readers] /\ queue' \subseteq Readers
           /\ todo' \in Seq(Articles) /\ NewsTogether(todo')
BY DEF News!End, News!Nobody, NewsTogether

LEMMA NewsTypedKeeps == ASSUME NewsInv, NewsTyped, NewsBounds, [News!Next]_(News!vars)
       PROVE NewsTyped'
<1>0. /\ likes \in [Symbols -> SUBSET Readers] /\ edits \in 0..MaxEdits /\ runs \in 0..MaxRuns
      /\ found \in [Symbols -> SUBSET Readers]
      /\ todo \in Seq(Articles) /\ NewsTogether(todo) /\ queue \subseteq Readers
      /\ owed \subseteq marks \X Readers /\ excused \subseteq marks
      /\ st \in {"idle", "settings", "fetch", "get", "put", "tokens", "send"}
      /\ (st \in {"put", "tokens", "send"} => todo # <<>>)
      /\ (st = "put" => News!Article \notin OldDates \cup BadDates)
  BY DEF NewsTyped
<1>1. CASE UNCHANGED News!vars
  <2>1. UNCHANGED <<likes, edits, marks, runs, st, found, todo, queue, owed, excused>>
        /\ News!Article' = News!Article
    BY <1>1 DEF News!vars, News!world, News!work, News!Article
  <2> QED
    BY <1>0, <2>1, NewsTypedStays
<1>2. CASE News!EditLikes \/ News!EditDevices
  <2>1. UNCHANGED <<marks, runs, st, found, todo, queue, owed,
         excused>> /\ News!Article' = News!Article
        /\ edits' \in 0..MaxEdits
    BY <1>0, <1>2 DEF News!EditLikes, News!EditDevices, News!Edit, News!work, News!Article,
           NewsBounds
  <2>2. likes' \in [Symbols -> SUBSET Readers]
    BY <1>0, <1>2 DEF News!EditLikes, News!EditDevices
  <2> QED
    BY <1>0, <2>1, <2>2, NewsTypedStays
<1>3. CASE News!Start
  <2>1. UNCHANGED <<likes, edits, marks, found, todo, queue, owed, excused>> /\ st' = "settings"
        /\ runs' \in 0..MaxRuns
    BY <1>0, <1>3 DEF News!Start, News!world, NewsBounds
  <2> QED
    BY <1>0, <2>1, NewsTypedStays
<1>4. CASE News!SelectSettings
  <2>1. UNCHANGED <<likes, edits, marks, runs, owed, excused>>
    BY <1>4 DEF News!SelectSettings, News!world
  <2>2. /\ st' \in {"idle", "fetch"} /\ found' \in [Symbols -> SUBSET Readers]
        /\ todo' \in Seq(Articles) /\ NewsTogether(todo') /\ queue' \subseteq Readers
    BY <1>0, <1>4, NewsEndTyped DEF News!SelectSettings
  <2> QED
    BY <1>0, <2>1, <2>2, NewsTypedStays
<1>5. CASE News!Fetch
  <2>1. UNCHANGED <<likes, edits, marks, runs, found, queue, owed, excused>> /\ st' = "get"
    BY <1>5 DEF News!Fetch, News!world
  <2>2. todo' \in Seq(Articles) /\ NewsTogether(todo')
    BY <1>5, NewsGroupedTogether DEF News!Fetch
  <2> QED
    BY <1>0, <2>1, <2>2, NewsTypedStays
<1>6. CASE News!FetchFails \/ News!Finish
  <2>1. UNCHANGED <<likes, edits, marks, runs, owed, excused>> /\ News!End
    BY <1>6 DEF News!FetchFails, News!Finish, News!world
  <2> QED
    BY <1>0, <2>1, NewsEndTyped, NewsTypedStays
<1>7. CASE News!GetMark
  <2>1. UNCHANGED <<likes, edits, marks, runs, found, queue, owed, excused>> /\ todo # <<>>
    BY <1>7 DEF News!GetMark, News!world
  <2>2. CASE News!NextArticle \/ News!NextSymbol
    <3>1. todo' \in Seq(Articles) /\ NewsTogether(todo') /\ st' = "get"
      BY <2>1, <2>2, NewsLeftTogether
    <3> QED
      BY <1>0, <2>1, <3>1, NewsTypedStays
  <2>3. CASE st' = "put" /\ todo' = todo /\ News!Article \notin OldDates \cup BadDates
    <3>1. News!Article' = News!Article
      BY <2>3 DEF News!Article
    <3> QED
      BY <1>0, <2>1, <2>3, <3>1, NewsTypedStays
  <2>4. \/ News!NextArticle \/ News!NextSymbol
        \/ st' = "put" /\ todo' = todo /\ News!Article \notin OldDates \cup BadDates
    BY <1>7 DEF News!GetMark
  <2> QED
    BY <2>2, <2>3, <2>4
<1>8. CASE News!StepFails
  <2>1. UNCHANGED <<likes, edits, marks, runs, found, queue, owed>> /\ News!NextSymbol
    BY <1>8 DEF News!StepFails, News!world
  <2>2. excused' \subseteq marks
    BY <1>0, <1>8 DEF News!StepFails, NewsInv, NewsHanding
  <2>3. todo' \in Seq(Articles) /\ NewsTogether(todo') /\ st' = "get"
    BY <2>1, NewsLeftTogether
  <2> QED
    BY <1>0, <2>1, <2>2, <2>3, NewsTypedStays
<1>14. ASSUME News!Mark
       PROVE  /\ marks' \subseteq Articles \ (OldDates \cup BadDates)
              /\ owed' \subseteq marks' \X Readers
              /\ marks' = marks \cup {News!Article}
  <2>1. /\ st = "put" /\ marks' = marks \cup {News!Article}
        /\ owed' = owed \cup {<<News!Article, u>> : u \in found[SymbolOf[News!Article]]}
    BY <1>14 DEF News!Mark
  <2>2. News!Article \in Articles \ (OldDates \cup BadDates) /\ todo # <<>>
    BY <1>0, <2>1, NewsHeadInHand
  <2>3. found[SymbolOf[News!Article]] \subseteq Readers
    BY <1>0, <2>2 DEF NewsBounds
  <2>4. marks' \subseteq Articles \ (OldDates \cup BadDates)
    BY <2>1, <2>2 DEF NewsTyped
  <2>5. owed' \subseteq marks' \X Readers
    BY <1>0, <2>1, <2>3
  <2> QED
    BY <2>1, <2>4, <2>5
<1>9. CASE News!PutMark
  <2>1. /\ UNCHANGED <<likes, edits, runs, found, todo, queue, excused>>
        /\ st = "put" /\ st' = "tokens" /\ News!Mark
    BY <1>9 DEF News!PutMark, News!Mark, News!world
  <2> QED
    BY <1>0, <1>14, <2>1 DEF NewsTyped, NewsTogether
<1>13. CASE News!PutUnseen
  <2>1. /\ UNCHANGED <<likes, edits, runs>> /\ News!Mark
        /\ excused' = excused \cup {News!Article}
    BY <1>13 DEF News!PutUnseen, News!world
  <2>2. /\ st' \in {"get", "idle"} /\ found' \in [Symbols -> SUBSET Readers]
        /\ queue' \subseteq Readers /\ todo' \in Seq(Articles) /\ NewsTogether(todo')
    <3>1. CASE News!NextSymbol /\ UNCHANGED <<found, queue>>
      BY <1>0, <3>1, NewsLeftTogether
    <3>2. CASE News!End
      BY <3>2, NewsEndTyped
    <3> QED
      BY <1>13, <3>1, <3>2 DEF News!PutUnseen
  <2>3. excused' \subseteq marks'
    BY <1>0, <1>14, <2>1
  <2> QED
    BY <1>0, <1>14, <2>1, <2>2, <2>3 DEF NewsTyped, NewsTogether
<1>10. CASE News!SelectTokens
  <2>1. /\ UNCHANGED <<likes, edits, marks, runs, found, excused>> /\ st = "tokens"
        /\ queue' = found[SymbolOf[News!Article]] \cap active
        /\ owed' = {o \in owed : o[1] = News!Article => o[2] \in queue'}
    BY <1>10 DEF News!SelectTokens, News!world
  <2>2. queue' \subseteq Readers /\ owed' \subseteq marks \X Readers
    BY <1>0, <2>1 DEF NewsInv, NewsHanding
  <2>3. CASE News!NextArticle
    <3>1. todo' \in Seq(Articles) /\ NewsTogether(todo') /\ st' = "get"
      BY <1>0, <2>1, <2>3, NewsLeftTogether
    <3> QED
      BY <1>0, <2>1, <2>2, <3>1, NewsTypedStays
  <2>4. CASE st' = "send" /\ todo' = todo
    BY <1>0, <2>1, <2>2, <2>4, NewsTypedStays
  <2> QED
    BY <1>10, <2>3, <2>4 DEF News!SelectTokens
<1>11. CASE News!Send
  <2>1. UNCHANGED <<likes, edits, marks, runs, found, owed, excused>> /\ st = "send"
        /\ queue' \subseteq queue
    BY <1>11 DEF News!Send, News!world
  <2>2. CASE News!NextArticle
    <3>1. todo' \in Seq(Articles) /\ NewsTogether(todo') /\ st' = "get"
      BY <1>0, <2>1, <2>2, NewsLeftTogether
    <3> QED
      BY <1>0, <2>1, <3>1, NewsTypedStays
  <2>3. CASE st' = st /\ todo' = todo
    BY <1>0, <2>1, <2>3, NewsTypedStays
  <2> QED
    BY <1>11, <2>2, <2>3 DEF News!Send
<1>12. CASE News!CutOff
  <2>1. UNCHANGED <<likes, edits, marks, runs, owed>> /\ News!End
    BY <1>12 DEF News!CutOff, News!world
  <2>2. excused' \subseteq marks
    BY <1>0, <1>12 DEF News!CutOff, NewsInv, NewsHanding
  <2> QED
    BY <1>0, <2>1, <2>2, NewsEndTyped, NewsTypedStays
<1> QED
  BY <1>1, <1>2, <1>3, <1>4, <1>5, <1>6, <1>7, <1>8, <1>9, <1>10, <1>11, <1>12,
     <1>13 DEF News!Next, News!Run

LEMMA NewsTypedInitially == ASSUME News!Init, NewsBounds PROVE NewsTyped
BY DEF News!Init, NewsBounds, NewsTyped, News!Nobody, NewsTogether

LEMMA NewsTypedHolds == ASSUME NewsInv, NewsTyped PROVE News!TypeOK
BY DEF NewsInv, NewsHanding, NewsTyped, NewsTogether, News!TypeOK
=============================================================================
