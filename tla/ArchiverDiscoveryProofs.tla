----------------------- MODULE ArchiverDiscoveryProofs -----------------------
(***************************************************************************)
(* Proofs about ArchiverDiscovery, for every seed file, every family of    *)
(* archiver lists and every number of overlapping writes and restarts.     *)
(***************************************************************************)
EXTENDS ArchiverDiscovery, LeastNumber, SequenceTheorems, TLAPS

-----------------------------------------------------------------------------
(* What dedup_by keeps *)

Extend(l, i, k) == IF Repeats(l, i) THEN k ELSE Append(k, l[i])
KeptTo(l, n, f) ==
    f = [i \in 0..n |-> IF i = 0 THEN <<>> ELSE Extend(l, i, f[i - 1])]

\* A function that satisfies Kept's recursive equation exists.
LEMMA KeptExists ==
  ASSUME NEW l, NEW n \in Nat
  PROVE  \E f : KeptTo(l, n, f)
<1> DEFINE Bad == {m \in Nat : ~ \E f : KeptTo(l, m, f)}
<1>1. SUFFICES ASSUME Bad # {} PROVE FALSE
  OBVIOUS
<1>2. PICK m \in Bad : \A k \in Bad : m <= k
  <2> HIDE DEF Bad
  <2>1. Bad \subseteq Nat
    BY DEF Bad
  <2> QED BY <1>1, <2>1, LeastElement
<1>3. m # 0
  <2>1. KeptTo(l, 0, [i \in 0..0 |-> <<>>])
    BY DEF KeptTo
  <2> QED BY <2>1
<1>4. PICK f : KeptTo(l, m - 1, f)
  BY <1>2, <1>3
<1> DEFINE g == [i \in 0..m |-> IF i = m THEN Extend(l, m, f[m - 1]) ELSE f[i]]
<1>5. KeptTo(l, m, g)
  BY <1>3, <1>4 DEF KeptTo
<1> QED BY <1>5, <1>2

LEMMA KeptEquation ==
  ASSUME NEW S, NEW l \in Seq(S)
  PROVE  /\ Kept(l)[0] = <<>>
         /\ \A i \in 1..Len(l) :
              Kept(l)[i] = Extend(l, i, Kept(l)[i - 1])
<1>1. Kept(l) = CHOOSE f : KeptTo(l, Len(l), f)
  BY DEF Kept, KeptTo, Extend
<1>2. KeptTo(l, Len(l), Kept(l))
  BY <1>1, KeptExists
<1> QED BY <1>2 DEF KeptTo

\* The keys of the first n entries of l.
KeysTo(l, n) == {l[i].publicKey : i \in 1..n}

\* Each of the first n entries of l that does not repeat its predecessor is in k.
KeepsFirsts(l, n, k) ==
    \A i \in 1..n : ~Repeats(l, i) => \E j \in 1..Len(k) : k[j] = l[i]

\* What holds of what dedup_by keeps of the first n entries of l: entries of l,
\* all their keys, the first of each group of neighbours, the last key last, and no two
\* neighbours with one key.
KeptWell(S, l, n, k) ==
    /\ k \in Seq(S)
    /\ Keys(k) = KeysTo(l, n)
    /\ KeepsFirsts(l, n, k)
    /\ n > 0 => /\ Len(k) > 0
                /\ k[Len(k)].publicKey = l[n].publicKey
    /\ \A i \in 2..Len(k) : k[i].publicKey # k[i - 1].publicKey

LEMMA KeptNext ==
  ASSUME NEW S, NEW l \in Seq(S), NEW n \in 1..Len(l), NEW k,
         KeptWell(S, l, n - 1, k),
         ~Repeats(l, n)
  PROVE  KeptWell(S, l, n, Append(k, l[n]))
<1> DEFINE a == Append(k, l[n])
<1>1. /\ k \in Seq(S) /\ a \in Seq(S) /\ Len(a) = Len(k) + 1
      /\ a[Len(a)] = l[n]
      /\ \A i \in 1..Len(k) : a[i] = k[i]
  BY DEF KeptWell
<1> HIDE DEF a
<1>2. Keys(a) = Keys(k) \cup {l[n].publicKey}
  <2>1. 1..Len(a) = (1..Len(k)) \cup {Len(a)}
    BY <1>1
  <2> QED BY <1>1, <2>1 DEF Keys
<1>3. KeysTo(l, n) = KeysTo(l, n - 1) \cup {l[n].publicKey}
  BY DEF KeysTo
<1>4. ASSUME NEW i \in 2..Len(a) PROVE a[i].publicKey # a[i - 1].publicKey
  <2>1. CASE i <= Len(k)
    BY <1>1, <2>1 DEF KeptWell
  <2>2. CASE i = Len(k) + 1
    <3>1. Len(k) > 0 /\ a[i] = l[n] /\ a[i - 1] = k[Len(k)]
      BY <1>1, <2>2
    <3>2. n > 1
      <4>1. ASSUME n = 1 PROVE FALSE
        <5>1. Keys(k) = {}
          BY <4>1 DEF KeptWell, KeysTo
        <5>2. k[Len(k)].publicKey \in Keys(k)
          BY <1>1, <3>1 DEF Keys
        <5> QED BY <5>1, <5>2
      <4> QED BY <4>1
    <3> QED BY <3>1, <3>2 DEF KeptWell, Repeats
  <2> QED BY <1>1, <2>1, <2>2
<1>5. KeepsFirsts(l, n, a)
  <2> SUFFICES ASSUME NEW i \in 1..n, ~Repeats(l, i)
               PROVE  \E j \in 1..Len(a) : a[j] = l[i]
    BY DEF KeepsFirsts
  <2>1. CASE i = n
    <3>1. Len(a) \in 1..Len(a)
      BY <1>1
    <3> QED BY <1>1, <2>1, <3>1
  <2>2. CASE i \in 1..(n - 1)
    <3>1. PICK j \in 1..Len(k) : k[j] = l[i]
      BY <2>2 DEF KeptWell, KeepsFirsts
    <3>2. j \in 1..Len(a) /\ a[j] = k[j]
      BY <1>1
    <3> QED BY <3>1, <3>2
  <2> QED BY <2>1, <2>2
<1> QED BY <1>1, <1>2, <1>3, <1>4, <1>5 DEF KeptWell, a

LEMMA KeptAlways ==
  ASSUME NEW S, NEW l \in Seq(S)
  PROVE  \A n \in 0..Len(l) : KeptWell(S, l, n, Kept(l)[n])
<1> DEFINE Bad == {n \in 0..Len(l) : ~KeptWell(S, l, n, Kept(l)[n])}
<1>1. SUFFICES ASSUME Bad # {} PROVE FALSE
  OBVIOUS
<1>2. PICK m \in Bad : \A j \in Bad : m <= j
  <2> HIDE DEF Bad
  <2>1. Bad \subseteq Nat
    BY DEF Bad
  <2> QED BY <1>1, <2>1, LeastElement
<1>3. m \in 0..Len(l) /\ ~KeptWell(S, l, m, Kept(l)[m])
  BY <1>2
<1>4. m # 0
  <2>1. KeptWell(S, l, 0, <<>>)
    BY DEF KeptWell, Keys, KeysTo, KeepsFirsts
  <2> QED BY <1>3, <2>1, KeptEquation
<1>5. m - 1 \in 0..Len(l) /\ KeptWell(S, l, m - 1, Kept(l)[m - 1])
  BY <1>2, <1>4
<1>6. CASE Repeats(l, m)
  <2>1. Kept(l)[m] = Kept(l)[m - 1]
    BY <1>3, <1>4, <1>6, KeptEquation DEF Extend
  <2>2. KeysTo(l, m) = KeysTo(l, m - 1)
    BY <1>3, <1>6 DEF KeysTo, Repeats
  <2>3. KeepsFirsts(l, m, Kept(l)[m - 1])
    BY <1>3, <1>5, <1>6 DEF KeptWell, KeepsFirsts
  <2>4. KeptWell(S, l, m, Kept(l)[m - 1])
    BY <1>3, <1>5, <1>6, <2>2, <2>3 DEF KeptWell, Repeats
  <2> QED BY <1>3, <2>1, <2>4
<1>7. CASE ~Repeats(l, m)
  <2>1. Kept(l)[m] = Append(Kept(l)[m - 1], l[m])
    <3>1. Kept(l)[m] = Extend(l, m, Kept(l)[m - 1])
      BY <1>3, <1>4, KeptEquation
    <3> QED BY <1>7, <3>1 DEF Extend
  <2> QED BY <1>3, <1>4, <1>5, <1>7, <2>1, KeptNext
<1> QED BY <1>6, <1>7

\* Vec::dedup_by on the public key loses no key and adds none, keeps every entry that
\* does not repeat its predecessor, and leaves no two neighbours with one key; that is
\* less than discover's doc says, which KeysAreUnique states and a run refutes.
THEOREM DedupKeepsEveryKey ==
  ASSUME NEW S, NEW l \in Seq(S)
  PROVE  /\ dedup(l) \in Seq(S)
         /\ Keys(dedup(l)) = Keys(l)
         /\ \A i \in 1..Len(l) : ~Repeats(l, i) => l[i] \in Range(dedup(l))
         /\ \A i \in 2..Len(dedup(l)) : dedup(l)[i].publicKey # dedup(l)[i - 1].publicKey
<1>1. KeptWell(S, l, Len(l), Kept(l)[Len(l)])
  BY KeptAlways
<1>2. ASSUME NEW i \in 1..Len(l), ~Repeats(l, i) PROVE l[i] \in Range(dedup(l))
  <2>1. PICK j \in 1..Len(dedup(l)) : dedup(l)[j] = l[i]
    BY <1>1, <1>2 DEF KeptWell, KeepsFirsts, dedup
  <2>2. dedup(l) \in Seq(S)
    BY <1>1 DEF KeptWell, dedup
  <2> QED BY <2>1, <2>2 DEF Range
<1> QED BY <1>1, <1>2 DEF KeptWell, dedup, Keys, KeysTo

-----------------------------------------------------------------------------
(* Lists of archivers *)

LEMMA ArchiversAreAddressed == Seq(Archiver) \subseteq Seq(Addressed)
  BY DEF Addressed

LEMMA SeedsType == Seeds \in Seq(Addressed) /\ Seeds \in Seq(Archiver)
  BY SeedsAssumption, ArchiversAreAddressed

\* A replacement address changes no key.
LEMMA ReaddressedKeepsKeys ==
  ASSUME NEW l \in Seq(Archiver)
  PROVE  /\ Readdressed(l) \in Seq(Addressed)
         /\ Keys(Readdressed(l)) = Keys(l)
<1>1. CASE Standalone = None
  BY <1>1, ArchiversAreAddressed DEF Readdressed
<1>2. CASE Standalone # None
  <2> DEFINE r == [i \in 1..Len(l) |-> [l[i] EXCEPT !.ip = Standalone]]
  <2>1. Readdressed(l) = r
    BY <1>2 DEF Readdressed
  <2>2. ASSUME NEW i \in 1..Len(l)
        PROVE  r[i] \in Addressed /\ r[i].publicKey = l[i].publicKey
    <3>1. l[i] \in Archiver
      OBVIOUS
    <3>2. l[i] = [publicKey |-> l[i].publicKey, ip |-> l[i].ip]
      BY <3>1, ArchiverAssumption
    <3>3. [l[i] EXCEPT !.ip = Standalone].publicKey = l[i].publicKey
      BY <3>2
    <3> QED BY <3>1, <3>3 DEF Addressed
  <2>3. r \in Seq(Addressed) /\ Len(r) = Len(l)
    BY <2>2
  <2> HIDE DEF r
  <2> QED BY <2>1, <2>2, <2>3 DEF Keys
<1> QED BY <1>1, <1>2

LEMMA KeysOfConcat ==
  ASSUME NEW S, NEW l \in Seq(S), NEW m \in Seq(S)
  PROVE  Keys(m) \subseteq Keys(l \o m)
<1>1. ASSUME NEW i \in 1..Len(m) PROVE m[i].publicKey \in Keys(l \o m)
  <2>1. (l \o m)[Len(l) + i] = m[i] /\ Len(l) + i \in 1..Len(l \o m)
    OBVIOUS
  <2> QED BY <2>1 DEF Keys
<1> QED BY <1>1 DEF Keys

\* What a list collects is what the archivers' answers held.
LEMMA RangeOfConcat ==
  ASSUME NEW S, NEW l \in Seq(S), NEW m \in Seq(S)
  PROVE  Range(l \o m) = Range(l) \cup Range(m) /\ Range(m) \subseteq S
<1>1. ASSUME NEW i \in 1..Len(l) PROVE l[i] \in Range(l \o m)
  <2>1. (l \o m)[i] = l[i] /\ i \in 1..Len(l \o m)
    OBVIOUS
  <2> QED BY <2>1 DEF Range
<1>2. ASSUME NEW i \in 1..Len(m) PROVE m[i] \in Range(l \o m)
  <2>1. (l \o m)[Len(l) + i] = m[i] /\ Len(l) + i \in 1..Len(l \o m)
    OBVIOUS
  <2> QED BY <2>1 DEF Range
<1>3. ASSUME NEW i \in 1..Len(l \o m) PROVE (l \o m)[i] \in Range(l) \cup Range(m)
  <2>1. CASE i <= Len(l)
    BY <2>1 DEF Range
  <2>2. CASE i > Len(l)
    <3>1. (l \o m)[i] = m[i - Len(l)] /\ i - Len(l) \in 1..Len(m)
      BY <2>2
    <3> QED BY <3>1 DEF Range
  <2> QED BY <2>1, <2>2
<1>4. Range(l) = {l[i] : i \in 1..Len(l)} /\ Range(m) = {m[i] : i \in 1..Len(m)}
  BY DEF Range
<1>5. Range(l \o m) = {(l \o m)[i] : i \in 1..Len(l \o m)}
  BY DEF Range
<1>6. Range(m) \subseteq S
  BY <1>4
<1>7. Range(l \o m) \subseteq Range(l) \cup Range(m)
  BY <1>3, <1>5
<1>8. Range(l) \subseteq Range(l \o m) /\ Range(m) \subseteq Range(l \o m)
  BY <1>1, <1>2, <1>4
<1> QED BY <1>6, <1>7, <1>8

LEMMA RangeOfKeys ==
  ASSUME NEW S, NEW l \in Seq(S)
  PROVE  Keys(l) = {a.publicKey : a \in Range(l)}
  BY DEF Keys, Range

-----------------------------------------------------------------------------
(* The inductive invariant *)

\* While a call collects, what has been collected is what verified lists held.
CollectsVerified == pc = "collect" => reported = Range(tmp)

\* Unless writes overlapped or a crash ended one, the only write under way is that
\* of the list published last, the file is empty once it has been created, and a
\* file nobody writes is the latest list's.
CacheFollows ==
    ~cut =>
      /\ \A w \in writes : /\ writes = {w}
                           /\ w.list = latest
                           /\ w.stage = "write" => cache.size = 0
      /\ writes = {} /\ latest # None => cache = File(latest)

Inv == TypeOK /\ CollectsVerified /\ CacheFollows

LEMMA InvInit == Init => Inv
<1> SUFFICES ASSUME Init PROVE Inv
  OBVIOUS
<1>1. <<>> \in Seq(Addressed) /\ <<>> \in Seq(Archiver)
  OBVIOUS
<1>2. Unreadable(0) \in [parses : BOOLEAN, list : Seq(Addressed), size : Nat]
  BY <1>1 DEF Unreadable
<1>3. 0 \in 0..MaxCrashes
  BY BoundAssumption
<1>4. TypeOK
  BY <1>1, <1>2, <1>3 DEF Init, TypeOK
<1> QED BY <1>4 DEF Inv, Init, CollectsVerified, CacheFollows

LEMMA BeginKeeps == Inv /\ Begin => Inv'
<1> SUFFICES ASSUME Inv, Begin PROVE Inv'
  OBVIOUS
<1> USE DEF history
<1>1. cache.list \o Seeds \in Seq(Addressed)
  BY SeedsType DEF Inv, TypeOK
<1>2. base' \in Seq(Addressed)
  BY <1>1, DedupKeepsEveryKey DEF Begin
<1>3. asked' \subseteq 1..Len(base')
  BY <1>2 DEF Begin
<1>4. TypeOK'
  BY <1>2, <1>3 DEF Inv, TypeOK, Begin
<1>5. CollectsVerified'
  BY DEF Begin, CollectsVerified, Range
<1>6. CacheFollows'
  BY DEF Inv, Begin, CacheFollows
<1> QED BY <1>4, <1>5, <1>6 DEF Inv

LEMMA AnswersKeeps == \A i \in asked, l \in Reports : Inv /\ Answers(i, l) => Inv'
<1> SUFFICES ASSUME NEW i \in asked, NEW l \in Reports, Inv, Answers(i, l) PROVE Inv'
  OBVIOUS
<1> USE DEF history
<1>1. l \in Seq(Archiver) /\ tmp \in Seq(Archiver)
  BY SeedsAssumption DEF Inv, TypeOK
<1>2. tmp' \in Seq(Archiver) /\ reported' \subseteq Archiver
  BY <1>1, RangeOfConcat DEF Answers, Inv, TypeOK
<1>3. TypeOK'
  BY <1>2 DEF Inv, TypeOK, Answers
<1>4. CollectsVerified'
  BY <1>1, RangeOfConcat DEF Inv, Answers, CollectsVerified
<1>5. CacheFollows'
  BY DEF Inv, Answers, CacheFollows
<1> QED BY <1>3, <1>4, <1>5 DEF Inv

LEMMA RejectedKeeps == \A i \in asked : Inv /\ AnswerRejected(i) => Inv'
  BY DEF Inv, TypeOK, CollectsVerified, CacheFollows, AnswerRejected, history

\* What Publish adds to the writes under way.
LEMMA PublishKeeps == Inv /\ Publish => Inv'
<1> SUFFICES ASSUME Inv, Publish PROVE Inv'
  OBVIOUS
<1> DEFINE list == Readdressed(dedup(tmp))
           write == [id |-> CHOOSE k \in Unused : TRUE, stage |-> "create", list |-> list]
<1>1. list \in Seq(Addressed)
  <2>1. dedup(tmp) \in Seq(Archiver)
    BY DedupKeepsEveryKey DEF Inv, TypeOK
  <2> QED BY <2>1, ReaddressedKeepsKeys
<1>2. (CHOOSE k \in Unused : TRUE) \in 1..MaxWrites
  <2>1. Unused # {} /\ Unused \subseteq 1..MaxWrites
    BY DEF Publish, Unused
  <2> QED BY <2>1
<1>3. write \in [id : 1..MaxWrites, stage : {"create", "write"}, list : Seq(Addressed)]
  BY <1>1, <1>2
<1>4. write.list = list /\ write.stage = "create"
  OBVIOUS
<1>5. /\ active_archivers' = list /\ latest' = list
      /\ writes' = writes \cup {write}
      /\ cut' = (writes # {})
      /\ pc' = "idle" /\ tmp' = <<>> /\ base' = <<>> /\ reported' = {}
      /\ asked' = {}
      /\ UNCHANGED <<cache, crashes>>
  BY DEF Publish
<1> HIDE DEF list, write
<1>6. TypeOK'
  <2>1. <<>> \in Seq(Addressed) /\ <<>> \in Seq(Archiver)
    OBVIOUS
  <2>2. writes' \subseteq [id : 1..MaxWrites, stage : {"create", "write"},
                           list : Seq(Addressed)]
    BY <1>3, <1>5 DEF Inv, TypeOK
  <2> QED BY <1>1, <1>5, <2>1, <2>2 DEF Inv, TypeOK
<1>7. CacheFollows'
  BY <1>4, <1>5 DEF CacheFollows
<1>8. CollectsVerified'
  BY <1>5 DEF CollectsVerified
<1> QED BY <1>6, <1>7, <1>8 DEF Inv

LEMMA WritesKeep == \A w \in writes : Inv /\ (CreateFile(w) \/ WriteFile(w)) => Inv'
<1> SUFFICES ASSUME NEW w \in writes, Inv, CreateFile(w) \/ WriteFile(w) PROVE Inv'
  OBVIOUS
<1> USE DEF call, history
<1>1. /\ w \in [id : 1..MaxWrites, stage : {"create", "write"}, list : Seq(Addressed)]
      /\ Len(w.list) \in Nat
  BY DEF Inv, TypeOK
<1>2. CASE CreateFile(w)
  <2> DEFINE opened == [w EXCEPT !.stage = "write"]
  <2>1. /\ opened \in [id : 1..MaxWrites, stage : {"create", "write"}, list : Seq(Addressed)]
        /\ opened.list = w.list
    BY <1>1
  <2>2. /\ writes' = (writes \ {w}) \cup {opened}
        /\ cache' = Unreadable(0)
        /\ UNCHANGED <<active_archivers, call, crashes, history>>
    BY <1>2 DEF CreateFile
  <2> HIDE DEF opened
  <2>3. /\ Unreadable(0) \in [parses : BOOLEAN, list : Seq(Addressed), size : Nat]
        /\ Unreadable(0).size = 0
    BY DEF Unreadable
  <2>4. TypeOK'
    BY <2>1, <2>2, <2>3 DEF Inv, TypeOK
  <2>5. CacheFollows'
    <3> SUFFICES ASSUME ~cut PROVE CacheFollows'
      BY <2>2 DEF CacheFollows
    <3>1. writes = {w} /\ w.list = latest
      BY DEF Inv, CacheFollows
    <3>2. writes' = {opened}
      BY <2>2, <3>1
    <3> QED BY <2>1, <2>2, <2>3, <3>1, <3>2 DEF CacheFollows
  <2>6. CollectsVerified'
    BY <2>2 DEF Inv, CollectsVerified
  <2> QED BY <2>4, <2>5, <2>6 DEF Inv
<1>3. CASE WriteFile(w)
  <2>1. /\ w.stage = "write"
        /\ writes' = writes \ {w}
        /\ cache' = IF Len(w.list) >= cache.size THEN File(w.list) ELSE Unreadable(cache.size)
        /\ UNCHANGED <<active_archivers, call, crashes, history>>
    BY <1>3 DEF WriteFile
  <2>2. cache.size \in Nat
    BY DEF Inv, TypeOK
  <2>3. cache' \in [parses : BOOLEAN, list : Seq(Addressed), size : Nat]
    <3>1. <<>> \in Seq(Addressed)
      OBVIOUS
    <3> QED BY <1>1, <2>1, <2>2, <3>1 DEF File, Unreadable
  <2>4. TypeOK'
    BY <2>1, <2>3 DEF Inv, TypeOK
  <2>5. CacheFollows'
    <3> SUFFICES ASSUME ~cut PROVE CacheFollows'
      BY <2>1 DEF CacheFollows
    <3>1. writes = {w} /\ w.list = latest /\ cache.size = 0
      BY <2>1 DEF Inv, CacheFollows
    <3>2. writes' = {} /\ cache' = File(latest)
      BY <1>1, <2>1, <3>1
    <3> QED BY <2>1, <3>2 DEF CacheFollows
  <2>6. CollectsVerified'
    BY <2>1 DEF Inv, CollectsVerified
  <2> QED BY <2>4, <2>5, <2>6 DEF Inv
<1> QED BY <1>2, <1>3

LEMMA CrashKeeps == Inv /\ Crash => Inv'
<1> SUFFICES ASSUME Inv, Crash PROVE Inv'
  OBVIOUS
<1>1. <<>> \in Seq(Addressed) /\ <<>> \in Seq(Archiver)
  OBVIOUS
<1>2. crashes' \in 0..MaxCrashes
  BY BoundAssumption DEF Inv, TypeOK, Crash
<1>3. TypeOK'
  BY <1>1, <1>2 DEF Inv, TypeOK, Crash
<1>4. CacheFollows'
  BY DEF Inv, CacheFollows, Crash
<1>5. CollectsVerified'
  BY DEF CollectsVerified, Crash
<1> QED BY <1>3, <1>4, <1>5 DEF Inv

LEMMA InvStep == Inv /\ [Next]_vars => Inv'
<1>1. Inv /\ UNCHANGED vars => Inv'
  BY DEF Inv, TypeOK, CollectsVerified, CacheFollows, vars, call, history
<1> QED
  BY <1>1, BeginKeeps, AnswersKeeps, RejectedKeeps, PublishKeeps, WritesKeep, CrashKeeps
  DEF Next

\* What a call of discover computes with, the published list and the cache file
\* keep their types (discover); with it goes the invariant the theorems below rest on.
THEOREM DiscoveryInvariant == Spec => []Inv
  BY InvInit, InvStep, PTL DEF Spec

\* The cache file, the published list and the locals of discover keep their types:
\* a fetch task is asked only for an entry of the list it was spawned for.
THEOREM DiscoveryTypes == Spec => []TypeOK
<1>1. Inv => TypeOK
  BY DEF Inv
<1> QED BY <1>1, DiscoveryInvariant, PTL

\* What the next call, or the next process, finds in the cache file is the list
\* published last, unless writes overlapped or a crash ended one.
THEOREM CacheHoldsLatest == Spec => []CacheIsLatest
<1>1. Inv => CacheIsLatest
  BY DEF Inv, CacheFollows, CacheIsLatest
<1> QED BY <1>1, DiscoveryInvariant, PTL

-----------------------------------------------------------------------------
(* What a call asks, and what it publishes *)

\* What SeedsAreAsked says of the start of a call.
AsksSeeds ==
    \A i \in 1..Len(Seeds) :
        /\ Seeds[i].publicKey \in Keys(base')
        /\ BehindItsKey(i) \/ Seeds[i] \in Range(base')

LEMMA SeedsStep ==
  ASSUME Inv, Next, pc = "idle", pc' = "collect"
  PROVE  AsksSeeds
<1> DEFINE l == cache.list \o Seeds
<1>1. base' = dedup(l)
  BY DEF Next, Begin, AnswerRejected, Answers, Publish, CreateFile, WriteFile, Crash, call
<1>2. cache.list \in Seq(Addressed)
  BY DEF Inv, TypeOK
<1>3. l \in Seq(Addressed)
  BY <1>2, SeedsType
<1>4. Keys(base') = Keys(l)
  BY <1>1, <1>3, DedupKeepsEveryKey
<1>5. Keys(Seeds) \subseteq Keys(base')
  BY <1>2, <1>4, SeedsType, KeysOfConcat
<1>6. ASSUME NEW i \in 1..Len(Seeds), ~BehindItsKey(i) PROVE Seeds[i] \in Range(base')
  <2> DEFINE n == Len(cache.list) + i
  <2>1. n \in 1..Len(l) /\ l[n] = Seeds[i]
    BY <1>2, SeedsType
  <2>2. CASE i > 1
    <3>1. l[n - 1] = Seeds[i - 1]
      BY <1>2, <2>2, SeedsType
    <3>2. ~Repeats(l, n)
      BY <1>6, <2>1, <2>2, <3>1 DEF BehindItsKey, Repeats
    <3> QED BY <1>1, <1>3, <2>1, <3>2, DedupKeepsEveryKey
  <2>3. CASE i = 1 /\ cache.list # <<>>
    <3>1. l[n - 1] = cache.list[Len(cache.list)]
      BY <1>2, <2>3, SeedsType
    <3>2. ~Repeats(l, n)
      BY <1>6, <2>1, <2>3, <3>1 DEF BehindItsKey, Repeats
    <3> QED BY <1>1, <1>3, <2>1, <3>2, DedupKeepsEveryKey
  <2>4. CASE i = 1 /\ cache.list = <<>>
    <3>1. ~Repeats(l, n)
      BY <2>4 DEF Repeats
    <3> QED BY <1>1, <1>3, <2>1, <3>1, DedupKeepsEveryKey
  <2> QED BY <2>2, <2>3, <2>4
<1>7. \A i \in 1..Len(Seeds) : Seeds[i].publicKey \in Keys(Seeds)
  BY DEF Keys
<1> QED BY <1>5, <1>6, <1>7 DEF AsksSeeds

\* Whatever has become of the cache file, a call of discover asks an archiver of
\* every seed's key, at the seed's own address unless the entry before it has its key:
\* cache.extend puts the seeds in, and dedup_by drops one only behind such an entry.
THEOREM SeedsAlwaysAsked == Spec => SeedsAreAsked
<1>1. Inv /\ [Next]_vars => [pc = "idle" /\ pc' = "collect" => AsksSeeds]_vars
  BY SeedsStep
<1>2. [][pc = "idle" /\ pc' = "collect" => AsksSeeds]_vars => SeedsAreAsked
  BY DEF SeedsAreAsked, AsksSeeds
<1> QED BY <1>1, <1>2, DiscoveryInvariant, PTL DEF Spec

LEMMA PublishStep ==
  ASSUME Inv, Next, pc = "collect", pc' = "idle", crashes' = crashes
  PROVE  Keys(active_archivers') = {a.publicKey : a \in reported}
<1>1. crashes \in Nat
  BY BoundAssumption DEF Inv, TypeOK
<1>2. ~Crash
  BY <1>1 DEF Crash
<1>3. Publish
  BY <1>2 DEF Next, Begin, AnswerRejected, Answers, CreateFile, WriteFile, call
<1>4. tmp \in Seq(Archiver) /\ reported = Range(tmp)
  BY DEF Inv, TypeOK, CollectsVerified
<1>5. dedup(tmp) \in Seq(Archiver) /\ Keys(dedup(tmp)) = Keys(tmp)
  BY <1>4, DedupKeepsEveryKey
<1>6. active_archivers' = Readdressed(dedup(tmp))
  BY <1>3 DEF Publish
<1>7. Keys(active_archivers') = Keys(tmp)
  BY <1>5, <1>6, ReaddressedKeepsKeys
<1> QED BY <1>4, <1>7, RangeOfKeys

\* A call of discover publishes exactly the keys in the lists that verified: no
\* rejected answer gets in, and dropping repeated neighbours loses nobody.
THEOREM PublishesVerified == Spec => PublishesWhatVerified
<1>1. Inv /\ [Next]_vars =>
        [pc = "collect" /\ pc' = "idle" /\ crashes' = crashes
           => Keys(active_archivers') = {a.publicKey : a \in reported}]_vars
  BY PublishStep
<1> QED BY <1>1, DiscoveryInvariant, PTL DEF Spec, PublishesWhatVerified

=============================================================================
