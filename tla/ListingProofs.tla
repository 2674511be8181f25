--------------------------- MODULE ListingProofs ---------------------------
(***************************************************************************)
(* The page walk, for any number of documents and any page size.           *)
(*                                                                         *)
(* The argument counts.  In every order the database may return, the       *)
(* documents of one time stand next to each other, behind exactly those    *)
(* that are newer.  So the pages read so far hold enough documents of each *)
(* time, however the list was shifted between two of them.                 *)
(***************************************************************************)
EXTENDS Listing, FiniteSetTheorems, SequenceTheorems,
        FunctionTheorems, TLAPS

(* How many documents of S, and how many entries of s, were created at t. *)
CreatedAt(S, t) == Cardinality({d \in S : created[d] = t})
ListedAt(s, t) == Cardinality({i \in DOMAIN s : created[s[i]] = t})
(* How many documents of S were created later. *)
NewerThan(S, t) == Cardinality({d \in S : created[d] > t})
-----------------------------------------------------------------------------
(* A set of positions that begins at 1 and has no gap is an interval. *)
LEMMA InitialSegment ==
  ASSUME NEW n \in Nat, NEW S \in SUBSET (1..n),
         \A i \in S : 1..i \subseteq S
  PROVE  /\ IsFiniteSet(S) /\ Cardinality(S) \in 0..n
         /\ S = 1..Cardinality(S)
<1> DEFINE c == Cardinality(S)
<1>1. IsFiniteSet(1..n) /\ Cardinality(1..n) = n
  BY FS_Interval
<1>2. IsFiniteSet(S) /\ c \in Nat /\ c <= n
  <2>1. S \subseteq 1..n
    OBVIOUS
  <2>2. IsFiniteSet(S) /\ Cardinality(S) <= Cardinality(1..n)
    BY ONLY <1>1, <2>1, FS_Subset
  <2>3. Cardinality(S) \in Nat
    BY <2>2, FS_CardinalityType
  <2> QED BY <1>1, <2>2, <2>3
<1>3. ASSUME NEW i \in S PROVE i <= c
  <2>1. Cardinality(1..i) = i /\ i \in Nat
    BY FS_Interval
  <2> QED BY <1>2, <2>1, FS_Subset
<1>4. S \subseteq 1..c
  BY <1>2, <1>3
<1>5. IsFiniteSet(1..c) /\ Cardinality(1..c) = c
  BY <1>2, FS_Interval
<1>6. S = 1..c
  BY <1>4, <1>5, FS_Subset
<1> QED BY <1>2, <1>6

(* An order lists every document of S once, so positions count documents. *)
LEMMA PositionsCount ==
  ASSUME NEW S, IsFiniteSet(S), NEW order \in SetToSeqs(S), NEW T \in SUBSET S
  PROVE  /\ order \in [1..Cardinality(S) -> S] /\ Cardinality(S) \in Nat
         /\ Cardinality({i \in 1..Cardinality(S) : order[i] \in T}) = Cardinality(T)
<1> DEFINE n == Cardinality(S)
           P == {i \in 1..n : order[i] \in T}
<1>1. n \in Nat /\ order \in Injection(1..n, S)
  BY FS_CardinalityType DEF SetToSeqs, Injection, IsInjective
<1>2. IsFiniteSet(1..n) /\ Cardinality(1..n) = n
  BY <1>1, FS_Interval
<1>3. order \in Surjection(1..n, S)
  BY <1>1, <1>2, FS_Injection
<1>4. IsFiniteSet(P)
  BY <1>2, FS_Subset
<1>5. [i \in P |-> order[i]] \in Bijection(P, T)
  BY <1>1, <1>3 DEF Bijection, Injection, Surjection, IsInjective
<1>6. Cardinality(P) = Cardinality(T)
  BY <1>4, <1>5, FS_Bijection DEF ExistsBijection
<1> QED BY <1>1, <1>6 DEF Injection

LEMMA SeqGrows ==
  ASSUME NEW S, NEW T, S \subseteq T
  PROVE  Seq(S) \subseteq Seq(T)
BY SeqDef

LEMMA MatchingFinite ==
  ASSUME NEW status
  PROVE  Matching(status) \in SUBSET Docs /\ IsFiniteSet(Matching(status))
BY EnvironmentAssumption, FS_Subset DEF Matching

(* The documents of one time fill the positions behind those of all newer ones. *)
LEMMA TimesStandTogether ==
  ASSUME created \in [Docs -> Nat], NEW order \in NewestFirst, NEW t \in Nat
  PROVE  LET S == Matching(wanted)
         IN  /\ Cardinality(S) \in Nat /\ order \in [1..Cardinality(S) -> S]
             /\ NewerThan(S, t) \in Nat /\ CreatedAt(S, t) \in Nat
             /\ NewerThan(S, t) + CreatedAt(S, t) <= Cardinality(S)
             /\ \A i \in 1..Cardinality(S) :
                  created[order[i]] = t <=>
                    NewerThan(S, t) < i /\ i <= NewerThan(S, t) + CreatedAt(S, t)
<1> DEFINE S == Matching(wanted)
           n == Cardinality(S)
           Newer == {d \in S : created[d] > t}
           NotOlder == {d \in S : created[d] >= t}
           Same == {d \in S : created[d] = t}
           P == {i \in 1..n : order[i] \in Newer}
           Q == {i \in 1..n : order[i] \in NotOlder}
<1>1. IsFiniteSet(S) /\ S \subseteq Docs /\ order \in SetToSeqs(S)
  BY MatchingFinite DEF NewestFirst
<1>2. n \in Nat /\ order \in [1..n -> S]
  BY <1>1, PositionsCount
<1>3. Cardinality(P) = Cardinality(Newer) /\ Cardinality(Q) = Cardinality(NotOlder)
  <2>1. Newer \in SUBSET S /\ NotOlder \in SUBSET S
    OBVIOUS
  <2> QED BY <1>1, <2>1, PositionsCount
<1>4. \A i, j \in 1..n : i < j => created[order[i]] >= created[order[j]]
  BY <1>2 DEF NewestFirst
<1>5. \A i \in 1..n : order[i] \in S /\ created[order[i]] \in Nat
  BY <1>1, <1>2
<1>6. \A i \in P : 1..i \subseteq P
  BY <1>2, <1>4, <1>5
<1>7. \A i \in Q : 1..i \subseteq Q
  BY <1>2, <1>4, <1>5
<1>8. Cardinality(P) \in 0..n /\ P = 1..Cardinality(P)
  BY <1>2, <1>6, InitialSegment
<1>9. Cardinality(Q) \in 0..n /\ Q = 1..Cardinality(Q)
  BY <1>2, <1>7, InitialSegment
<1>10. /\ IsFiniteSet(Newer) /\ IsFiniteSet(Same)
       /\ Cardinality(Same) \in Nat /\ Cardinality(Newer) \in Nat
       /\ Cardinality(NotOlder) = Cardinality(Newer) + Cardinality(Same)
  <2>1. IsFiniteSet(Newer) /\ IsFiniteSet(Same)
    BY <1>1, FS_Subset
  <2>2. Newer \cap Same = {} /\ Newer \cup Same = NotOlder
    BY <1>1
  <2>3. Cardinality(Newer) \in Nat /\ Cardinality(Same) \in Nat /\ Cardinality({}) = 0
    BY <2>1, FS_CardinalityType, FS_EmptySet
  <2> QED BY <2>1, <2>2, <2>3, FS_Union
<1>11. ASSUME NEW i \in 1..n
       PROVE  created[order[i]] = t <=>
                Cardinality(Newer) < i /\ i <= Cardinality(Newer) + Cardinality(Same)
  <2>1. created[order[i]] = t <=> i \in Q /\ i \notin P
    BY <1>5
  <2>2. i \in P <=> i <= Cardinality(Newer)
    BY <1>3, <1>8
  <2>3. i \in Q <=> i <= Cardinality(Newer) + Cardinality(Same)
    BY <1>3, <1>9, <1>10
  <2> QED BY <2>1, <2>2, <2>3, <1>10
<1>12. NewerThan(S, t) = Cardinality(Newer) /\ CreatedAt(S, t) = Cardinality(Same)
  BY DEF NewerThan, CreatedAt
<1>13. Cardinality(Newer) + Cardinality(Same) <= n
  BY <1>2, <1>3, <1>9, <1>10
<1> HIDE DEF S, n, Newer, Same, P, Q, NotOlder
<1>14. /\ NewerThan(S, t) \in Nat /\ CreatedAt(S, t) \in Nat
       /\ NewerThan(S, t) + CreatedAt(S, t) <= n
       /\ \A i \in 1..n : created[order[i]] = t <=>
            NewerThan(S, t) < i /\ i <= NewerThan(S, t) + CreatedAt(S, t)
  BY <1>10, <1>11, <1>12, <1>13
<1> QED BY <1>2, <1>14 DEF S, n
(* Two readings of one list show the same times. *)
LEMMA OrdersAgree ==
  ASSUME created \in [Docs -> Nat], NEW o1 \in NewestFirst, NEW o2 \in NewestFirst,
         NEW i \in 1..Cardinality(Matching(wanted))
  PROVE  created[o1[i]] = created[o2[i]]
<1> DEFINE t == created[o1[i]]
<1>1. o1 \in [1..Cardinality(Matching(wanted)) -> Matching(wanted)]
  BY TimesStandTogether, 0 \in Nat
<1>2. t \in Nat
  BY <1>1, MatchingFinite
<1> HIDE DEF t
<1>3. NewerThan(Matching(wanted), t) < i
      /\ i <= NewerThan(Matching(wanted), t) + CreatedAt(Matching(wanted), t)
  BY <1>2, TimesStandTogether DEF t
<1> QED BY <1>2, <1>3, TimesStandTogether DEF t

LEMMA ListedConcat ==
  ASSUME NEW s1 \in Seq(Docs), NEW s2 \in Seq(Docs), NEW t
  PROVE  /\ ListedAt(s1, t) \in Nat /\ ListedAt(s2, t) \in Nat
         /\ ListedAt(s1 \o s2, t) = ListedAt(s1, t) + ListedAt(s2, t)
<1> DEFINE s == s1 \o s2
           A == {i \in DOMAIN s1 : created[s1[i]] = t}
           B == {i \in DOMAIN s2 : created[s2[i]] = t}
           C == {i \in (Len(s1) + 1)..(Len(s1) + Len(s2)) : created[s[i]] = t}
           D == {i \in DOMAIN s : created[s[i]] = t}
<1>1. /\ s \in Seq(Docs) /\ Len(s) = Len(s1) + Len(s2)
      /\ \A i \in 1..Len(s1) + Len(s2) : s[i] = IF i <= Len(s1) THEN s1[i] ELSE s2[i - Len(s1)]
  BY ConcatProperties
<1>2. /\ Len(s1) \in Nat /\ Len(s2) \in Nat
      /\ DOMAIN s1 = 1..Len(s1) /\ DOMAIN s2 = 1..Len(s2) /\ DOMAIN s = 1..Len(s)
  BY <1>1, LenProperties
<1> HIDE DEF s
<1>3. IsFiniteSet(A) /\ IsFiniteSet(B) /\ IsFiniteSet(C)
  <2>1. IsFiniteSet(1..Len(s1)) /\ IsFiniteSet(1..Len(s2))
        /\ IsFiniteSet((Len(s1) + 1)..(Len(s1) + Len(s2)))
    BY <1>2, FS_Interval
  <2> QED BY <2>1, <1>2, FS_Subset
<1>4. D = A \cup C /\ A \cap C = {}
  BY <1>1, <1>2
<1>5. [i \in B |-> i + Len(s1)] \in Bijection(B, C)
  <2> DEFINE f == [i \in B |-> i + Len(s1)]
  <2>1. f \in [B -> C]
    BY <1>1, <1>2
  <2>2. \A i, j \in B : f[i] = f[j] => i = j
    BY <1>2
  <2>3. \A k \in C : k - Len(s1) \in B /\ f[k - Len(s1)] = k
    BY <1>1, <1>2
  <2> HIDE DEF f, B, C
  <2>4. f \in Bijection(B, C)
    BY <2>1, <2>2, <2>3, Fun_IsBij
  <2> QED BY <2>4 DEF f
<1>6. Cardinality(B) = Cardinality(C)
  BY <1>3, <1>5, FS_Bijection DEF ExistsBijection
<1>7. Cardinality(A) \in Nat /\ Cardinality(B) \in Nat /\ Cardinality({}) = 0
  BY <1>3, FS_CardinalityType, FS_EmptySet
<1> HIDE DEF A, B, C, D
<1>8. Cardinality(D) = Cardinality(A) + Cardinality(B)
  <2>1. Cardinality(A \cup C) = Cardinality(A) + Cardinality(C) - Cardinality(A \cap C)
    BY <1>3, FS_Union
  <2>2. A \cup C = D /\ Cardinality(A \cap C) = 0
    BY <1>4, <1>7
  <2>3. Cardinality(D) = Cardinality(A) + Cardinality(C) - 0
    BY <2>1, <2>2
  <2>4. Cardinality(C) \in Nat
    BY <1>6, <1>7
  <2>5. Cardinality(D) = Cardinality(A) + Cardinality(C)
    BY <2>3, <2>4, <1>7
  <2> QED BY <2>5, <1>6
<1> QED BY <1>7, <1>8 DEF ListedAt, A, B, D, s

(* skip and limit: a page is a piece of the order, and only the last is short. *)
LEMMA PageEntries ==
  ASSUME created \in [Docs -> Nat], NEW order \in NewestFirst, NEW p \in Nat \ {0}
  PROVE  LET n == Cardinality(Matching(wanted))
             s == PageOf(order, p)
         IN  /\ Skip(p) \in Nat /\ Skip(p + 1) = Skip(p) + PageSize
             /\ s \in Seq(Matching(wanted))
             /\ Len(s) = IF Skip(p) + PageSize <= n THEN PageSize
                         ELSE IF Skip(p) <= n THEN n - Skip(p) ELSE 0
             /\ \A i \in 1..Len(s) : s[i] = order[Skip(p) + i]
<1> DEFINE n == Cardinality(Matching(wanted))
           last == IF Skip(p) + PageSize < Len(order) THEN Skip(p) + PageSize ELSE Len(order)
<1>1. n \in Nat /\ order \in [1..n -> Matching(wanted)]
  BY TimesStandTogether, 0 \in Nat
<1>2. Len(order) = n
  BY <1>1, LenProperties
<1>3. PageSize \in Nat \ {0}
  BY ListingAssumption
<1>4. Skip(p) \in Nat /\ Skip(p + 1) = Skip(p) + PageSize
  BY <1>3 DEF Skip
<1>5. last \in Nat /\ last <= n
  BY <1>1, <1>2, <1>3, <1>4
<1>6. Skip(p) + 1 \in Int /\ last \in Int
      /\ \A i \in (Skip(p) + 1)..last : order[i] \in Matching(wanted)
  BY <1>1, <1>4, <1>5
<1>7. PageOf(order, p) = SubSeq(order, Skip(p) + 1, last)
  BY DEF PageOf
<1> HIDE DEF last, n
<1>8. /\ PageOf(order, p) \in Seq(Matching(wanted))
      /\ Len(PageOf(order, p)) = IF Skip(p) + 1 <= last THEN last - (Skip(p) + 1) + 1 ELSE 0
      /\ \A i \in 1..(last - (Skip(p) + 1) + 1) :
           PageOf(order, p)[i] = order[(Skip(p) + 1) + i - 1]
  BY <1>6, <1>7, SubSeqProperties
<1>9. Len(PageOf(order, p)) = IF Skip(p) + PageSize <= n THEN PageSize
                              ELSE IF Skip(p) <= n THEN n - Skip(p) ELSE 0
  BY <1>1, <1>2, <1>3, <1>4, <1>8 DEF last
<1>10. \A i \in 1..Len(PageOf(order, p)) : PageOf(order, p)[i] = order[Skip(p) + i]
  BY <1>4, <1>5, <1>8
<1> QED BY <1>4, <1>8, <1>9, <1>10 DEF n

(* The entries of one time on a page are those of its positions that fall on it. *)
LEMMA ListedOnPage ==
  ASSUME created \in [Docs -> Nat], NEW order \in NewestFirst, NEW p \in Nat \ {0}, NEW t \in Nat
  PROVE  LET S == Matching(wanted)
             s == PageOf(order, p)
         IN  {i \in DOMAIN s : created[s[i]] = t}
               = {i \in 1..Len(s) : /\ NewerThan(S, t) < Skip(p) + i
                                    /\ Skip(p) + i <= NewerThan(S, t) + CreatedAt(S, t)}
<1> DEFINE S == Matching(wanted)
           n == Cardinality(S)
           s == PageOf(order, p)
<1>1. /\ Skip(p) \in Nat /\ Len(s) \in Nat /\ DOMAIN s = 1..Len(s) /\ n \in Nat
      /\ \A i \in 1..Len(s) : s[i] = order[Skip(p) + i] /\ Skip(p) + i \in 1..n
  <2>1. n \in Nat
    BY TimesStandTogether
  <2>2. s \in Seq(S)
    BY PageEntries
  <2> QED BY <2>1, <2>2, PageEntries, LenProperties, ListingAssumption
<1>2. \A i \in 1..n : created[order[i]] = t <=>
        NewerThan(S, t) < i /\ i <= NewerThan(S, t) + CreatedAt(S, t)
  BY TimesStandTogether
<1> HIDE DEF S, n, s
<1>3. \A i \in 1..Len(s) : created[s[i]] = t <=>
        NewerThan(S, t) < Skip(p) + i /\ Skip(p) + i <= NewerThan(S, t) + CreatedAt(S, t)
  BY <1>1, <1>2
<1>4. {i \in DOMAIN s : created[s[i]] = t}
        = {i \in 1..Len(s) : /\ NewerThan(S, t) < Skip(p) + i
                             /\ Skip(p) + i <= NewerThan(S, t) + CreatedAt(S, t)}
  BY <1>1, <1>3
<1> QED BY <1>4 DEF S, s

(* What a page adds: if the documents of a time that have not been shown stand *)
(* behind the pages read so far, then after this page all of them have been    *)
(* shown, or the page is full and the others stand behind it too.              *)
LEMMA PageFills ==
  ASSUME created \in [Docs -> Nat], NEW order \in NewestFirst, NEW p \in Nat \ {0}, NEW t \in Nat,
         NEW x \in Nat, x + NewerThan(Matching(wanted), t) >= Skip(p)
  PROVE  LET S == Matching(wanted)
             s == PageOf(order, p)
             y == x + ListedAt(s, t)
         IN  \/ y >= CreatedAt(S, t)
             \/ Len(s) = PageSize /\ y + NewerThan(S, t) >= Skip(p) + PageSize
<1> DEFINE S == Matching(wanted)
           n == Cardinality(S)
           s == PageOf(order, p)
           g == NewerThan(S, t)
           m == CreatedAt(S, t)
           k == Skip(p)
           a == IF g < k THEN 1 ELSE g + 1 - k
           b == IF g + m < k + Len(s) THEN g + m - k ELSE Len(s)
<1>1. /\ g \in Nat /\ m \in Nat /\ n \in Nat /\ g + m <= n
  BY TimesStandTogether
<1>2. /\ k \in Nat /\ PageSize \in Nat \ {0}
      /\ Len(s) = IF k + PageSize <= n THEN PageSize ELSE IF k <= n THEN n - k ELSE 0
  BY PageEntries, ListingAssumption
<1>3. {i \in DOMAIN s : created[s[i]] = t} = {i \in 1..Len(s) : g < k + i /\ k + i <= g + m}
  BY ListedOnPage
<1> HIDE DEF S, n, s, g, m, k
<1>4. Len(s) \in Nat /\ a \in Int /\ b \in Int
  BY <1>1, <1>2
<1>5. {i \in 1..Len(s) : g < k + i /\ k + i <= g + m} = a..b
  BY <1>1, <1>2, <1>4
<1>6. ListedAt(s, t) = IF a > b THEN 0 ELSE b - a + 1
  BY <1>3, <1>4, <1>5, FS_Interval DEF ListedAt
<1>7. x + g >= k
  BY DEF S, g, k
<1>8. \/ x + ListedAt(s, t) >= m
      \/ Len(s) = PageSize /\ x + ListedAt(s, t) + g >= k + PageSize
  <2> DEFINE l == ListedAt(s, t)
  <2>1. l = IF a > b THEN 0 ELSE b - a + 1
    BY <1>6
  <2> HIDE DEF l
  <2> QED BY <1>1, <1>2, <1>4, <1>7, <2>1 DEF l
<1> QED BY <1>8 DEF S, s, g, m, k

-----------------------------------------------------------------------------
(* The invariant. *)
Stored == {d \in Docs : Status(d) # "absent"}
Lasting == {Null} \cup Terminal   \* no document leaves a list with such a filter

(* What has been read was there, and was stamped before it was there. *)
WalkInv ==
  /\ docs \in [Docs -> DocumentInDB] /\ created \in [Docs -> Nat] /\ now \in Nat
  /\ \A d \in Stored : created[d] # 0
  /\ walk \in {"before", "reading", "after"}
  /\ page \in Nat \ {0}
  /\ shown \in Seq(Stored) /\ present \in SUBSET Stored
  /\ items # Null => items \in Seq(Stored) /\ walk = "reading"
  /\ total # Null => walk = "reading"
  /\ rule \in {"total_pages", "short_page"}
  /\ walk = "before" => shown = <<>> /\ page = 1

(* For the documents of one time, of which at least n have been shown: they    *)
(* are all shown, or those not shown stand behind the first k entries.         *)
AllShownOrBehind(n, k, t) ==
  \/ n >= CreatedAt(present, t)
  \/ n + NewerThan(Matching(wanted), t) >= k

ReadSoFar(t) == AllShownOrBehind(ListedAt(shown, t), Skip(page), t)

WithThePage(t) ==
  LET n == ListedAt(shown, t) + ListedAt(items, t)
  IN  \/ n >= CreatedAt(present, t)
      \/ Len(items) = PageSize /\ AllShownOrBehind(n, Skip(page) + PageSize, t)

AllShown(t) == ListedAt(shown, t) >= CreatedAt(present, t)

(* What a walk that ended shows of the documents of one time. *)
EndsWell(t) ==
  \/ AllShown(t)
  \/ /\ rule = "total_pages"
     /\ AllShownOrBehind(ListedAt(shown, t), page * PageSize, t)

SkipInv ==
  wanted \in Lasting =>
    /\ walk = "reading" => present \subseteq Matching(wanted)
    /\ \A t \in Nat \ {0} :
         /\ walk = "reading" => ReadSoFar(t)
         /\ items # Null => WithThePage(t)
         /\ walk = "after" => EndsWell(t)

(* While nothing is written, the pages read are a beginning of the list. *)
QuietInv ==
  quiet =>
    /\ walk = "reading" =>
         /\ Len(shown) = Skip(page) /\ Skip(page) <= Cardinality(Matching(wanted))
         /\ \A order \in NewestFirst : \A i \in DOMAIN shown :
              created[shown[i]] = created[order[i]]
         /\ total # Null => total = Cardinality(Matching(wanted))
    /\ items # Null => \E order \in NewestFirst : items = PageOf(order, page)
    /\ QuietWalkIsExact

IInv == WalkInv /\ SkipInv /\ QuietInv
-----------------------------------------------------------------------------
(* The inductive invariant: its first part. *)
LEMMA WalkInit == Init => WalkInv
BY DEF Init, RepositoryInit, NoDocument, DocumentInDB, Statuses, WalkInv, Stored, Status

(* What the writes do to the collection: what was there stays, and a filter *)
(* on a terminal status, or none, goes on matching it.                      *)
LEMMA WriteGrows ==
  ASSUME WalkInv, NEW d \in Docs, Write(d)
  PROVE  /\ docs' \in [Docs -> DocumentInDB]
         /\ Stored' \subseteq Stored \cup {d} /\ Stored \subseteq Stored'
         /\ wanted \in Lasting => Matching(wanted) \subseteq Matching(wanted)'
<1>1. docs \in [Docs -> DocumentInDB] /\ ContentOf[d] \in Contents /\ MaxAttempts \in Nat
  BY EnvironmentAssumption, ListingAssumption DEF WalkInv
<1>2. docs[d] \in DocumentInDB
  BY <1>1
<1>3. \/ Status(d) = "absent" /\ Insert(d, "queued", Null, FALSE)
      \/ Status(d) = "absent" /\ Insert(d, "completed", ContentOf[d], TRUE)
      \/ ClaimForProcessing(d)
      \/ Status(d) = "processing" /\ MarkCompleted(d, ContentOf[d], FALSE)
      \/ Status(d) = "processing" /\ MarkFailed(d)
      \/ Status(d) = "processing" /\ Requeue(d)
      \/ Status(d) = "queued" /\ MarkCompleted(d, ContentOf[d], TRUE)
  BY DEF Write
<1> DEFINE Updated == \E v \in DocumentInDB :
             /\ docs' = [docs EXCEPT ![d] = v]
             /\ v.status # "absent"
             /\ Status(d) \in {"absent", "queued", "processing"}
<1>4. Updated
  <2> DEFINE claimed == [docs[d] EXCEPT !.status = "processing", !.attempts = @ + 1]
             done(c) == [docs[d] EXCEPT !.status = "completed", !.summary = ContentOf[d],
                                        !.error = FALSE, !.cached = c]
             failed == [docs[d] EXCEPT !.status = "failed", !.error = TRUE]
             requeued == [docs[d] EXCEPT !.status = "queued"]
             new(s, c, b) == [ status |-> s, summary |-> c, error |-> FALSE,
                               attempts |-> 0, cached |-> b ]
  <2>1. CASE Status(d) = "absent" /\ Insert(d, "queued", Null, FALSE)
    <3>1. new("queued", Null, FALSE) \in DocumentInDB
      BY DEF DocumentInDB, Statuses
    <3> QED BY <2>1, <3>1 DEF Insert
  <2>2. CASE Status(d) = "absent" /\ Insert(d, "completed", ContentOf[d], TRUE)
    <3>1. new("completed", ContentOf[d], TRUE) \in DocumentInDB
      BY <1>1 DEF DocumentInDB, Statuses
    <3> QED BY <2>2, <3>1 DEF Insert
  <2>3. CASE ClaimForProcessing(d)
    <3>0. docs[d].attempts + 1 \in Nat
      BY <1>2 DEF DocumentInDB
    <3>1. claimed \in DocumentInDB /\ claimed.status = "processing"
      BY <1>2, <3>0 DEF DocumentInDB, Statuses
    <3>2. docs' = [docs EXCEPT ![d] = claimed]
      BY <2>3, <1>1 DEF ClaimForProcessing
    <3> QED BY <2>3, <3>1, <3>2 DEF ClaimForProcessing
  <2>4. ASSUME NEW c \in BOOLEAN, Status(d) \in {"queued", "processing"},
               MarkCompleted(d, ContentOf[d], c)
        PROVE  Updated
    <3>1. done(c) \in DocumentInDB /\ done(c).status = "completed"
      BY <1>1, <1>2 DEF DocumentInDB, Statuses
    <3>2. docs' = [docs EXCEPT ![d] = done(c)]
      BY <2>4, <1>1 DEF MarkCompleted
    <3> QED BY <2>4, <3>1, <3>2
  <2>5. CASE Status(d) = "processing" /\ MarkFailed(d)
    <3>1. failed \in DocumentInDB /\ failed.status = "failed"
      BY <1>2 DEF DocumentInDB, Statuses
    <3>2. docs' = [docs EXCEPT ![d] = failed]
      BY <2>5, <1>1 DEF MarkFailed
    <3> QED BY <2>5, <3>1, <3>2
  <2>6. CASE Status(d) = "processing" /\ Requeue(d)
    <3>1. requeued \in DocumentInDB /\ requeued.status = "queued"
      BY <1>2 DEF DocumentInDB, Statuses
    <3>2. docs' = [docs EXCEPT ![d] = requeued]
      BY <2>6, <1>1 DEF Requeue
    <3> QED BY <2>6, <3>1, <3>2
  <2> QED BY <1>3, <2>1, <2>2, <2>3, <2>4, <2>5, <2>6
<1>5. docs' \in [Docs -> DocumentInDB]
  BY <1>1, <1>4
<1>6. /\ \A e \in Docs \ {d} : Status(e)' = Status(e)
      /\ Status(d)' # "absent" /\ Status(d) \in {"absent", "queued", "processing"}
  BY <1>1, <1>4 DEF Status
<1>7. wanted' = wanted
  BY DEF Write, walkVars
<1> QED BY <1>5, <1>6, <1>7 DEF Stored, Matching, Lasting, Terminal

LEMMA WalkStep == WalkInv /\ [Next]_vars => WalkInv'
<1> SUFFICES ASSUME WalkInv, [Next]_vars PROVE WalkInv'
  OBVIOUS
<1>1. ASSUME NEW d \in Docs, ReadClock(d) PROVE WalkInv'
  <2>1. created' \in [Docs -> Nat] /\ now' \in Nat /\ \A e \in Stored : created'[e] # 0
    <3>1. d \notin Stored
      BY <1>1 DEF WalkInv, ReadClock
    <3> QED BY <1>1, <3>1 DEF WalkInv, ReadClock
  <2>2. UNCHANGED <<docs, walkVars>> /\ Stored' = Stored
    BY <1>1 DEF ReadClock, Stored, Status
  <2> QED BY <2>1, <2>2 DEF WalkInv, walkVars
<1>2. ASSUME NEW d \in Docs, Write(d) PROVE WalkInv'
  <2>1. UNCHANGED <<created, now, walkVars>> /\ created[d] # 0
    BY <1>2 DEF Write, clockVars
  <2>2. /\ docs' \in [Docs -> DocumentInDB]
        /\ Stored' \subseteq Stored \cup {d} /\ Stored \subseteq Stored'
    BY <1>2, WriteGrows
  <2>3. Seq(Stored) \subseteq Seq(Stored')
    BY <2>2, SeqGrows
  <2> QED BY <2>1, <2>2, <2>3 DEF WalkInv, walkVars
<1>3. CASE StartWalk
  <2>1. Stored' = Stored /\ present' \subseteq Stored
    BY <1>3 DEF StartWalk, Stored, Matching, Status
  <2> QED BY <1>3, <2>1 DEF WalkInv, StartWalk, clockVars
<1>4. CASE FetchPage
  <2>1. Stored' = Stored
    BY <1>4 DEF FetchPage, Stored, Status
  <2>2. PICK order \in NewestFirst : items' = PageOf(order, page)
    BY <1>4 DEF FetchPage
  <2>3. items' \in Seq(Matching(wanted))
    BY <2>2, PageEntries DEF WalkInv
  <2>4. items' \in Seq(Stored)
    <3>1. Matching(wanted) \subseteq Stored
      BY DEF Matching, Stored
    <3> QED BY <2>3, <3>1, SeqGrows
  <2> QED BY <1>4, <2>1, <2>4 DEF WalkInv, FetchPage, clockVars
<1>5. CASE CountDocuments
  <2>1. Stored' = Stored
    BY <1>5 DEF CountDocuments, Stored, Status
  <2> QED BY <1>5, <2>1 DEF WalkInv, CountDocuments, clockVars
<1>6. CASE Answer
  <2>1. Stored' = Stored
    BY <1>6 DEF Answer, Stored, Status
  <2>2. shown' \in Seq(Stored)
    BY <1>6, ConcatProperties DEF Answer, WalkInv
  <2>3. page' \in Nat \ {0} /\ walk' \in {"reading", "after"}
    BY <1>6 DEF Answer, WalkInv
  <2> QED BY <1>6, <2>1, <2>2, <2>3 DEF WalkInv, Answer, clockVars
<1>7. CASE UNCHANGED vars
  BY <1>7 DEF vars, clockVars, walkVars, WalkInv, Stored, Status
<1> QED BY <1>1, <1>2, <1>3, <1>4, <1>5, <1>6, <1>7 DEF Next
-----------------------------------------------------------------------------
(* The second part: no time is skipped. *)
LEMMA CountsAreNumbers ==
  ASSUME WalkInv, NEW t
  PROVE  /\ ListedAt(shown, t) \in Nat
         /\ items # Null => ListedAt(items, t) \in Nat
         /\ CreatedAt(present, t) \in Nat
         /\ NewerThan(Matching(wanted), t) \in Nat
<1>1. Stored \subseteq Docs
  BY DEF Stored
<1>2. shown \in Seq(Docs) /\ (items # Null => items \in Seq(Docs)) /\ present \subseteq Docs
  BY <1>1, SeqGrows DEF WalkInv
<1>3. ListedAt(shown, t) \in Nat /\ (items # Null => ListedAt(items, t) \in Nat)
  BY <1>2, ListedConcat
<1>4. \A S \in SUBSET Docs : Cardinality(S) \in Nat
  BY EnvironmentAssumption, FS_Subset, FS_CardinalityType
<1>5. {d \in present : created[d] = t} \in SUBSET Docs
      /\ {d \in Matching(wanted) : created[d] > t} \in SUBSET Docs
  BY <1>2 DEF Matching
<1> QED BY <1>3, <1>4, <1>5 DEF CreatedAt, NewerThan

(* A clock read or a write moves nothing that has been shown, and can only put *)
(* documents in front of those that have not.                                  *)
LEMMA OthersOnlyGrow ==
  ASSUME WalkInv, WalkInv', UNCHANGED <<wanted, walk, page, items, rule, shown, present>>,
         \A d \in Stored : created'[d] = created[d],
         Matching(wanted) \subseteq Matching(wanted)', NEW t
  PROVE  /\ ListedAt(shown, t)' = ListedAt(shown, t)
         /\ items # Null => ListedAt(items, t)' = ListedAt(items, t)
         /\ CreatedAt(present, t)' = CreatedAt(present, t)
         /\ NewerThan(Matching(wanted), t)' \in Nat
         /\ NewerThan(Matching(wanted), t)' >= NewerThan(Matching(wanted), t)
<1>1. UNCHANGED <<wanted, shown, items, present>>
  OBVIOUS
<1>2. \A s \in Seq(Stored) : {i \in DOMAIN s : created'[s[i]] = t} = {i \in DOMAIN s : created[s[i]] = t}
  OBVIOUS
<1>3. ListedAt(shown, t)' = ListedAt(shown, t)
  BY <1>1, <1>2 DEF ListedAt, WalkInv
<1>4. ASSUME items # Null PROVE ListedAt(items, t)' = ListedAt(items, t)
  BY <1>1, <1>2, <1>4 DEF ListedAt, WalkInv
<1>5. {d \in present : created'[d] = t} = {d \in present : created[d] = t}
  BY DEF WalkInv
<1>6. CreatedAt(present, t)' = CreatedAt(present, t)
  BY <1>1, <1>5 DEF CreatedAt
<1> DEFINE A == {d \in Matching(wanted) : created[d] > t}
           B == {d \in Matching(wanted)' : created'[d] > t}
<1>7. A \subseteq B
  <2>1. Matching(wanted) \subseteq Stored
    BY DEF Matching, Stored
  <2> QED BY <2>1
<1>8. IsFiniteSet(B)
  <2>1. B \subseteq Docs
    BY <1>1 DEF Matching
  <2> QED BY <2>1, EnvironmentAssumption, FS_Subset
<1>9. Cardinality(A) \in Nat /\ Cardinality(B) \in Nat /\ Cardinality(A) <= Cardinality(B)
  <2> HIDE DEF A, B
  <2> QED BY <1>7, <1>8, FS_Subset, FS_CardinalityType
<1>10. /\ NewerThan(Matching(wanted), t)' \in Nat
       /\ NewerThan(Matching(wanted), t)' >= NewerThan(Matching(wanted), t)
  BY <1>9 DEF NewerThan
<1> QED BY <1>3, <1>4, <1>6, <1>10

LEMMA SkipKept ==
  ASSUME WalkInv, WalkInv', SkipInv, UNCHANGED <<wanted, walk, page, items, rule, shown, present>>,
         \A d \in Stored : created'[d] = created[d],
         wanted \in Lasting => Matching(wanted) \subseteq Matching(wanted)'
  PROVE  SkipInv'
<1> SUFFICES ASSUME wanted \in Lasting PROVE SkipInv'
  BY DEF SkipInv, Lasting
<1>1. UNCHANGED <<wanted, walk, page, items, rule, shown, present>> /\ Skip(page)' = Skip(page)
  BY DEF Skip
<1>2. Matching(wanted) \subseteq Matching(wanted)'
  OBVIOUS
<1>3. ASSUME NEW t PROVE
        /\ ListedAt(shown, t)' = ListedAt(shown, t)
        /\ items # Null => ListedAt(items, t)' = ListedAt(items, t)
        /\ CreatedAt(present, t)' = CreatedAt(present, t)
        /\ NewerThan(Matching(wanted), t)' \in Nat
        /\ NewerThan(Matching(wanted), t)' >= NewerThan(Matching(wanted), t)
  BY <1>2, OthersOnlyGrow
<1>4. ASSUME NEW n, n \in Nat, NEW k \in Nat, NEW t, AllShownOrBehind(n, k, t)
      PROVE  AllShownOrBehind(n, k, t)'
  <2> DEFINE g == NewerThan(Matching(wanted), t)
             h == NewerThan(Matching(wanted), t)'
  <2>1. g \in Nat /\ h \in Nat /\ h >= g
    BY <1>3, CountsAreNumbers
  <2>2. CASE n >= CreatedAt(present, t)
    BY <1>3, <2>2 DEF AllShownOrBehind
  <2>3. CASE n + g >= k
    <3> HIDE DEF g, h
    <3>1. n + h >= k
      BY <2>1, <2>3, <1>4
    <3> QED BY <3>1 DEF AllShownOrBehind, h
  <2> QED BY <1>4, <2>2, <2>3 DEF AllShownOrBehind
<1>5. Skip(page) \in Nat /\ Skip(page) + PageSize \in Nat
  BY ListingAssumption DEF Skip, WalkInv
<1>6. ASSUME NEW t \in Nat \ {0}, ReadSoFar(t) PROVE ReadSoFar(t)'
  BY <1>1, <1>3, <1>4, <1>5, <1>6, CountsAreNumbers DEF ReadSoFar
<1>7. ASSUME NEW t \in Nat \ {0}, items # Null, WithThePage(t) PROVE WithThePage(t)'
  <2> DEFINE n == ListedAt(shown, t) + ListedAt(items, t)
             k == Skip(page) + PageSize
  <2>1. n \in Nat /\ n' = n /\ k' = k
    BY <1>1, <1>3, <1>7, CountsAreNumbers
  <2>2. CreatedAt(present, t)' = CreatedAt(present, t) /\ Len(items)' = Len(items)
    BY <1>1, <1>3
  <2>3. AllShownOrBehind(n, k, t) => AllShownOrBehind(n, k, t)'
    BY <1>4, <1>5, <2>1
  <2>4. \/ n >= CreatedAt(present, t)
        \/ Len(items) = PageSize /\ AllShownOrBehind(n, k, t)
    BY <1>7 DEF WithThePage
  <2>5. \/ n' >= CreatedAt(present, t)'
        \/ Len(items)' = PageSize /\ AllShownOrBehind(n, k, t)'
    BY <2>1, <2>2, <2>3, <2>4
  <2> QED BY <2>5 DEF WithThePage
<1>8. ASSUME NEW t \in Nat \ {0}, EndsWell(t) PROVE EndsWell(t)'
  <2>1. page * PageSize \in Nat
    BY ListingAssumption DEF WalkInv
  <2> QED BY <1>1, <1>3, <1>4, <1>8, <2>1, CountsAreNumbers DEF EndsWell, AllShown
<1> QED BY <1>1, <1>2, <1>6, <1>7, <1>8 DEF SkipInv

LEMMA SkipInit == Init => SkipInv
BY DEF Init, SkipInv

LEMMA SkipStep == WalkInv /\ WalkInv' /\ SkipInv /\ [Next]_vars => SkipInv'
<1> SUFFICES ASSUME WalkInv, WalkInv', SkipInv, [Next]_vars PROVE SkipInv'
  OBVIOUS
<1>1. ASSUME NEW d \in Docs, ReadClock(d) PROVE SkipInv'
  <2>1. d \notin Stored /\ (\A e \in Stored : created'[e] = created[e]) /\ UNCHANGED walkVars
    BY <1>1 DEF ReadClock, WalkInv, Stored
  <2>2. Matching(wanted)' = Matching(wanted)
    BY <1>1 DEF ReadClock, Matching, Status, walkVars
  <2> QED BY <2>1, <2>2, SkipKept DEF walkVars
<1>2. ASSUME NEW d \in Docs, Write(d) PROVE SkipInv'
  <2>1. wanted \in Lasting => Matching(wanted) \subseteq Matching(wanted)'
    BY <1>2, WriteGrows
  <2>2. UNCHANGED <<created, walkVars>>
    BY <1>2 DEF Write, clockVars
  <2> QED BY <2>1, <2>2, SkipKept DEF walkVars
<1>3. CASE StartWalk
  <2>1. walk' = "reading" /\ items' = Null /\ shown' = <<>> /\ page' = 1
    BY <1>3 DEF StartWalk, WalkInv
  <2>2. present' = Matching(wanted)'
    BY <1>3 DEF StartWalk, Matching, Status
  <2>3. ASSUME NEW t \in Nat \ {0} PROVE ReadSoFar(t)'
    <3>1. ListedAt(shown, t)' = 0
      <4>1. {i \in DOMAIN shown' : created'[shown'[i]] = t} = {}
        BY <2>1
      <4> QED BY <4>1, FS_EmptySet DEF ListedAt
    <3>2. Skip(page)' = 0
      BY <2>1, ListingAssumption DEF Skip
    <3>3. NewerThan(Matching(wanted), t)' \in Nat
      <4>1. {d \in Matching(wanted)' : created'[d] > t} \in SUBSET Docs
        BY DEF Matching
      <4>2. IsFiniteSet({d \in Matching(wanted)' : created'[d] > t})
        BY <4>1, EnvironmentAssumption, FS_Subset
      <4> QED BY <4>2, FS_CardinalityType DEF NewerThan
    <3> QED BY <3>1, <3>2, <3>3 DEF ReadSoFar, AllShownOrBehind
  <2> QED BY <2>1, <2>2, <2>3 DEF SkipInv
<1>4. CASE FetchPage
  <2>1. PICK order \in NewestFirst : items' = PageOf(order, page)
    BY <1>4 DEF FetchPage
  <2>2. /\ UNCHANGED <<docs, created, wanted, walk, page, rule, shown, present>>
        /\ walk = "reading" /\ Matching(wanted)' = Matching(wanted)
    BY <1>4 DEF FetchPage, clockVars, Matching, Status
  <2>3. ASSUME NEW t \in Nat \ {0}, wanted \in Lasting, ReadSoFar(t) PROVE WithThePage(t)'
    <3> DEFINE x == ListedAt(shown, t)
               i == ListedAt(PageOf(order, page), t)
               g == NewerThan(Matching(wanted), t)
               p == CreatedAt(present, t)
               m == CreatedAt(Matching(wanted), t)
               full == Len(PageOf(order, page)) = PageSize
               k == Skip(page)
    <3>1. x \in Nat /\ p \in Nat /\ g \in Nat
      BY CountsAreNumbers
    <3>2. i \in Nat /\ k \in Nat
      <4>1. PageOf(order, page) \in Seq(Docs)
        BY PageEntries, MatchingFinite, SeqGrows DEF WalkInv
      <4> QED BY <4>1, ListedConcat, PageEntries DEF WalkInv
    <3>3. m \in Nat /\ p <= m
      <4> DEFINE A == {d \in present : created[d] = t}
                 B == {d \in Matching(wanted) : created[d] = t}
      <4>1. A \subseteq B /\ IsFiniteSet(B)
        BY <2>2, <2>3, MatchingFinite, FS_Subset DEF SkipInv
      <4> HIDE DEF A, B
      <4>2. Cardinality(A) <= Cardinality(B) /\ Cardinality(B) \in Nat
        BY <4>1, FS_Subset, FS_CardinalityType
      <4> QED BY <4>2 DEF A, B, CreatedAt
    <3>4. x + g >= k => x + i >= m \/ (full /\ x + i + g >= k + PageSize)
      BY <3>1, PageFills DEF WalkInv
    <3>5. x >= p \/ x + g >= k
      BY <2>3 DEF ReadSoFar, AllShownOrBehind
    <3>6. /\ ListedAt(shown, t)' = x /\ ListedAt(items, t)' = i /\ NewerThan(Matching(wanted), t)' = g
          /\ CreatedAt(present, t)' = p /\ (Len(items)' = PageSize <=> full) /\ Skip(page)' = k
      BY <2>1, <2>2 DEF ListedAt, NewerThan, CreatedAt, Skip
    <3> HIDE DEF x, i, g, p, m, full, k
    <3>7. x + i >= p \/ (full /\ (x + i >= p \/ x + i + g >= k + PageSize))
      BY <3>1, <3>2, <3>3, <3>4, <3>5
    <3> QED BY <3>6, <3>7 DEF WithThePage, AllShownOrBehind
  <2>4. ASSUME NEW t, ReadSoFar(t) PROVE ReadSoFar(t)'
    BY <2>2, <2>4 DEF ReadSoFar, AllShownOrBehind, ListedAt, NewerThan, CreatedAt, Skip
  <2> QED BY <2>2, <2>3, <2>4 DEF SkipInv
<1>5. CASE CountDocuments
  <2>1. /\ UNCHANGED <<docs, created, wanted, walk, page, items, rule, shown, present>>
        /\ Matching(wanted)' = Matching(wanted)
    BY <1>5 DEF CountDocuments, clockVars, Matching, Status
  <2> QED BY <2>1, SkipKept
<1>6. CASE Answer
  <2>1. /\ UNCHANGED <<docs, created, wanted, rule, present>>
        /\ Matching(wanted)' = Matching(wanted)
        /\ items # Null /\ items' = Null /\ shown' = shown \o items /\ walk = "reading"
    BY <1>6 DEF Answer, clockVars, Matching, Status, WalkInv
  <2>2. shown \in Seq(Docs) /\ items \in Seq(Docs)
    <3>1. Stored \subseteq Docs
      BY DEF Stored
    <3> QED BY <2>1, <3>1, SeqGrows DEF WalkInv
  <2>3. ASSUME NEW t \in Nat \ {0}, wanted \in Lasting, WithThePage(t)
        PROVE  /\ walk' = "reading" => ReadSoFar(t)'
               /\ walk' = "after" => EndsWell(t)'
    <3> DEFINE n == ListedAt(shown, t) + ListedAt(items, t)
               g == NewerThan(Matching(wanted), t)
               p == CreatedAt(present, t)
               k == Skip(page)
    <3>1. n \in Nat /\ p \in Nat /\ g \in Nat
      BY <2>1, CountsAreNumbers
    <3>2. ListedAt(shown, t)' = n
      <4>1. ListedAt(shown \o items, t) = n
        BY <2>2, ListedConcat
      <4> QED BY <2>1, <4>1 DEF ListedAt
    <3>3. NewerThan(Matching(wanted), t)' = g /\ CreatedAt(present, t)' = p
      BY <2>1 DEF NewerThan, CreatedAt
    <3>4. n >= p \/ (Len(items) = PageSize /\ (n >= p \/ n + g >= k + PageSize))
      BY <2>3 DEF WithThePage, AllShownOrBehind
    <3>5. ASSUME walk' = "reading" PROVE Skip(page)' = k + PageSize
      <4>1. page' = page + 1
        BY <1>6, <3>5 DEF Answer
      <4> QED BY <4>1, ListingAssumption DEF Skip, WalkInv
    <3>6. ASSUME walk' = "after"
          PROVE  /\ rule' = "total_pages" \/ Len(items) # PageSize
                 /\ page' * PageSize = k + PageSize
      <4>1. page' = page /\ rule' = rule /\ rule \in {"total_pages", "short_page"}
        BY <1>6, <2>1, <3>6 DEF Answer, WalkInv
      <4>2. rule = "short_page" => Len(items) # PageSize
        BY <1>6, <2>1, <3>6 DEF Answer, GoesOn
      <4>3. page * PageSize = k + PageSize
        BY ListingAssumption DEF Skip, WalkInv
      <4> QED BY <4>1, <4>2, <4>3
    <3> HIDE DEF n, g, p, k
    <3> QED BY <3>1, <3>2, <3>3, <3>4, <3>5, <3>6 DEF ReadSoFar, EndsWell, AllShown, AllShownOrBehind
  <2>4. present \subseteq Matching(wanted) => present' \subseteq Matching(wanted)'
    BY <2>1
  <2> QED BY <2>1, <2>3, <2>4 DEF SkipInv
<1>7. CASE UNCHANGED vars
  <2>1. Matching(wanted)' = Matching(wanted)
    BY <1>7 DEF vars, walkVars, Matching, Status
  <2> QED BY <1>7, <2>1, SkipKept DEF vars, clockVars, walkVars
<1> QED BY <1>1, <1>2, <1>3, <1>4, <1>5, <1>6, <1>7 DEF Next
-----------------------------------------------------------------------------
(* The third part: without writes, a walk is exact. *)

(* The pages announced are as many as it takes. *)
LEMMA PagesCover ==
  ASSUME NEW n \in Nat, NEW p \in Nat \ {0}
  PROVE  p < TotalPages(n) <=> Skip(p) + PageSize < n
<1> DEFINE q == TotalPages(n)
<1>1. PageSize \in Nat \ {0} /\ n + PageSize - 1 \in Nat
  BY ListingAssumption
<1>2. q \in Nat /\ q * PageSize <= n + PageSize - 1 /\ n + PageSize - 1 < q * PageSize + PageSize
  BY <1>1, Z3 DEF TotalPages
<1>3. Skip(p) + PageSize = p * PageSize /\ p * PageSize \in Nat
  BY <1>1 DEF Skip
<1> HIDE DEF q
<1>4. p < q => p * PageSize + PageSize <= q * PageSize
  BY <1>1, <1>2
<1>5. q <= p => q * PageSize <= p * PageSize
  BY <1>1, <1>2
<1>6. q * PageSize \in Nat
  BY <1>1, <1>2
<1> QED BY <1>1, <1>2, <1>3, <1>4, <1>5, <1>6 DEF q

(* What the queries may return depends on the collection, its times and the filter. *)
LEMMA SameOrders ==
  ASSUME UNCHANGED <<docs, wanted>>, \A d \in Stored : created'[d] = created[d]
  PROVE  Matching(wanted)' = Matching(wanted) /\ NewestFirst' = NewestFirst
<1>1. Matching(wanted)' = Matching(wanted) /\ Matching(wanted) \subseteq Stored
  BY DEF Matching, Status, Stored
<1>2. IsFiniteSet(Matching(wanted))
  BY MatchingFinite
<1>3. \A order \in SetToSeqs(Matching(wanted)) :
        order \in [1..Cardinality(Matching(wanted)) -> Matching(wanted)]
  BY <1>2, PositionsCount
<1>4. \A order \in SetToSeqs(Matching(wanted)) : \A i \in DOMAIN order :
        created'[order[i]] = created[order[i]]
  BY <1>1, <1>3
<1> QED BY <1>1, <1>4 DEF NewestFirst

LEMMA QuietKept ==
  ASSUME WalkInv, QuietInv, UNCHANGED <<docs, wanted, walk, page, shown, quiet>>,
         \A d \in Stored : created'[d] = created[d],
         items' # Null => items' = items \/ \E order \in NewestFirst : items' = PageOf(order, page),
         total' # Null => total' = total \/ total' = Cardinality(Matching(wanted))
  PROVE  QuietInv'
<1>1. Matching(wanted)' = Matching(wanted) /\ NewestFirst' = NewestFirst
  BY SameOrders
<1>2. Skip(page)' = Skip(page) /\ \A order \in NewestFirst : PageOf(order, page)' = PageOf(order, page)
  BY DEF Skip, PageOf
<1>3. ASSUME NEW order \in NewestFirst
      PROVE  /\ order \in [1..Cardinality(Matching(wanted)) -> Stored]
             /\ TimesOf(order)' = TimesOf(order)
  <2>1. order \in [1..Cardinality(Matching(wanted)) -> Matching(wanted)]
    BY MatchingFinite, PositionsCount DEF NewestFirst
  <2>2. Matching(wanted) \subseteq Stored
    BY DEF Matching, Stored
  <2>3. order \in [1..Cardinality(Matching(wanted)) -> Stored]
    BY <2>1, <2>2
  <2>4. \A i \in DOMAIN order : created'[order[i]] = created[order[i]]
    BY <2>3
  <2> QED BY <2>3, <2>4 DEF TimesOf
<1>4. \A i \in DOMAIN shown : shown[i] \in Stored
  BY DEF WalkInv
<1>5. TimesOf(shown)' = TimesOf(shown)
  BY <1>4 DEF TimesOf
<1>6. ASSUME quiet, walk = "reading"
      PROVE  /\ Len(shown)' = Skip(page)' /\ Skip(page)' <= Cardinality(Matching(wanted))'
             /\ \A order \in NewestFirst' : \A i \in DOMAIN shown' :
                  created'[shown'[i]] = created'[order[i]]
             /\ total' # Null => total' = Cardinality(Matching(wanted))'
  <2>1. /\ Len(shown) = Skip(page) /\ Skip(page) <= Cardinality(Matching(wanted))
        /\ \A order \in NewestFirst : \A i \in DOMAIN shown : created[shown[i]] = created[order[i]]
        /\ total # Null => total = Cardinality(Matching(wanted))
    BY <1>6 DEF QuietInv
  <2>2. Len(shown) \in Nat /\ DOMAIN shown = 1..Len(shown) /\ Cardinality(Matching(wanted)) \in Nat
    BY MatchingFinite, FS_CardinalityType, LenProperties DEF WalkInv
  <2>3. \A order \in NewestFirst : \A i \in DOMAIN shown : order[i] \in Stored
    <3>1. DOMAIN shown \subseteq 1..Cardinality(Matching(wanted))
      BY <2>1, <2>2
    <3> QED BY <3>1, <1>3
  <2>4. \A order \in NewestFirst : \A i \in DOMAIN shown :
          created'[shown[i]] = created'[order[i]]
    BY <2>1, <2>3, <1>4
  <2> QED BY <1>1, <1>2, <2>1, <2>4
<1>7. ASSUME quiet, items' # Null
      PROVE  \E order \in NewestFirst' : items' = PageOf(order, page)'
  BY <1>1, <1>2, <1>7 DEF QuietInv
<1>8. ASSUME quiet PROVE QuietWalkIsExact'
  BY <1>1, <1>3, <1>5, <1>8 DEF QuietInv, QuietWalkIsExact
<1> QED BY <1>6, <1>7, <1>8 DEF QuietInv

LEMMA QuietInit == Init => QuietInv
BY DEF Init, QuietInv

(* The answer of a quiet walk: the next piece of the order, or the rest of it. *)
LEMMA QuietAnswer ==
  ASSUME WalkInv, QuietInv, quiet, Answer
  PROVE  QuietInv'
<1> DEFINE n == Cardinality(Matching(wanted))
           k == Skip(page)
<1>1. /\ UNCHANGED <<docs, created, wanted, rule, quiet>>
      /\ items # Null /\ total # Null /\ walk = "reading"
      /\ items' = Null /\ total' = Null /\ shown' = shown \o items
  BY DEF Answer, WalkInv, clockVars
<1>2. Matching(wanted)' = Matching(wanted) /\ NewestFirst' = NewestFirst
  BY <1>1, SameOrders
<1>3. /\ Len(shown) = k /\ k <= n /\ total = n
      /\ \A o \in NewestFirst : \A i \in DOMAIN shown : created[shown[i]] = created[o[i]]
  BY <1>1 DEF QuietInv
<1>4. PICK order \in NewestFirst : items = PageOf(order, page)
  BY <1>1 DEF QuietInv
<1>5. /\ k \in Nat /\ n \in Nat /\ PageSize \in Nat \ {0} /\ page \in Nat \ {0}
      /\ Skip(page + 1) = k + PageSize
      /\ Len(items) = IF k + PageSize <= n THEN PageSize ELSE n - k
      /\ \A i \in 1..Len(items) : items[i] = order[k + i]
  BY <1>3, <1>4, PageEntries, TimesStandTogether, ListingAssumption DEF WalkInv
<1>6. shown \in Seq(Stored) /\ items \in Seq(Stored)
  BY <1>1 DEF WalkInv
<1>7. page < TotalPages(total) <=> k + PageSize < n
  BY <1>3, <1>5, PagesCover
<1> HIDE DEF n, k
<1>8. /\ Len(items) \in Nat /\ k + Len(items) <= n
      /\ shown' \in Seq(Stored) /\ Len(shown') = k + Len(items)
      /\ DOMAIN shown' = 1..(k + Len(items)) /\ DOMAIN shown = 1..k
      /\ \A i \in 1..(k + Len(items)) : shown'[i] = IF i <= k THEN shown[i] ELSE items[i - k]
  <2>1. Len(items) \in Nat /\ k + Len(items) <= n
    BY <1>3, <1>5
  <2>2. /\ shown' \in Seq(Stored) /\ Len(shown') = k + Len(items)
        /\ \A i \in 1..(k + Len(items)) : shown'[i] = IF i <= k THEN shown[i] ELSE items[i - k]
    BY <1>1, <1>3, <1>6, ConcatProperties
  <2>3. DOMAIN shown' = 1..Len(shown') /\ DOMAIN shown = 1..Len(shown)
    BY <1>6, <2>2, LenProperties
  <2> QED BY <1>3, <2>1, <2>2, <2>3
<1>9. ASSUME NEW o \in NewestFirst, NEW i \in 1..(k + Len(items))
      PROVE  created[shown'[i]] = created[o[i]]
  <2>1. CASE i <= k
    <3>1. i \in DOMAIN shown /\ shown'[i] = shown[i]
      BY <1>5, <1>8, <2>1
    <3> QED BY <1>3, <3>1
  <2>2. CASE i > k
    <3>1. i - k \in 1..Len(items) /\ k + (i - k) = i /\ i \in 1..n
      BY <1>5, <1>8, <2>2
    <3>2. shown'[i] = order[i]
      BY <1>5, <1>8, <2>2, <3>1
    <3>3. created[order[i]] = created[o[i]]
      BY <3>1, OrdersAgree DEF WalkInv, n
    <3> QED BY <3>2, <3>3
  <2> QED BY <1>5, <2>1, <2>2
<1>10. GoesOn => Len(items) = PageSize
  BY <1>3, <1>5, <1>7 DEF GoesOn
<1>11. ~GoesOn => k + Len(items) = n
  BY <1>3, <1>5, <1>7 DEF GoesOn, WalkInv
<1>12. CASE GoesOn
  <2>1. walk' = "reading" /\ page' = page + 1
    BY <1>1, <1>12 DEF Answer
  <2>2. Len(shown') = Skip(page') /\ Skip(page)' <= n
    BY <1>5, <1>8, <1>10, <1>12, <2>1 DEF Skip
  <2> QED BY <1>1, <1>2, <1>8, <1>9, <2>1, <2>2 DEF QuietInv, QuietWalkIsExact, n, Skip
<1>13. CASE ~GoesOn
  <2>1. walk' = "after"
    BY <1>13 DEF Answer
  <2>2. order \in [1..n -> Matching(wanted)] /\ DOMAIN shown' = 1..n
    BY <1>8, <1>11, <1>13, TimesStandTogether, 0 \in Nat DEF WalkInv, n
  <2>3. TimesOf(shown)' = TimesOf(order)'
    <3>1. \A i \in 1..n : created'[shown'[i]] = created'[order[i]]
      BY <1>1, <1>8, <1>9, <1>11, <1>13
    <3> QED BY <2>2, <3>1 DEF TimesOf
  <2>4. \E o \in NewestFirst' : TimesOf(shown)' = TimesOf(o)'
    BY <1>2, <2>3
  <2> QED BY <1>1, <2>1, <2>4 DEF QuietInv, QuietWalkIsExact
<1> QED BY <1>12, <1>13

LEMMA QuietStep == WalkInv /\ QuietInv /\ [Next]_vars => QuietInv'
<1> SUFFICES ASSUME WalkInv, QuietInv, [Next]_vars PROVE QuietInv'
  OBVIOUS
<1>1. ASSUME NEW d \in Docs, ReadClock(d) PROVE QuietInv'
  <2>1. d \notin Stored /\ \A e \in Stored : created'[e] = created[e]
    BY <1>1 DEF ReadClock, WalkInv, Stored
  <2> QED BY <1>1, <2>1, QuietKept DEF ReadClock, walkVars
<1>2. ASSUME NEW d \in Docs, Write(d) PROVE QuietInv'
  BY <1>2 DEF Write, QuietInv
<1>3. CASE StartWalk
  <2>1. /\ walk' = "reading" /\ items' = Null /\ total' = Null /\ shown' = <<>> /\ page' = 1
    BY <1>3 DEF StartWalk, WalkInv
  <2>2. Skip(page)' = 0 /\ Len(shown)' = 0 /\ DOMAIN shown' = {}
    BY <2>1, ListingAssumption DEF Skip
  <2>3. Cardinality(Matching(wanted)') \in Nat
    <3>1. Matching(wanted)' \subseteq Docs
      BY DEF Matching
    <3> QED BY <3>1, EnvironmentAssumption, FS_Subset, FS_CardinalityType
  <2> QED BY <2>1, <2>2, <2>3 DEF QuietInv, QuietWalkIsExact
<1>4. CASE FetchPage
  BY <1>4, QuietKept DEF FetchPage, clockVars
<1>5. CASE CountDocuments
  BY <1>5, QuietKept DEF CountDocuments, clockVars
<1>6. CASE Answer
  <2>1. quiet' = quiet
    BY <1>6 DEF Answer
  <2>2. CASE quiet
    BY <1>6, <2>2, QuietAnswer
  <2>3. CASE ~quiet
    BY <2>1, <2>3 DEF QuietInv
  <2> QED BY <2>2, <2>3
<1>7. CASE UNCHANGED vars
  BY <1>7, QuietKept DEF vars, clockVars, walkVars
<1> QED BY <1>1, <1>2, <1>3, <1>4, <1>5, <1>6, <1>7 DEF Next
-----------------------------------------------------------------------------
LEMMA InvariantHolds == Spec => []IInv
<1>1. Init => IInv
  BY WalkInit, SkipInit, QuietInit DEF IInv
<1>2. IInv /\ [Next]_vars => IInv'
  BY WalkStep, SkipStep, QuietStep DEF IInv
<1> QED BY <1>1, <1>2, PTL DEF Spec

(* Whatever is inserted and updated while a client walks the pages, without a  *)
(* filter or with one on a terminal status: one that reads until a page is not *)
(* full is shown as many documents of every time as were there when it began,  *)
(* and what one that trusts total_pages has missed stands behind its pages.    *)
(* For any number of documents and any page size.                              *)
THEOREM WalkSkipsNothing == Spec => []NothingSkipped
<1>1. IInv => NothingSkipped
  <2> SUFFICES ASSUME IInv, walk = "after", wanted \in Lasting, NEW t \in 1..now
               PROVE  \/ ListedAt(shown, t) >= CreatedAt(present, t)
                      \/ /\ rule = "total_pages"
                         /\ ListedAt(shown, t) + NewerThan(Matching(wanted), t) >= page * PageSize
    BY DEF NothingSkipped, ListedAt, CreatedAt, NewerThan, Lasting
  <2>1. t \in Nat \ {0}
    BY DEF IInv, WalkInv
  <2> QED BY <2>1 DEF IInv, SkipInv, EndsWell, AllShown, AllShownOrBehind
<1> QED BY <1>1, InvariantHolds, PTL

(* A walk during which nothing is written shows what one of the orders the     *)
(* database may return would have shown in one piece, time by time, whichever  *)
(* of the two rules ends it: skip, limit and total_pages fit together for      *)
(* every page size and every number of documents, at the last page too.        *)
THEOREM QuietWalkShowsTheList == Spec => []QuietWalkIsExact
<1>1. IInv => QuietWalkIsExact
  BY DEF IInv, QuietInv, QuietWalkIsExact
<1> QED BY <1>1, InvariantHolds, PTL
=============================================================================
