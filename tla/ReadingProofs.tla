-------------------------- MODULE ReadingProofs ---------------------------
(***************************************************************************)
(* Proofs about the readers that read a community while it grows: the read *)
(* without an account, the ingest with an API token, and the read as a     *)
(* member.  Whatever arrives meanwhile, none moves its mark past what it   *)
(* has not stored, for any spaces, rooms, cookies, page sizes and limits.  *)
(***************************************************************************)
EXTENDS PublicRead, OfficialIngest, MemberScan, ListLemmas

-----------------------------------------------------------------------------
(* The read without an account.                                            *)

\* An empty list has no length.
LEMMA Nothing == ASSUME NEW t, t = <<>> PROVE Len(t) = 0
OBVIOUS

\* A list without repetitions does not have its first member again.
LEMMA TheOthers ==
    ASSUME NEW S, NEW q \in Seq(S), q # <<>>
    PROVE  Tail(q) \in Seq(S) /\ (Len(q) > 1 => Tail(q) # <<>>)
<1>1. Tail(q) \in Seq(S) /\ Len(Tail(q)) = Len(q) - 1 /\ Len(q) \in Nat
  OBVIOUS
<1>2. ASSUME Tail(q) = <<>> PROVE ~(Len(q) > 1)
  <2>1. Len(Tail(q)) = 0
    BY <1>2, Nothing, Zenon
  <2> DEFINE n == Len(Tail(q))
             k == Len(q)
  <2>2. n = 0 /\ n = k - 1 /\ k \in Nat
    BY <1>1, <2>1
  <2> HIDE DEF n, k
  <2>3. ~(k > 1)
    BY <2>2
  <2> QED
    BY <2>3 DEF k
<1> QED
  BY <1>1, <1>2

-----------------------------------------------------------------------------
\* Times of posts.
Instants == Nat \ {0}

\* Newest first, and nothing from the future.
Falling(q, last) ==
    /\ \A i, j \in DOMAIN q : i < j => q[i] > q[j]
    /\ \A t \in ToSet(q) : t <= last

\* The part of the types the proof needs; each space is listed newest first.
PublicTyped ==
    /\ instant \in Instants /\ feed \in [PublicSpaces -> Seq(Instants)]
    /\ \A s \in PublicSpaces : Falling(feed[s], instant)
    /\ synced \in Nat /\ since \in Nat /\ pages \in Nat \ {0} /\ page \in Nat \ {0}
    /\ targets \in Seq(PublicSpaces) /\ publicSpaces \in Nat /\ open \subseteq PublicSpaces
    /\ reading \in {"rest", "space", "triage", "stamp"} /\ clean \in BOOLEAN
    /\ reading = "space" => targets # <<>>
    /\ wanted = {w \in wanted : w \in PublicSpaces \X Instants}

\* While nothing goes wrong, what is to be brought in stays where it can be read.
Stands ==
    clean /\ reading # "rest" =>
      \A w \in wanted : w[1] \in open /\ w[2] > since /\ w[2] \in ToSet(feed[w[1]])

\* Post w is still before the reader: in a space to come, or deeper in this one
\* than the pages read.
Ahead(w) ==
    /\ targets # <<>>
    /\ \/ w[1] \in ToSet(Tail(targets))
       \/ /\ w[1] = Head(targets)
          /\ \A i \in DOMAIN feed[w[1]] :
               feed[w[1]][i] = w[2] => i > (page - 1) * PerPage

\* A read with no trouble, of spaces its pages are deep enough for.
Whole == clean /\ DeepEnough

\* What a read was to bring in is stored, or still before the reader; from the
\* end of the reading on it is stored, and after the triage it is filed.
NothingSkipped ==
    /\ reading = "space" /\ Whole => \A w \in wanted : w \in records \/ Ahead(w)
    /\ reading = "space" /\ clean =>
         \A w \in wanted : publicSpaces > 0 \/ (targets # <<>> /\ w[1] \in ToSet(targets))
    /\ reading = "triage" /\ Whole => wanted \subseteq records
    /\ reading = "stamp" /\ Whole => wanted \subseteq filed

\* The inductive invariant.
PublicInv == PublicTyped /\ Stands /\ NothingSkipped

\* At first nothing is read and nothing is wanted.
LEMMA PublicStart == PublicInit => PublicInv
<1> SUFFICES ASSUME PublicInit PROVE PublicInv
  OBVIOUS
<1>1. PublicTyped
  BY PublicReadAssumption DEF PublicInit, PublicTyped, Falling, Instants, ToSet
<1>2. Stands /\ NothingSkipped
  BY DEF PublicInit, Stands, NothingSkipped
<1> QED
  BY <1>1, <1>2 DEF PublicInv

\* A step under which nothing is wanted that was not, and that leaves the
\* reader where it is.
ReaderStays == UNCHANGED <<readVars, wanted, synced, filed, open>>

\* With a newer post on top the list is still newest first.
LEMMA OnTopFalls ==
    ASSUME NEW q \in Seq(Instants), NEW last \in Instants, Falling(q, last), last \notin ToSet(q),
           NEW p, p = <<last>> \o q
    PROVE  ToSet(q) \subseteq ToSet(p) /\ Falling(p, last)
<1>1. /\ p \in Seq(Instants) /\ Len(p) = Len(q) + 1 /\ p[1] = last
      /\ \A i \in DOMAIN q : i + 1 \in DOMAIN p /\ p[i + 1] = q[i]
      /\ \A i \in DOMAIN p : i # 1 => i - 1 \in DOMAIN q /\ p[i] = q[i - 1]
  BY OnTop
<1>2. \A t \in ToSet(q) : t <= last /\ t \in Nat
  BY DEF Falling, ToSet, Instants
<1>3. \A i \in DOMAIN q : q[i] < last
  <2>1. SUFFICES ASSUME NEW i \in DOMAIN q PROVE q[i] < last
    OBVIOUS
  <2>2. q[i] \in ToSet(q)
    BY DEF ToSet
  <2>3. q[i] \in Nat /\ last \in Nat
    BY <1>2, <2>2 DEF Instants
  <2> QED
    BY <1>2, <2>2, <2>3
<1>4. DOMAIN p \subseteq Nat \ {0} /\ DOMAIN q \subseteq Nat
  BY <1>1
<1>5. ASSUME NEW i \in DOMAIN p, NEW j \in DOMAIN p, i < j PROVE p[i] > p[j]
  <2>1. j # 1 /\ j - 1 \in DOMAIN q /\ p[j] = q[j - 1]
    BY <1>1, <1>4, <1>5
  <2>2. CASE i = 1
    BY <1>1, <1>3, <2>1, <2>2
  <2>3. CASE i # 1
    <3>1. i - 1 \in DOMAIN q /\ p[i] = q[i - 1] /\ i - 1 < j - 1
      BY <1>1, <1>4, <1>5, <2>1, <2>3
    <3> QED
      BY <2>1, <3>1 DEF Falling
  <2> QED
    BY <2>2, <2>3
<1>6. ASSUME NEW t \in ToSet(p) PROVE t <= last
  <2>1. PICK i \in DOMAIN p : p[i] = t
    BY DEF ToSet
  <2>2. CASE i = 1
    BY <1>1, <2>1, <2>2 DEF Instants
  <2>3. CASE i # 1
    <3>1. i - 1 \in DOMAIN q /\ q[i - 1] = t
      BY <1>1, <2>1, <2>3
    <3> QED
      BY <1>2, <3>1 DEF ToSet
  <2> QED
    BY <2>2, <2>3
<1>7. ASSUME NEW t \in ToSet(q) PROVE t \in ToSet(p)
  <2>1. PICK i \in DOMAIN q : q[i] = t
    BY DEF ToSet
  <2>2. i + 1 \in DOMAIN p /\ p[i + 1] = t
    BY <1>1, <2>1
  <2> QED
    BY <2>2 DEF ToSet
<1> QED
  BY <1>1, <1>4, <1>5, <1>6, <1>7 DEF Falling

\* A post that arrives moves the others down, never above the pages read.
LEMMA PublishedKeeps ==
    ASSUME PublicInv, NEW s \in PublicSpaces, PostPublished(s) PROVE PublicInv'
<1> DEFINE q == feed[s]
           p == <<instant>> \o q
<1>1. q \in Seq(Instants) /\ instant \in Instants /\ Falling(q, instant) /\ instant \notin ToSet(q)
  BY DEF PublicInv, PublicTyped, PostPublished
<1>5. p = <<instant>> \o q
  OBVIOUS
<1>3. feed' = [feed EXCEPT ![s] = p]
  BY DEF PostPublished
<1>4. ReaderStays /\ UNCHANGED <<instant, clean, page, pages, since, targets, reading>>
  BY DEF ReaderStays, PostPublished, readVars
<1> HIDE DEF q, p
<1>2. /\ p \in Seq(Instants) /\ Len(p) = Len(q) + 1 /\ p[1] = instant
      /\ \A i \in DOMAIN q : i + 1 \in DOMAIN p /\ p[i + 1] = q[i]
      /\ \A i \in DOMAIN p : i # 1 => i - 1 \in DOMAIN q /\ p[i] = q[i - 1]
      /\ DOMAIN p \subseteq Nat \ {0} /\ DOMAIN q \subseteq Nat
      /\ ToSet(q) \subseteq ToSet(p) /\ Falling(p, instant)
  <2>1. ToSet(q) \subseteq ToSet(p) /\ Falling(p, instant)
    BY <1>1, <1>5, OnTopFalls
  <2>2. /\ p \in Seq(Instants) /\ Len(p) = Len(q) + 1 /\ p[1] = instant
        /\ DOMAIN p \subseteq Nat \ {0} /\ DOMAIN q \subseteq Nat
        /\ \A i \in DOMAIN q : i + 1 \in DOMAIN p /\ p[i + 1] = q[i]
        /\ \A i \in DOMAIN p : i # 1 => i - 1 \in DOMAIN q /\ p[i] = q[i - 1]
    BY <1>1, <1>5, OnTop
  <2> QED
    BY <2>1, <2>2
<1>7. DOMAIN p \subseteq Nat \ {0} /\ DOMAIN q \subseteq Nat
  BY <1>2
<1>8. Falling(p, instant)
  BY <1>2
<1>9. feed \in [PublicSpaces -> Seq(Instants)]
  BY DEF PublicInv, PublicTyped
<1>10. /\ feed'[s] = p /\ feed[s] = q
       /\ \A r \in PublicSpaces \ {s} : feed'[r] = feed[r]
  BY <1>3, <1>9 DEF q
<1>11. PublicTyped'
  <2>1. feed' \in [PublicSpaces -> Seq(Instants)]
    BY <1>2, <1>3, <1>9
  <2>2. \A r \in PublicSpaces : Falling(feed'[r], instant')
    BY <1>4, <1>8, <1>10 DEF PublicInv, PublicTyped, Falling
  <2> QED
    BY <1>4, <2>1, <2>2 DEF PublicInv, PublicTyped, ReaderStays, readVars
<1>12. \A r \in PublicSpaces : /\ ToSet(feed[r]) \subseteq ToSet(feed'[r])
                               /\ Len(feed[r]) \in Nat /\ Len(feed[r]) <= Len(feed'[r])
                               /\ Len(feed'[r]) \in Nat
  <2>1. SUFFICES ASSUME NEW r \in PublicSpaces
                 PROVE  /\ ToSet(feed[r]) \subseteq ToSet(feed'[r])
                        /\ Len(feed[r]) \in Nat /\ Len(feed[r]) <= Len(feed'[r])
                        /\ Len(feed'[r]) \in Nat
    OBVIOUS
  <2>2. CASE r # s
    BY <1>9, <1>10, <2>2
  <2>3. CASE r = s
    <3>1. ToSet(q) \subseteq ToSet(p)
      BY <1>2
    <3>2. Len(q) \in Nat /\ Len(p) \in Nat /\ Len(q) <= Len(p)
      BY <1>1, <1>2
    <3> QED
      BY <1>10, <2>3, <3>1, <3>2
  <2> QED
    BY <2>2, <2>3
<1>13. Stands'
  BY <1>4, <1>12 DEF PublicInv, PublicTyped, Stands, ReaderStays, readVars
<1>14. DeepEnough' => DeepEnough
  <2>1. SUFFICES ASSUME DeepEnough', NEW r \in PublicSpaces PROVE Len(feed[r]) <= pages * PerPage
    BY DEF DeepEnough
  <2>2. Len(feed'[r]) <= pages * PerPage
    BY <1>4, <2>1 DEF DeepEnough
  <2> DEFINE n == pages * PerPage
  <2>3. n \in Nat
    BY PublicReadAssumption DEF PublicInv, PublicTyped
  <2> HIDE DEF n
  <2>4. Len(feed'[r]) <= n
    BY <2>2 DEF n
  <2>5. Len(feed[r]) <= n
    BY <1>12, <2>3, <2>4
  <2> QED
    BY <2>5 DEF n
<1>15. clean /\ reading # "rest" => \A w \in wanted : Ahead(w) => Ahead(w)'
  <2>1. SUFFICES ASSUME clean, reading # "rest", NEW w \in wanted, Ahead(w),
                        NEW i \in DOMAIN feed'[w[1]], feed'[w[1]][i] = w[2],
                        \A k \in DOMAIN feed[w[1]] :
                           feed[w[1]][k] = w[2] => k > (page - 1) * PerPage
                 PROVE  i > (page - 1) * PerPage
    BY <1>4 DEF Ahead
  <2>2. w[2] \in ToSet(feed[w[1]])
    BY <2>1 DEF PublicInv, Stands
  <2> DEFINE b == (page - 1) * PerPage
  <2>3. b \in Nat
    BY PublicReadAssumption DEF PublicInv, PublicTyped
  <2>4. w[1] \in PublicSpaces
    BY DEF PublicInv, PublicTyped
  <2> HIDE DEF b
  <2>5. CASE w[1] # s
    BY <1>10, <2>1, <2>4, <2>5
  <2>6. CASE w[1] = s
    <3>1. w[2] # instant
      BY <1>1, <2>2, <2>6 DEF q
    <3>2. i # 1 /\ i - 1 \in DOMAIN q /\ q[i - 1] = w[2]
      BY <1>2, <1>10, <2>1, <2>6, <3>1
    <3>3. i - 1 > b
      BY <1>10, <2>1, <2>6, <3>2 DEF b
    <3>4. i - 1 \in Nat
      BY <1>7, <3>2
    <3>5. i \in Nat
      BY <1>7, <1>10, <2>1, <2>6
    <3>6. i > b
      BY <2>3, <3>3, <3>4, <3>5
    <3> QED
      BY <3>6 DEF b
  <2> QED
    BY <2>5, <2>6
<1>16. NothingSkipped'
  BY <1>4, <1>14, <1>15 DEF PublicInv, NothingSkipped, Whole, ReaderStays, readVars
<1> QED
  BY <1>11, <1>13, <1>16 DEF PublicInv

\* A post taken away leaves the others in their order.
LEMMA RemovedKeepsOrder ==
    ASSUME NEW q \in Seq(Instants), NEW last, Falling(q, last), NEW k \in DOMAIN q
    PROVE  RemoveAt(q, k) \in Seq(Instants) /\ Falling(RemoveAt(q, k), last)
<1> DEFINE r == RemoveAt(q, k)
<1>1. /\ r \in Seq(Instants)
      /\ \A i \in DOMAIN r : PlaceBefore(k, i) \in DOMAIN q /\ r[i] = q[PlaceBefore(k, i)]
      /\ \A i, j \in DOMAIN r : i < j => PlaceBefore(k, i) < PlaceBefore(k, j)
  BY TakenOut
<1> HIDE DEF r
<1>2. \A i, j \in DOMAIN r : i < j => r[i] > r[j]
  <2>1. SUFFICES ASSUME NEW i \in DOMAIN r, NEW j \in DOMAIN r, i < j PROVE r[i] > r[j]
    OBVIOUS
  <2>2. /\ PlaceBefore(k, i) \in DOMAIN q /\ PlaceBefore(k, j) \in DOMAIN q
        /\ PlaceBefore(k, i) < PlaceBefore(k, j)
    BY <1>1, <2>1
  <2>3. q[PlaceBefore(k, i)] > q[PlaceBefore(k, j)]
    BY <2>2 DEF Falling
  <2> QED
    BY <1>1, <2>3
<1>3. \A t \in ToSet(r) : t \in ToSet(q)
  BY <1>1 DEF ToSet
<1>4. \A t \in ToSet(r) : t <= last
  BY <1>3 DEF Falling
<1>5. Falling(r, last)
  BY <1>2, <1>4 DEF Falling
<1> QED
  BY <1>1, <1>5 DEF r

\* A read that something went wrong under claims nothing.
LEMMA UpsetKeeps ==
    ASSUME PublicInv, PublicTyped', clean' = FALSE
    PROVE  PublicInv'
BY DEF PublicInv, Stands, NothingSkipped, Whole

\* A post taken away is such a trouble.
LEMMA RemovalKeeps ==
    ASSUME PublicInv, NEW s \in PublicSpaces, PostRemoved(s) PROVE PublicInv'
<1>1. PICK k \in DOMAIN feed[s] : feed' = [feed EXCEPT ![s] = RemoveAt(feed[s], k)]
  BY DEF PostRemoved
<1>2. feed[s] \in Seq(Instants) /\ Falling(feed[s], instant)
  BY DEF PublicInv, PublicTyped
<1>3. RemoveAt(feed[s], k) \in Seq(Instants) /\ Falling(RemoveAt(feed[s], k), instant)
  BY <1>2, RemovedKeepsOrder
<1>4. UNCHANGED <<instant, open, synced, readVars, wanted>> /\ clean' = FALSE
  BY DEF PostRemoved, Upset
<1>5. feed' \in [PublicSpaces -> Seq(Instants)]
  BY <1>1, <1>3 DEF PublicInv, PublicTyped
<1>6. \A r \in PublicSpaces : Falling(feed'[r], instant')
  BY <1>1, <1>3, <1>4 DEF PublicInv, PublicTyped
<1>7. PublicTyped'
  BY <1>4, <1>5, <1>6 DEF PublicInv, PublicTyped, readVars
<1> QED
  BY <1>4, <1>7, UpsetKeeps

\* So is a space that opens or closes.
LEMMA TurnKeeps ==
    ASSUME PublicInv, NEW s \in PublicSpaces, SpaceOpensOrCloses(s) PROVE PublicInv'
<1>1. UNCHANGED <<instant, feed, synced, readVars, wanted>> /\ clean' = FALSE
  BY DEF SpaceOpensOrCloses, Upset
<1>2. open' \subseteq PublicSpaces
  BY DEF SpaceOpensOrCloses, PublicInv, PublicTyped
<1>3. PublicTyped'
  BY <1>1, <1>2 DEF PublicInv, PublicTyped, readVars
<1> QED
  BY <1>1, <1>3, UpsetKeeps

\* Time passes.
LEMMA TickKeeps ==
    ASSUME PublicInv, ClockTicks PROVE PublicInv'
<1>1. UNCHANGED <<feed, open, synced, filed, readVars, wanted, clean>> /\ instant' = instant + 1
  BY DEF ClockTicks
<1>2. instant \in Nat /\ instant' \in Instants
  BY <1>1 DEF PublicInv, PublicTyped, Instants
<1>3. ASSUME NEW r \in PublicSpaces PROVE Falling(feed'[r], instant')
  <2>1. feed[r] \in Seq(Instants) /\ Falling(feed[r], instant) /\ feed'[r] = feed[r]
    BY <1>1 DEF PublicInv, PublicTyped
  <2>2. \A t \in ToSet(feed[r]) : t \in Nat
    BY <2>1 DEF ToSet, Instants
  <2> QED
    BY <1>1, <1>2, <2>1, <2>2 DEF Falling
<1>4. PublicTyped'
  BY <1>1, <1>2, <1>3 DEF PublicInv, PublicTyped, readVars
<1>5. Stands' /\ NothingSkipped'
  BY <1>1 DEF PublicInv, Stands, NothingSkipped, Whole, DeepEnough, Ahead, readVars
<1> QED
  BY <1>4, <1>5 DEF PublicInv

-----------------------------------------------------------------------------
\* What a read has to bring in is newer than its watermark.
LEMMA WantedIsNew ==
    ASSUME PublicTyped, NEW w \in Wanted
    PROVE  /\ w[1] \in open /\ w[2] \in ToSet(feed[w[1]]) /\ w[2] > Since
           /\ w \in PublicSpaces \X Instants
<1>1. PICK s \in open : w \in {s} \X ToSet(feed[s])
  BY DEF Wanted
<1>2. w[1] = s /\ w[2] \in ToSet(feed[s]) /\ w = <<w[1], w[2]>>
  BY <1>1
<1>3. s \in PublicSpaces /\ w[2] \in Instants
  BY <1>2 DEF PublicTyped, ToSet
<1> DEFINE t == w[2]
<1>4. t \in Nat /\ t > 0 /\ instant \in Nat /\ synced \in Nat
  BY <1>3 DEF Instants, PublicTyped
<1>5. /\ AgeCap = 0 \/ t + AgeCap > instant
      /\ synced # 0 => t > synced /\ t + Recency > instant
  BY DEF Wanted
<1>6. AgeCap \in Nat /\ Recency \in Nat
  BY PublicReadAssumption
<1> HIDE DEF t
<1>7. t > Since
  BY <1>4, <1>5, <1>6 DEF Since, Later, Back
<1> QED
  BY <1>1, <1>2, <1>3, <1>7 DEF t

\* A read begins with every space before it.
LEMMA BeginKeeps ==
    ASSUME PublicInv, ReadBegins PROVE PublicInv'
<1>1. /\ reading' = "space" /\ since' = Since /\ wanted' = Wanted /\ page' = 1 /\ clean' = TRUE
      /\ publicSpaces' = 0 /\ UNCHANGED <<instant, feed, open, synced, filed>>
      /\ targets' \in SetToSeqs(PublicSpaces) /\ pages' \in {FirstPages, LaterPages}
  BY DEF ReadBegins, siteVars
<1>2. targets' \in Seq(PublicSpaces) /\ \A x \in PublicSpaces : x \in ToSet(targets')
  BY <1>1, PublicReadAssumption, OrdersList
<1>10. targets' # <<>>
  BY <1>2, PublicReadAssumption DEF ToSet
<1>3. Since \in Nat
  BY PublicReadAssumption DEF Since, Later, Back, PublicInv, PublicTyped, Instants
<1>4. \A w \in Wanted : /\ w[1] \in open /\ w[2] \in ToSet(feed[w[1]]) /\ w[2] > Since
                        /\ w \in PublicSpaces \X Instants
  BY WantedIsNew DEF PublicInv
<1>5. PublicTyped'
  BY <1>1, <1>2, <1>3, <1>4, <1>10, PublicReadAssumption DEF PublicInv, PublicTyped
<1>6. Stands'
  BY <1>1, <1>4 DEF Stands
<1>7. ASSUME NEW w \in Wanted PROVE targets' # <<>> /\ w[1] \in ToSet(targets')
  <2>1. w[1] \in ToSet(targets')
    BY <1>2, <1>4
  <2> QED
    BY <2>1 DEF ToSet
<1>8. ASSUME NEW w \in Wanted PROVE Ahead(w)'
  <2>1. w[1] = Head(targets') \/ w[1] \in ToSet(Tail(targets'))
    BY <1>2, <1>7, TakingTheFirst
  <2>2. feed[w[1]] \in Seq(Instants)
    BY <1>4 DEF PublicInv, PublicTyped
  <2>3. (page' - 1) * PerPage = 0
    BY <1>1, PublicReadAssumption
  <2>4. \A i \in DOMAIN feed'[w[1]] : i > (page' - 1) * PerPage
    BY <1>1, <2>2, <2>3
  <2> QED
    BY <1>7, <2>1, <2>4 DEF Ahead
<1>9. NothingSkipped'
  BY <1>1, <1>7, <1>8 DEF NothingSkipped
<1> QED
  BY <1>5, <1>6, <1>9 DEF PublicInv

\* Leaving the first space once what is wanted of it was read.
LEMMA SpaceLeft ==
    ASSUME PublicInv, reading = "space", NEW n \in {0, 1}, NextSpace(n),
           UNCHANGED <<siteVars, synced, filed, since, pages, wanted, clean>>,
           clean => \A w \in wanted : targets # <<>> /\ w[1] = Head(targets) => n = 1,
           Whole => \A w \in wanted : \/ w \in records'
                                      \/ targets # <<>> /\ w[1] \in ToSet(Tail(targets))
    PROVE  PublicInv'
<1>1. /\ targets' = Tail(targets) /\ page' = 1 /\ publicSpaces' = publicSpaces + n
      /\ reading' = (IF Len(targets) > 1 THEN "space"
                     ELSE IF publicSpaces + n > 0 THEN "triage" ELSE "stamp")
  BY DEF NextSpace
<1>2. UNCHANGED <<instant, feed, open, synced, filed, since, pages, wanted, clean>>
  BY DEF siteVars
<1>3. publicSpaces \in Nat /\ publicSpaces' \in Nat
  BY <1>1 DEF PublicInv, PublicTyped
<1>4. targets \in Seq(PublicSpaces) /\ targets # <<>>
  BY DEF PublicInv, PublicTyped
<1>5. targets' \in Seq(PublicSpaces) /\ (Len(targets) > 1 => targets' # <<>>)
  BY <1>1, <1>4, TheOthers
<1>6. PublicTyped'
  BY <1>1, <1>2, <1>3, <1>5 DEF PublicInv, PublicTyped
<1>7. Stands'
  BY <1>2 DEF PublicInv, Stands
<1>8. Whole' => Whole
  BY <1>2 DEF Whole, DeepEnough
<1>9. ASSUME clean, NEW w \in wanted
      PROVE  publicSpaces' > 0 \/ (targets' # <<>> /\ w[1] \in ToSet(targets'))
  <2>1. publicSpaces > 0 \/ (targets # <<>> /\ w[1] \in ToSet(targets))
    BY <1>9 DEF PublicInv, NothingSkipped
  <2>2. CASE publicSpaces > 0
    BY <1>1, <1>3, <2>2
  <2>3. CASE targets # <<>> /\ w[1] = Head(targets)
    BY <1>1, <1>3, <1>9, <2>3
  <2>4. CASE targets # <<>> /\ w[1] \in ToSet(Tail(targets))
    BY <1>1, <2>4 DEF ToSet
  <2> QED
    BY <1>4, <2>1, <2>2, <2>3, <2>4, TakingTheFirst
<1>10. ASSUME Whole, NEW w \in wanted, reading' = "space" PROVE w \in records' \/ Ahead(w)'
  <2>1. targets # <<>> /\ targets' # <<>>
    BY <1>1, <1>4, <1>5, <1>10
  <2>2. w \in records' \/ w[1] \in ToSet(targets')
    BY <1>1, <1>10, <2>1
  <2>3. ASSUME w[1] \in ToSet(targets') PROVE Ahead(w)'
    <3>1. w[1] = Head(targets') \/ w[1] \in ToSet(Tail(targets'))
      BY <1>5, <2>1, <2>3, TakingTheFirst
    <3>2. w[1] \in PublicSpaces
      BY DEF PublicInv, PublicTyped
    <3>3. feed[w[1]] \in Seq(Instants)
      BY <3>2 DEF PublicInv, PublicTyped
    <3>4. (page' - 1) * PerPage = 0
      BY <1>1, PublicReadAssumption
    <3>5. \A i \in DOMAIN feed'[w[1]] : i > (page' - 1) * PerPage
      BY <1>2, <3>3, <3>4
    <3> QED
      BY <2>1, <3>1, <3>5 DEF Ahead
  <2> QED
    BY <2>2, <2>3
<1>11. ASSUME Whole, NEW w \in wanted, ~(Len(targets) > 1) PROVE w \in records'
  <2>1. ~(targets # <<>> /\ w[1] \in ToSet(Tail(targets)))
    <3>1. SUFFICES ASSUME targets # <<>> PROVE ToSet(Tail(targets)) = {}
      OBVIOUS
    <3>2. Tail(targets) = <<>>
      BY <1>4, <1>11, <3>1
    <3> QED
      BY <3>2 DEF ToSet
  <2> QED
    BY <1>11, <2>1
<1>12. ASSUME clean, NEW w \in wanted, ~(Len(targets) > 1) PROVE publicSpaces' > 0
  <2>1. targets' = <<>> \/ targets = <<>>
    BY <1>1, <1>4, <1>12
  <2>2. ASSUME targets = <<>> PROVE publicSpaces' > 0
    <3>1. publicSpaces > 0
      BY <1>12, <2>2 DEF PublicInv, NothingSkipped
    <3> QED
      BY <1>1, <1>3, <3>1
  <2> QED
    BY <1>9, <1>12, <2>1, <2>2
<1>13. NothingSkipped'
  <2>1. reading' = "triage" /\ Whole' => wanted' \subseteq records'
    BY <1>1, <1>2, <1>8, <1>11
  <2>2. reading' = "stamp" /\ Whole' => wanted' \subseteq filed'
    <3>1. SUFFICES ASSUME reading' = "stamp", clean, NEW w \in wanted PROVE FALSE
      BY <1>2 DEF Whole
    <3>2. publicSpaces' > 0 /\ ~(publicSpaces' > 0)
      BY <1>1, <1>12, <3>1
    <3> QED
      BY <3>2
  <2> QED
    BY <1>1, <1>2, <1>8, <1>9, <1>10, <2>1, <2>2 DEF NothingSkipped
<1> QED
  BY <1>6, <1>7, <1>13 DEF PublicInv

\* A refused space is left.
LEMMA RefusalKeeps ==
    ASSUME PublicInv, SpaceRefuses PROVE PublicInv'
<1>1. /\ reading = "space" /\ Head(targets) \notin open /\ NextSpace(0)
      /\ records' = {r \in records : r[1] # Head(targets)}
      /\ UNCHANGED <<siteVars, synced, filed, since, pages, wanted, clean>>
  BY DEF SpaceRefuses
<1>2. clean => \A w \in wanted : w[1] # Head(targets)
  BY <1>1 DEF PublicInv, Stands
<1>3. Whole => \A w \in wanted : \/ w \in records'
                                 \/ targets # <<>> /\ w[1] \in ToSet(Tail(targets))
  BY <1>1, <1>2 DEF PublicInv, NothingSkipped, Ahead, Whole
<1> QED
  BY <1>1, <1>2, <1>3, SpaceLeft

\* An answer that is no answer is such a trouble too.
LEMMA FailureKeeps ==
    ASSUME PublicInv, PageFails PROVE PublicInv'
<1>1. PICK n \in {0, 1} : NextSpace(n)
  BY DEF PageFails
<1>2. /\ UNCHANGED <<instant, feed, open, synced, since, pages, wanted>> /\ clean' = FALSE
      /\ targets' = Tail(targets) /\ page' = 1 /\ publicSpaces' = publicSpaces + n
      /\ reading' \in {"space", "triage", "stamp"}
  BY <1>1 DEF PageFails, Upset, siteVars, NextSpace
<1>3. PublicTyped'
  <2>1. targets \in Seq(PublicSpaces) /\ targets # <<>> /\ publicSpaces \in Nat
    BY DEF PageFails, PublicInv, PublicTyped
  <2>2. targets' \in Seq(PublicSpaces) /\ publicSpaces' \in Nat
    BY <1>2, <2>1
  <2>3. reading' = "space" => targets' # <<>>
    <3>1. Len(targets) > 1 => targets' # <<>>
      BY <1>2, <2>1, TheOthers
    <3>2. reading' = "space" => Len(targets) > 1
      BY <1>1 DEF NextSpace
    <3> QED
      BY <3>1, <3>2
  <2> QED
    <3>1. /\ UNCHANGED <<instant, feed, open, synced, since, pages, wanted>> /\ clean' = FALSE
          /\ page' = 1 /\ reading' \in {"space", "triage", "stamp"}
      BY <1>2
    <3>2. /\ instant' \in Instants /\ feed' \in [PublicSpaces -> Seq(Instants)]
          /\ \A s \in PublicSpaces : Falling(feed'[s], instant')
      BY <3>1 DEF PublicInv, PublicTyped
    <3>3. /\ synced' \in Nat /\ since' \in Nat /\ pages' \in Nat \ {0}
          /\ open' \subseteq PublicSpaces
      BY <3>1 DEF PublicInv, PublicTyped
    <3>5. page' \in Nat \ {0}
      BY <3>1
    <3>6. clean' \in BOOLEAN
      BY <3>1, Zenon
    <3>4. wanted' = {w \in wanted' : w \in PublicSpaces \X Instants}
      BY <3>1 DEF PublicInv, PublicTyped
    <3> QED
      BY <2>2, <2>3, <3>1, <3>2, <3>3, <3>4, <3>5, <3>6, Zenon DEF PublicTyped
<1> QED
  BY <1>2, <1>3, UpsetKeeps

\* One page of the first space.  What is wanted of it is on the page, or deeper
\* than the page; and where the walk of the space ends, nothing is deeper.
LEMMA PageKeeps ==
    ASSUME PublicInv, ReadPage PROVE PublicInv'
<1> DEFINE s == Head(targets)
           q == feed[s]
           b == (page - 1) * PerPage
           e == page * PerPage
           batch == PageOf(s, page)
           done == \/ Fresh(batch) # ToSet(batch) \/ batch = <<>>
                   \/ page * PerPage >= Len(feed[s]) \/ page = pages
<1>1. /\ reading = "space" /\ s \in open
      /\ records' = records \cup ({s} \X Fresh(batch))
      /\ IF done THEN NextSpace(1)
         ELSE page' = page + 1 /\ UNCHANGED <<reading, targets, publicSpaces>>
      /\ UNCHANGED <<siteVars, synced, filed, since, pages, wanted, clean>>
  BY DEF ReadPage
<1>2. targets \in Seq(PublicSpaces) /\ targets # <<>> /\ s \in PublicSpaces
  BY <1>1 DEF PublicInv, PublicTyped
<1>3. q \in Seq(Instants) /\ Falling(q, instant)
  BY <1>2 DEF PublicInv, PublicTyped
<1>4. page \in Nat /\ page # 0 /\ PerPage \in Nat /\ PerPage # 0
  BY PublicReadAssumption DEF PublicInv, PublicTyped
<1>5. b \in Nat /\ e \in Nat /\ e = b + PerPage /\ b < e
  BY <1>4
<1>6. batch = Piece(q, b, e)
  BY DEF PageOf, Piece
<1>7. \A p : p = page + 1 => (p - 1) * PerPage = e
  BY <1>4
<1>8. done = \/ Fresh(batch) # ToSet(batch) \/ batch = <<>> \/ e >= Len(q) \/ page = pages
  OBVIOUS
<1>9. Fresh(batch) = {t \in ToSet(batch) : t > since}
  BY DEF Fresh
<1>10. DeepEnough /\ page = pages => Len(q) <= e
  BY <1>2 DEF DeepEnough
<1>11. \A w \in wanted : clean /\ w[1] = s
          => w[2] \in ToSet(q) /\ w[2] > since /\ w[2] \in Nat /\ w = <<s, w[2]>>
  BY <1>1 DEF PublicInv, PublicTyped, Stands, Instants
<1>12. \A w \in wanted : Ahead(w) /\ w[1] = s =>
          \/ w[1] \in ToSet(Tail(targets))
          \/ \A i \in DOMAIN q : q[i] = w[2] => i > b
  BY DEF Ahead
<1>13. since \in Nat
  BY DEF PublicInv, PublicTyped
<1> HIDE DEF s, q, b, e, batch, done
<1>14. /\ \A i \in DOMAIN q : b < i /\ i <= e => q[i] \in ToSet(batch)
       /\ \A t \in ToSet(batch) : \E j \in DOMAIN q : b < j /\ j <= e /\ q[j] = t
       /\ batch = <<>> => Len(q) <= b
  BY <1>3, <1>5, <1>6, PageHolds
<1>15. DOMAIN q = 1 .. Len(q) /\ Len(q) \in Nat /\ \A i \in DOMAIN q : q[i] \in Nat
  BY <1>3 DEF Instants
<1>16. ASSUME NEW w \in wanted, clean, w[1] = s, NEW i \in DOMAIN q, q[i] = w[2], b < i, i <= e
       PROVE  w \in records'
  <2>1. w[2] \in ToSet(batch)
    BY <1>14, <1>16
  <2>2. w[2] \in Fresh(batch) /\ w = <<s, w[2]>>
    BY <1>9, <1>11, <1>16, <2>1
  <2> QED
    BY <1>1, <2>2
<1>17. CASE done
  <2>1. ASSUME Whole, NEW w \in wanted
        PROVE  w \in records' \/ (targets # <<>> /\ w[1] \in ToSet(Tail(targets)))
    <3>1. w \in records \/ Ahead(w)
      BY <1>1, <2>1 DEF PublicInv, NothingSkipped
    <3>2. CASE w \in records
      BY <1>1, <3>2
    <3>3. CASE Ahead(w) /\ w[1] # s
      BY <1>2, <3>3 DEF Ahead, s
    <3>4. CASE Ahead(w) /\ w[1] = s /\ \A i \in DOMAIN q : q[i] = w[2] => i > b
      <4>1. PICK i \in DOMAIN q : q[i] = w[2]
        BY <1>11, <2>1, <3>4 DEF Whole, ToSet
      <4>2. i > b /\ i \in Nat /\ i <= Len(q)
        BY <1>15, <3>4, <4>1
      <4>3. ASSUME Fresh(batch) # ToSet(batch) PROVE i <= e
        <5>1. PICK t \in ToSet(batch) : ~(t > since)
          BY <1>9, <4>3
        <5>2. PICK j \in DOMAIN q : b < j /\ j <= e /\ q[j] = t
          BY <1>14, <5>1
        <5>3. q[i] > q[j]
          BY <1>11, <1>13, <1>15, <2>1, <3>4, <4>1, <5>1, <5>2 DEF Whole
        <5>4. ~(j < i)
          <6>1. SUFFICES ASSUME j < i PROVE FALSE
            OBVIOUS
          <6>2. q[j] > q[i]
            BY <1>3, <6>1 DEF Falling
          <6> QED
            BY <1>15, <5>3, <6>2
        <5> QED
          BY <1>5, <1>15, <4>2, <5>2, <5>4
      <4>4. i <= e
        <5>1. CASE batch = <<>>
          BY <1>14, <1>5, <1>15, <4>2, <5>1
        <5>2. CASE e >= Len(q)
          BY <1>5, <1>15, <4>2, <5>2
        <5>3. CASE page = pages
          BY <1>5, <1>10, <1>15, <2>1, <4>2, <5>3 DEF Whole
        <5> QED
          BY <1>8, <1>17, <4>3, <5>1, <5>2, <5>3
      <4> QED
        BY <1>16, <2>1, <3>4, <4>1, <4>2, <4>4 DEF Whole
    <3> QED
      BY <1>2, <1>12, <3>1, <3>2, <3>3, <3>4
  <2> QED
    BY <1>1, <1>17, <2>1, SpaceLeft
<1>18. CASE ~done
  <2>1. /\ page' = page + 1 /\ UNCHANGED <<reading, targets, publicSpaces, instant, feed, open,
                                           synced, filed, since, pages, wanted, clean>>
    BY <1>1, <1>18 DEF siteVars
  <2>2. PublicTyped'
    BY <1>4, <2>1 DEF PublicInv, PublicTyped
  <2>3. Stands'
    BY <2>1 DEF PublicInv, Stands
  <2>4. Whole' => Whole
    BY <2>1 DEF Whole, DeepEnough
  <2>5. ASSUME Whole, NEW w \in wanted PROVE w \in records' \/ Ahead(w)'
    <3>1. w \in records \/ Ahead(w)
      BY <1>1, <2>5 DEF PublicInv, NothingSkipped
    <3>2. CASE w \in records
      BY <1>1, <3>2
    <3>3. CASE w[1] \in ToSet(Tail(targets))
      BY <1>2, <2>1, <3>3 DEF Ahead
    <3>4. CASE w[1] = s /\ \A i \in DOMAIN q : q[i] = w[2] => i > b
      <4>1. CASE \E i \in DOMAIN q : q[i] = w[2] /\ i <= e
        BY <1>16, <2>5, <3>4, <4>1 DEF Whole
      <4>2. CASE \A i \in DOMAIN q : q[i] = w[2] => ~(i <= e)
        <5>1. \A i \in DOMAIN q : q[i] = w[2] => i > (page' - 1) * PerPage
          <6>1. (page' - 1) * PerPage = e
            BY <1>7, <2>1, Zenon
          <6>2. \A i \in DOMAIN q : i \in Nat
            BY <1>15
          <6>3. \A i \in DOMAIN q : q[i] = w[2] => i > e
            BY <1>5, <4>2, <6>2
          <6> QED
            BY <6>1, <6>3
        <5> QED
          BY <1>2, <2>1, <3>4, <5>1 DEF Ahead, s, q
      <4> QED
        BY <4>1, <4>2
    <3> QED
      BY <1>2, <1>12, <3>1, <3>2, <3>3, <3>4 DEF Ahead, s
  <2>6. NothingSkipped'
    BY <1>1, <2>1, <2>4, <2>5 DEF PublicInv, NothingSkipped
  <2> QED
    BY <2>2, <2>3, <2>6 DEF PublicInv
<1> QED
  BY <1>17, <1>18

\* The triage files what was stored.
LEMMA TriageKeeps ==
    ASSUME PublicInv, Triage PROVE PublicInv'
<1>1. /\ reading = "triage" /\ reading' = "stamp" /\ filed' = filed \cup records
      /\ UNCHANGED <<instant, feed, open, synced, since, pages, targets, page, records,
                     publicSpaces, wanted, clean>>
  BY DEF Triage, siteVars
<1>2. PublicTyped' /\ Stands'
  BY <1>1 DEF PublicInv, PublicTyped, Stands
<1>3. Whole' => Whole
  BY <1>1 DEF Whole, DeepEnough
<1>4. NothingSkipped'
  BY <1>1, <1>3 DEF PublicInv, NothingSkipped
<1> QED
  BY <1>2, <1>4 DEF PublicInv

\* The stamp, and a read that is broken off.
LEMMA RestKeeps ==
    ASSUME PublicInv, Stamp \/ ReadAborted PROVE PublicInv'
<1>1. /\ reading' = "rest" /\ synced' \in {synced, instant} /\ clean' \in {clean, FALSE}
      /\ UNCHANGED <<instant, feed, open, since, pages, publicSpaces, wanted>>
      /\ targets' \in {targets, <<>>} /\ page' \in {page, 1}
  BY DEF Stamp, ReadAborted, siteVars, Upset
<1>2. synced' \in Nat /\ page' \in Nat \ {0} /\ targets' \in Seq(PublicSpaces) /\ clean' \in BOOLEAN
  <2>1. synced \in Nat /\ instant \in Nat /\ page \in Nat \ {0} /\ clean \in BOOLEAN
    BY DEF PublicInv, PublicTyped, Instants
  <2>2. targets \in Seq(PublicSpaces) /\ <<>> \in Seq(PublicSpaces)
    BY DEF PublicInv, PublicTyped
  <2>3. synced' = synced \/ synced' = instant
    BY <1>1
  <2>4. page' = page \/ page' = 1
    BY <1>1
  <2>5. synced' \in Nat
    BY <2>1, <2>3
  <2>6. page' \in Nat \ {0}
    BY <2>1, <2>4
  <2>7. targets' \in Seq(PublicSpaces)
    BY <1>1, <2>2, Zenon
  <2>8. clean' \in BOOLEAN
    BY <1>1, <2>1, Zenon
  <2> QED
    BY <2>5, <2>6, <2>7, <2>8
<1>3. PublicTyped'
  BY <1>1, <1>2 DEF PublicInv, PublicTyped
<1> QED
  BY <1>1, <1>3 DEF PublicInv, Stands, NothingSkipped

\* PublicInv is inductive.
LEMMA PublicKeeps == PublicInv /\ [PublicNext]_publicVars => PublicInv'
<1> SUFFICES ASSUME PublicInv, [PublicNext]_publicVars PROVE PublicInv'
  OBVIOUS
<1>1. CASE UNCHANGED publicVars
  BY <1>1 DEF publicVars, siteVars, readVars, PublicInv, PublicTyped, Stands, NothingSkipped, Whole,
              DeepEnough, Ahead
<1>2. CASE PublicNext
  BY <1>2, PublishedKeeps, RemovalKeeps, TurnKeeps, TickKeeps, BeginKeeps, PageKeeps, RefusalKeeps,
     FailureKeeps, TriageKeeps, RestKeeps DEF PublicNext, ReadNext
<1> QED
  BY <1>1, <1>2

\* Before a community is stamped as read, each post that a read with no trouble
\* was to bring in is filed, for any spaces, page size and number of pages, and
\* however posts arrive while it reads (harvest.py 374-383 and 420-470).
THEOREM BacklogIsFiled == PublicSpec => StampedIsRead
<1> DEFINE Filed == (reading = "stamp" /\ reading' = "rest" /\ clean' /\ DeepEnough)
                    => wanted \subseteq filed
<1>1. PublicInv /\ [PublicNext]_publicVars => Filed
  <2>1. SUFFICES ASSUME PublicInv, PublicNext, reading = "stamp", reading' = "rest", clean', DeepEnough
                 PROVE  wanted \subseteq filed
    BY DEF publicVars, readVars
  <2>2. ~ReadAborted
    BY <2>1 DEF ReadAborted, Upset
  <2>3. clean
    BY <2>1, <2>2 DEF PublicNext, ReadNext, ReadBegins, ReadPage, SpaceRefuses, PageFails, Triage, Stamp,
         ClockTicks, PostPublished, PostRemoved, SpaceOpensOrCloses, Upset
  <2> QED
    BY <2>1, <2>3 DEF PublicInv, NothingSkipped, Whole
<1>2. PublicSpec => [][Filed]_publicVars
  BY <1>1, PublicStart, PublicKeeps, PTL DEF PublicSpec
<1> QED
  BY <1>2 DEF StampedIsRead

-----------------------------------------------------------------------------
(* The ingest with an API token.                                           *)

\* A run walks the places it was approved for.
LEMMA OrderIsOfPlaces == Order \in Seq(Places)
<1>1. IsFiniteSet(ApiSpaces \cap Approved) /\ IsFiniteSet(ApiRooms \cap Approved)
  BY OfficialIngestAssumption, FS_Subset
<1>2. ASSUME NEW S, IsFiniteSet(S), S \subseteq Places PROVE SetToSeq(S) \in Seq(Places)
  BY <1>2, SetsAreListed, SeqOfMore
<1>3. SetToSeq(ApiSpaces \cap Approved) \in Seq(Places)
  BY <1>1, <1>2 DEF Places
<1>4. SetToSeq(ApiRooms \cap Approved) \in Seq(Places)
  BY <1>1, <1>2 DEF Places
<1>5. ASSUME NEW a \in Seq(Places), NEW b \in Seq(Places)
      PROVE  a \o (IF Member THEN b ELSE <<>>) \in Seq(Places)
  OBVIOUS
<1> QED
  BY <1>3, <1>4, <1>5 DEF Order

-----------------------------------------------------------------------------
\* The part of the types the proof needs.
OfficialTyped ==
    /\ tick \in Instants /\ messages \in [Places -> Seq(Instants)]
    /\ \A p \in Places : Falling(messages[p], tick)
    /\ mark \in Nat /\ floor \in Nat /\ cursor \in Nat /\ pageNo \in Nat \ {0}
    /\ places \in Seq(Places)
    /\ step \in {"rest", "list", "posts", "comments", "finish"}
    /\ step \in {"posts", "comments"} => places # <<>>

\* What a run should keep stands in the places it was approved for.
DueStands ==
    \A d \in due : /\ d \in Places \X Instants /\ d[1] \in ToSet(Order)
                   /\ d[2] > floor /\ d[2] \in ToSet(messages[d[1]])

\* The cursor of a room is a message as deep as the batches that were read.
CursorStands ==
    /\ step = "comments" => pageNo = 1 /\ cursor = 0
    /\ step = "posts" /\ Here \in ApiRooms =>
         \/ pageNo = 1 /\ cursor = 0
         \/ /\ cursor # 0
            /\ \E i \in DOMAIN messages[Here] :
                 messages[Here][i] = cursor /\ i >= (pageNo - 1) * PageSize

\* Message d is deeper in the place that is walked than the pages read.
Deeper(d) ==
    IF Here \in ApiSpaces
    THEN \A i \in DOMAIN messages[d[1]] :
           messages[d[1]][i] = d[2] => i > (pageNo - 1) * PageSize
    ELSE cursor = 0 \/ d[2] < cursor

\* Message d is before the walk: in a later place, or deeper in this one.
ToCome(d) ==
    /\ places # <<>>
    /\ d[1] \in ToSet(Tail(places)) \/ (step = "posts" /\ d[1] = Here /\ Deeper(d))

\* What a run should keep is kept, or still before it; a run that completes has
\* kept all of it.
NothingLost ==
    WithinLimit =>
      /\ step \in {"posts", "comments"} => \A d \in due : d \in kept \/ ToCome(d)
      /\ step = "finish" /\ run = "complete" => due \subseteq kept

\* The inductive invariant.
OfficialInv == OfficialTyped /\ DueStands /\ CursorStands /\ NothingLost

\* At first no run is under way.
LEMMA OfficialStart == OfficialInit => OfficialInv
<1> SUFFICES ASSUME OfficialInit PROVE OfficialInv
  OBVIOUS
<1>1. OfficialTyped
  BY DEF OfficialInit, OfficialTyped, Falling, Instants, ToSet
<1> QED
  BY <1>1 DEF OfficialInit, OfficialInv, DueStands, CursorStands, NothingLost

\* A step that leaves the walk where it is.
LEMMA WalkStands ==
    ASSUME OfficialInv,
           UNCHANGED <<tick, messages, mark, kept, run, step, floor, places, pageNo, cursor, due>>
    PROVE  OfficialInv'
BY DEF OfficialInv, OfficialTyped, DueStands, CursorStands, NothingLost, ToCome, Deeper, Here,
       WithinLimit

\* A run that failed, or that was killed, claims nothing.
LEMMA WalkEndsEarly ==
    ASSUME OfficialInv, UNCHANGED <<tick, messages, floor, pageNo, cursor, due>>,
           step' = "rest" \/ (step' = "finish" /\ run' # "complete"),
           mark' \in {mark, tick}, places' \in {places, <<>>}
    PROVE  OfficialInv'
<1>1. mark' \in Nat
  <2>1. mark \in Nat /\ tick \in Nat
    BY DEF OfficialInv, OfficialTyped, Instants
  <2>2. mark' = mark \/ mark' = tick
    OBVIOUS
  <2> QED
    BY <2>1, <2>2
<1>2. places' \in Seq(Places)
  <2>1. places \in Seq(Places) /\ <<>> \in Seq(Places)
    BY DEF OfficialInv, OfficialTyped
  <2> QED
    BY <2>1
<1>3. OfficialTyped'
  BY <1>1, <1>2 DEF OfficialInv, OfficialTyped
<1> QED
  BY <1>3 DEF OfficialInv, DueStands, CursorStands, NothingLost

\* Time passes.
LEMMA IngestTickKeeps ==
    ASSUME OfficialInv, TimePasses PROVE OfficialInv'
<1>1. /\ UNCHANGED <<messages, mark, kept, run, step, floor, places, pageNo, cursor, due>>
      /\ tick' = tick + 1
  BY DEF TimePasses, walkVars
<1>2. tick \in Nat /\ tick' \in Instants
  BY <1>1 DEF OfficialInv, OfficialTyped, Instants
<1>3. ASSUME NEW p \in Places PROVE Falling(messages'[p], tick')
  <2>1. messages[p] \in Seq(Instants) /\ Falling(messages[p], tick) /\ messages'[p] = messages[p]
    BY <1>1 DEF OfficialInv, OfficialTyped
  <2>2. \A t \in ToSet(messages[p]) : t \in Nat
    BY <2>1 DEF ToSet, Instants
  <2> QED
    BY <1>1, <1>2, <2>1, <2>2 DEF Falling
<1>4. OfficialTyped'
  BY <1>1, <1>2, <1>3 DEF OfficialInv, OfficialTyped
<1> QED
  BY <1>1, <1>4 DEF OfficialInv, DueStands, CursorStands, NothingLost, ToCome, Deeper, Here,
                    WithinLimit

\* A run begins with every place before it.
LEMMA IngestBeginKeeps ==
    ASSUME OfficialInv, NEW b \in BOOLEAN, IngestBegins(b) PROVE OfficialInv'
<1>1. /\ step' = "list" /\ floor' \in {mark, 0}
      /\ due' = {d \in UNION {{p} \X ToSet(messages[p]) : p \in ToSet(Order)} : d[2] > floor'}
      /\ UNCHANGED <<tick, messages, mark, kept, places, pageNo, cursor>>
  BY DEF IngestBegins, Standing
<1>2. floor' \in Nat
  BY <1>1 DEF OfficialInv, OfficialTyped
<1>3. OfficialTyped'
  BY <1>1, <1>2 DEF OfficialInv, OfficialTyped
<1>4. ASSUME NEW d \in due'
      PROVE  /\ d \in Places \X Instants /\ d[1] \in ToSet(Order)
             /\ d[2] > floor' /\ d[2] \in ToSet(messages[d[1]])
  <2>1. PICK p \in ToSet(Order) : d \in {p} \X ToSet(messages[p])
    BY <1>1
  <2>2. d[2] > floor'
    BY <1>1
  <2>3. d = <<p, d[2]>> /\ d[1] = p /\ d[2] \in ToSet(messages[p])
    BY <2>1
  <2>4. p \in Places
    BY OrderIsOfPlaces DEF ToSet
  <2>5. d[2] \in Instants
    BY <2>3, <2>4 DEF OfficialInv, OfficialTyped, ToSet
  <2> QED
    BY <2>2, <2>3, <2>4, <2>5
<1>5. DueStands'
  BY <1>1, <1>4 DEF DueStands
<1> QED
  BY <1>1, <1>3, <1>5 DEF OfficialInv, CursorStands, NothingLost

\* The spaces and rooms are listed.
LEMMA ListKeeps ==
    ASSUME OfficialInv, ListPlaces PROVE OfficialInv'
<1>1. /\ places' = Order /\ pageNo' = 1 /\ cursor' = 0
      /\ IF places' = <<>> THEN step' = "finish" ELSE step' = "posts"
      /\ UNCHANGED <<tick, messages, mark, kept, floor, due>>
  BY DEF ListPlaces
<1>2. OfficialTyped'
  BY <1>1, OrderIsOfPlaces DEF OfficialInv, OfficialTyped
<1>3. DueStands'
  BY <1>1 DEF OfficialInv, DueStands
<1>4. CursorStands'
  BY <1>1 DEF CursorStands
<1>5. ASSUME NEW d \in due PROVE places' # <<>> /\ ToCome(d)'
  <2>1. d[1] \in ToSet(places') /\ d[1] \in Places
    BY <1>1 DEF OfficialInv, DueStands
  <2>2. places' # <<>>
    BY <2>1 DEF ToSet
  <2>3. places' \in Seq(Places)
    BY <1>1, OrderIsOfPlaces
  <2>4. d[1] = Head(places') \/ d[1] \in ToSet(Tail(places'))
    BY <2>1, <2>2, <2>3, TakingTheFirst
  <2>5. messages'[d[1]] \in Seq(Instants)
    BY <1>2, <2>1 DEF OfficialTyped
  <2>6. (pageNo' - 1) * PageSize = 0
    BY <1>1, OfficialIngestAssumption
  <2>7. \A i \in DOMAIN messages'[d[1]] : i > (pageNo' - 1) * PageSize
    BY <2>5, <2>6
  <2>8. Deeper(d)'
    BY <1>1, <2>7 DEF Deeper
  <2> QED
    BY <1>1, <2>2, <2>4, <2>8 DEF ToCome, Here
<1>6. NothingLost'
  BY <1>1, <1>5 DEF NothingLost
<1> QED
  BY <1>2, <1>3, <1>4, <1>6 DEF OfficialInv

\* A message that arrives moves the others down: the pages of a space shift, the
\* cursor of a room goes down with its message.
LEMMA MessageKeeps ==
    ASSUME OfficialInv, NEW s \in Places, MessagePosted(s)
    PROVE  /\ OfficialInv'
           /\ WithinLimit' => WithinLimit
<1> DEFINE q == messages[s]
           p == <<tick>> \o q
<1>1. q \in Seq(Instants) /\ tick \in Instants /\ Falling(q, tick) /\ tick \notin ToSet(q)
  BY DEF OfficialInv, OfficialTyped, MessagePosted
<1>16. p = <<tick>> \o q
  OBVIOUS
<1>2. /\ p \in Seq(Instants) /\ Len(p) = Len(q) + 1 /\ p[1] = tick
      /\ DOMAIN p \subseteq Nat \ {0} /\ DOMAIN q \subseteq Nat
      /\ \A i \in DOMAIN q : i + 1 \in DOMAIN p /\ p[i + 1] = q[i]
      /\ \A i \in DOMAIN p : i # 1 => i - 1 \in DOMAIN q /\ p[i] = q[i - 1]
      /\ ToSet(q) \subseteq ToSet(p) /\ Falling(p, tick)
  <2>1. ToSet(q) \subseteq ToSet(p) /\ Falling(p, tick)
    BY <1>1, <1>16, OnTopFalls
  <2>2. /\ p \in Seq(Instants) /\ Len(p) = Len(q) + 1 /\ p[1] = tick
        /\ DOMAIN p \subseteq Nat \ {0} /\ DOMAIN q \subseteq Nat
        /\ \A i \in DOMAIN q : i + 1 \in DOMAIN p /\ p[i + 1] = q[i]
        /\ \A i \in DOMAIN p : i # 1 => i - 1 \in DOMAIN q /\ p[i] = q[i - 1]
    BY <1>1, <1>16, OnTop
  <2> QED
    BY <2>1, <2>2
<1>3. messages' = [messages EXCEPT ![s] = p]
  BY DEF MessagePosted
<1>4. UNCHANGED <<tick, mark, kept, run, step, floor, places, pageNo, cursor, due>>
  BY DEF MessagePosted, walkVars
<1>5. messages \in [Places -> Seq(Instants)]
  BY DEF OfficialInv, OfficialTyped
<1>6. /\ messages'[s] = p /\ messages[s] = q
      /\ \A r \in Places \ {s} : messages'[r] = messages[r]
  BY <1>3, <1>5
<1>7. Len(q) \in Nat
  BY <1>1
<1> HIDE DEF q, p
<1>8. OfficialTyped'
  <2>1. messages' \in [Places -> Seq(Instants)]
    BY <1>2, <1>3, <1>5
  <2>2. \A r \in Places : Falling(messages'[r], tick')
    BY <1>2, <1>4, <1>6 DEF OfficialInv, OfficialTyped
  <2> QED
    BY <1>4, <2>1, <2>2 DEF OfficialInv, OfficialTyped
<1>9. DueStands'
  <2>1. \A r \in Places : ToSet(messages[r]) \subseteq ToSet(messages'[r])
    BY <1>2, <1>6
  <2> QED
    BY <1>4, <2>1 DEF OfficialInv, DueStands
<1> DEFINE b == (pageNo - 1) * PageSize
<1>10. b \in Nat
  BY OfficialIngestAssumption DEF OfficialInv, OfficialTyped
<1>11. b = (pageNo - 1) * PageSize /\ b' = b
  BY <1>4
<1> HIDE DEF b
<1>12. CursorStands'
  <2>1. SUFFICES ASSUME step = "posts", Here \in ApiRooms, cursor # 0
                 PROVE  \E i \in DOMAIN messages'[Here] : messages'[Here][i] = cursor /\ i >= b
    BY <1>4, <1>11 DEF OfficialInv, CursorStands, Here
  <2>2. PICK i \in DOMAIN messages[Here] : messages[Here][i] = cursor /\ i >= b
    BY <1>11, <2>1 DEF OfficialInv, CursorStands
  <2>3. Here \in Places
    BY <2>1 DEF Places
  <2>4. CASE Here # s
    BY <1>6, <2>2, <2>3, <2>4
  <2>5. CASE Here = s
    <3>1. i \in DOMAIN q /\ q[i] = cursor /\ i \in Nat
      BY <1>2, <1>6, <2>2, <2>5
    <3>2. i + 1 \in DOMAIN p /\ p[i + 1] = cursor /\ i + 1 >= b
      BY <1>2, <1>10, <2>2, <3>1
    <3> QED
      BY <1>6, <2>5, <3>2
  <2> QED
    BY <2>4, <2>5
<1>13. \A d \in due : ToCome(d) => ToCome(d)'
  <2>1. SUFFICES ASSUME NEW d \in due, Here \in ApiSpaces, NEW i \in DOMAIN messages'[d[1]],
                        messages'[d[1]][i] = d[2],
                        \A k \in DOMAIN messages[d[1]] : messages[d[1]][k] = d[2] => k > b
                 PROVE  i > b
    BY <1>4, <1>11 DEF ToCome, Deeper, Here
  <2>2. d[1] \in Places /\ d[2] \in ToSet(messages[d[1]])
    BY DEF OfficialInv, DueStands
  <2>3. CASE d[1] # s
    BY <1>6, <2>1, <2>2, <2>3
  <2>4. CASE d[1] = s
    <3>1. d[2] # tick
      BY <1>1, <1>6, <2>2, <2>4
    <3>2. i # 1 /\ i - 1 \in DOMAIN q /\ q[i - 1] = d[2]
      BY <1>2, <1>6, <2>1, <2>4, <3>1
    <3>3. i - 1 > b /\ i - 1 \in Nat /\ i \in Nat
      BY <1>2, <1>6, <2>1, <2>4, <3>2
    <3> QED
      BY <1>10, <3>3
  <2> QED
    BY <2>3, <2>4
<1>14. WithinLimit' => WithinLimit
  <2>1. SUFFICES ASSUME WithinLimit', NEW r \in Places
                 PROVE  Len(messages[r]) <= PageSize * (IF r \in ApiRooms THEN BatchLimit
                                  ELSE IF PageLimit = 0 THEN Len(messages[r]) ELSE PageLimit)
    BY DEF WithinLimit
  <2>2. CASE r # s
    BY <1>6, <2>1, <2>2 DEF WithinLimit
  <2>3. CASE r = s
    <3>1. Len(p) <= PageSize * (IF r \in ApiRooms THEN BatchLimit
                               ELSE IF PageLimit = 0 THEN Len(p) ELSE PageLimit)
      BY <1>6, <2>1, <2>3 DEF WithinLimit
    <3> DEFINE n == Len(q)
               m == Len(p)
    <3>2. n \in Nat /\ m = n + 1
      BY <1>2, <1>7
    <3> HIDE DEF n, m
    <3>3. /\ PageSize \in Nat /\ PageSize # 0 /\ PageLimit \in Nat /\ BatchLimit \in Nat
      BY OfficialIngestAssumption
    <3>4. n <= PageSize * n
      BY <3>2, <3>3
    <3>5. CASE r \in ApiRooms
      <4> DEFINE k == PageSize * BatchLimit
      <4>1. m <= k /\ k \in Nat
        BY <3>1, <3>3, <3>5 DEF m
      <4> HIDE DEF k
      <4>2. n <= k
        BY <3>2, <4>1
      <4> QED
        BY <1>6, <2>3, <3>5, <4>2 DEF n, k
    <3>6. CASE r \notin ApiRooms /\ PageLimit = 0
      BY <1>6, <2>3, <3>4, <3>6 DEF n
    <3>7. CASE r \notin ApiRooms /\ PageLimit # 0
      <4> DEFINE k == PageSize * PageLimit
      <4>1. m <= k /\ k \in Nat
        BY <3>1, <3>3, <3>7 DEF m
      <4> HIDE DEF k
      <4>2. n <= k
        BY <3>2, <4>1
      <4> QED
        BY <1>6, <2>3, <3>7, <4>2 DEF n, k
    <3> QED
      BY <3>5, <3>6, <3>7
  <2> QED
    BY <2>2, <2>3
<1>15. NothingLost'
  BY <1>4, <1>13, <1>14 DEF OfficialInv, NothingLost
<1> QED
  BY <1>8, <1>9, <1>12, <1>14, <1>15 DEF OfficialInv

-----------------------------------------------------------------------------
\* A place that is done with has nothing left to come.
LEMMA PlaceIsLeft ==
    ASSUME OfficialInv, step \in {"posts", "comments"}, LeavePlace, pageNo' = 1, cursor' = 0,
           UNCHANGED <<tick, messages, mark, floor, due>>,
           WithinLimit => \A d \in due : d \in kept' \/ d[1] \in ToSet(Tail(places))
    PROVE  OfficialInv'
<1>1. /\ places' = Tail(places)
      /\ IF places' = <<>> THEN step' = "finish" ELSE step' = "posts"
  BY DEF LeavePlace
<1>2. places \in Seq(Places) /\ places # <<>>
  BY DEF OfficialInv, OfficialTyped
<1>3. places' \in Seq(Places)
  BY <1>1, <1>2, TheOthers
<1>4. OfficialTyped'
  BY <1>1, <1>3 DEF OfficialInv, OfficialTyped
<1>5. DueStands'
  BY DEF OfficialInv, DueStands
<1>6. CursorStands'
  BY <1>1 DEF CursorStands
<1>7. ASSUME NEW d \in due, d[1] \in ToSet(places') PROVE places' # <<>> /\ ToCome(d)'
  <2>1. places' # <<>>
    BY <1>7 DEF ToSet
  <2>2. d[1] = Head(places') \/ d[1] \in ToSet(Tail(places'))
    BY <1>3, <1>7, <2>1, TakingTheFirst
  <2>3. d[1] \in Places
    BY DEF OfficialInv, DueStands
  <2>4. messages'[d[1]] \in Seq(Instants)
    BY <1>4, <2>3 DEF OfficialTyped
  <2>5. (pageNo' - 1) * PageSize = 0
    BY OfficialIngestAssumption
  <2>6. \A i \in DOMAIN messages'[d[1]] : i > (pageNo' - 1) * PageSize
    BY <2>4, <2>5
  <2>7. Deeper(d)'
    BY <2>6 DEF Deeper
  <2> QED
    BY <1>1, <2>1, <2>2, <2>7 DEF ToCome, Here
<1>8. WithinLimit' => WithinLimit
  BY DEF WithinLimit
<1>9. NothingLost'
  BY <1>1, <1>7, <1>8 DEF NothingLost
<1> QED
  BY <1>4, <1>5, <1>6, <1>9 DEF OfficialInv

\* The comments of a place are read after its posts.
LEMMA CommentsKeep ==
    ASSUME OfficialInv, step = "comments",
           UNCHANGED <<tick, messages, mark, kept, floor, pageNo, cursor, due>>,
           LeavePlace \/ UNCHANGED <<step, places, run>>
    PROVE  OfficialInv'
<1>1. CASE UNCHANGED <<step, places, run>>
  BY <1>1, WalkStands
<1>2. CASE LeavePlace
  <2>1. pageNo = 1 /\ cursor = 0
    BY DEF OfficialInv, CursorStands
  <2>2. WithinLimit => \A d \in due : d \in kept' \/ d[1] \in ToSet(Tail(places))
    BY DEF OfficialInv, NothingLost, ToCome
  <2> QED
    BY <1>2, <2>1, <2>2, PlaceIsLeft
<1> QED
  BY <1>1, <1>2

\* A budget that is spent, a token that is not minted and a refusal end the run.
LEMMA OddKeeps ==
    ASSUME OfficialInv, OutOfBudget \/ MintFails \/ Retries \/ Refused PROVE OfficialInv'
<1>1. CASE Fails
  BY <1>1, WalkEndsEarly DEF Fails
<1>2. CASE UNCHANGED <<tick, messages, mark, kept, run, step, floor, places, pageNo, cursor, due>>
  BY <1>2, WalkStands
<1>3. CASE /\ step = "comments" /\ UNCHANGED <<tick, messages, mark, kept, floor, pageNo, cursor, due>>
           /\ LeavePlace \/ UNCHANGED <<step, places, run>>
  BY <1>3, CommentsKeep
<1> QED
  BY <1>1, <1>2, <1>3 DEF OutOfBudget, MintFails, Retries, Refused

\* The steps that fetch nothing.
LEMMA RestOfWalk ==
    ASSUME OfficialInv, FetchComments \/ FinishRun \/ IngestKilled \/ OtherReaderStamps
    PROVE  OfficialInv'
<1>1. CASE FetchComments
  BY <1>1, CommentsKeep DEF FetchComments
<1>2. CASE FinishRun
  BY <1>2, WalkEndsEarly DEF FinishRun
<1>3. CASE IngestKilled
  BY <1>3, WalkEndsEarly DEF IngestKilled
<1>4. CASE OtherReaderStamps
  <2>1. /\ mark' = tick
        /\ UNCHANGED <<tick, messages, kept, run, step, floor, places, pageNo, cursor, due>>
    BY <1>4 DEF OtherReaderStamps, walkVars
  <2>2. tick \in Nat
    BY DEF OfficialInv, OfficialTyped, Instants
  <2> QED
    BY <2>1, <2>2 DEF OfficialInv, OfficialTyped, DueStands, CursorStands, NothingLost, ToCome, Deeper,
                      Here, WithinLimit
<1> QED
  BY <1>1, <1>2, <1>3, <1>4

-----------------------------------------------------------------------------
\* How far the walk of a place has come: at least as deep as its whole pages,
\* and what is deeper than that is what Deeper says.
LEMMA HowFar ==
    ASSUME OfficialInv, step = "posts"
    PROVE  /\ Behind \in Nat /\ Behind >= (pageNo - 1) * PageSize
           /\ Here \in ApiSpaces => Behind = (pageNo - 1) * PageSize
           /\ \A d \in due : d[1] = Here /\ Deeper(d) =>
                \A i \in DOMAIN messages[Here] : messages[Here][i] = d[2] => i > Behind
<1> DEFINE q == messages[Here]
           b == (pageNo - 1) * PageSize
<1>1. b \in Nat
  BY OfficialIngestAssumption DEF OfficialInv, OfficialTyped
<1>2. Here \in Places
  BY DEF OfficialInv, OfficialTyped, Here
<1>3. q \in Seq(Instants) /\ Falling(q, tick)
  BY <1>2 DEF OfficialInv, OfficialTyped
<1>4. DOMAIN q \subseteq Nat /\ \A i \in DOMAIN q : i > 0 /\ q[i] \in Nat
  BY <1>3 DEF Instants
<1>5. CASE Here \in ApiSpaces
  <2>1. Behind = b
    BY <1>5 DEF Behind
  <2>2. \A d \in due : d[1] = Here /\ Deeper(d) =>
                \A i \in DOMAIN q : q[i] = d[2] => i > b
    BY <1>5 DEF Deeper
  <2> HIDE DEF b
  <2>3. Behind \in Nat /\ Behind >= b
    BY <1>1, <2>1
  <2> QED
    BY <2>1, <2>2, <2>3 DEF b
<1>6. CASE Here \notin ApiSpaces /\ cursor = 0
  <2>1. Behind = 0
    BY <1>6 DEF Behind
  <2>2. Here \in ApiRooms
    BY <1>2, <1>6 DEF Places
  <2>3. pageNo = 1
    BY <1>6, <2>2 DEF OfficialInv, CursorStands
  <2>4. b = 0
    BY <2>3, OfficialIngestAssumption
  <2> QED
    BY <1>4, <1>6, <2>1, <2>4
<1>7. CASE Here \notin ApiSpaces /\ cursor # 0
  <2>1. Here \in ApiRooms
    BY <1>2, <1>7 DEF Places
  <2>2. PICK k \in DOMAIN q : q[k] = cursor /\ k >= b
    BY <1>7, <2>1 DEF OfficialInv, CursorStands
  <2>3. Behind \in DOMAIN q /\ q[Behind] = cursor
    BY <1>7, <2>2 DEF Behind
  <2> HIDE DEF q, b
  <2>4. Behind = k
    <3>1. ~(q[k] > q[Behind]) /\ ~(q[Behind] > q[k])
      BY <1>4, <2>2, <2>3
    <3>2. ~(k < Behind) /\ ~(Behind < k)
      BY <1>3, <2>2, <2>3, <3>1 DEF Falling
    <3> QED
      BY <1>4, <2>2, <2>3, <3>2
  <2>5. Behind \in Nat /\ Behind >= b
    BY <1>4, <2>2, <2>3, <2>4
  <2>6. ASSUME NEW d \in due, d[2] < cursor, NEW i \in DOMAIN q, q[i] = d[2] PROVE i > Behind
    <3>1. ~(q[i] > q[Behind]) /\ q[i] # q[Behind]
      BY <1>4, <2>3, <2>6
    <3>2. ~(i < Behind) /\ i # Behind
      BY <1>3, <2>3, <2>6, <3>1 DEF Falling
    <3> QED
      BY <1>4, <2>3, <2>6, <3>2
  <2>7. \A d \in due : Deeper(d) => d[2] < cursor
    BY <1>7 DEF Deeper
  <2> QED
    BY <1>7, <2>5, <2>6, <2>7 DEF q, b
<1> QED
  BY <1>5, <1>6, <1>7

\* One page: what the walk has to bring in is on it, or deeper, and where the walk
\* of a place ends nothing is deeper.
LEMMA FetchKeeps ==
    ASSUME OfficialInv, FetchPage PROVE OfficialInv'
<1> DEFINE q == messages[Here]
           b == Behind
           e == Behind + PageSize
           batch == Batch
           base == (pageNo - 1) * PageSize
           done == WalkEnds(Batch)
<1>1. /\ step = "posts" /\ places # <<>>
      /\ kept' = kept \cup ({Here} \X Above(batch))
      /\ IF done THEN /\ pageNo' = 1 /\ cursor' = 0
                      /\ LeavePlace \/ (step' = "comments" /\ UNCHANGED <<places, run>>)
         ELSE /\ pageNo' = pageNo + 1 /\ cursor' = Last(batch)
              /\ UNCHANGED <<step, places, run>>
      /\ UNCHANGED <<tick, messages, mark, floor, due>>
  BY DEF FetchPage, Store
<1>23. done => pageNo' = 1 /\ cursor' = 0
  BY DEF FetchPage
<1>2. PageSize \in Nat /\ PageSize # 0 /\ pageNo \in Nat /\ pageNo # 0
  BY OfficialIngestAssumption DEF OfficialInv, OfficialTyped
<1>3. Here \in Places /\ places \in Seq(Places)
  BY <1>1 DEF OfficialInv, OfficialTyped, Here
<1>4. q \in Seq(Instants) /\ Falling(q, tick)
  BY <1>3 DEF OfficialInv, OfficialTyped
<1>5. /\ b \in Nat /\ b >= base /\ (Here \in ApiSpaces => b = base)
      /\ \A d \in due : d[1] = Here /\ Deeper(d) =>
            \A i \in DOMAIN q : q[i] = d[2] => i > b
  BY <1>1, HowFar
<1>6. base \in Nat /\ pageNo * PageSize = base + PageSize /\ PageSize * pageNo = base + PageSize
      /\ \A p : p = pageNo + 1 => (p - 1) * PageSize = base + PageSize
  BY <1>2
<1>7. batch = Piece(q, b, e)
  BY DEF Batch, Piece
<1>8. e = b + PageSize
  OBVIOUS
<1>9. /\ Above(batch) # ToSet(batch) => done
      /\ done => \/ Above(batch) # ToSet(batch)
                 \/ Here \in ApiSpaces /\ (pageNo * PageSize >= Len(q) \/ pageNo = PageLimit)
                 \/ Here \in ApiRooms /\ (Len(batch) < PageSize \/ pageNo = BatchLimit)
      /\ ~done => /\ Here \in ApiSpaces => ~(pageNo * PageSize >= Len(q))
                  /\ Here \in ApiRooms => ~(Len(batch) < PageSize)
  BY DEF WalkEnds
<1>10. Above(batch) = {t \in ToSet(batch) : t > floor}
  BY DEF Above
<1>11. \A d \in due : d[1] = Here => d[2] \in ToSet(q) /\ d[2] > floor /\ d[2] \in Nat /\ d = <<Here, d[2]>>
  BY DEF OfficialInv, DueStands, Instants
<1>12. floor \in Nat
  BY DEF OfficialInv, OfficialTyped
<1>13. WithinLimit => /\ pageNo = PageLimit /\ Here \in ApiSpaces => Len(q) <= PageSize * pageNo
                      /\ pageNo = BatchLimit /\ Here \in ApiRooms => Len(q) <= PageSize * pageNo
  BY <1>2, <1>3, OfficialIngestAssumption DEF WithinLimit
<1> HIDE DEF q, b, e, batch, base, done
<1>14. e \in Nat /\ b < e
  BY <1>2, <1>5, <1>8
<1>15. /\ \A i \in DOMAIN q : b < i /\ i <= e => q[i] \in ToSet(batch)
       /\ \A t \in ToSet(batch) : \E j \in DOMAIN q : b < j /\ j <= e /\ q[j] = t
       /\ e <= Len(q) => Len(batch) = e - b /\ batch[e - b] = q[e]
       /\ Len(q) < e => Len(batch) < e - b
  <2>1. /\ \A i \in DOMAIN q : b < i /\ i <= e => q[i] \in ToSet(Piece(q, b, e))
        /\ \A t \in ToSet(Piece(q, b, e)) : \E j \in DOMAIN q : b < j /\ j <= e /\ q[j] = t
        /\ e <= Len(q) => Len(Piece(q, b, e)) = e - b /\ Piece(q, b, e)[e - b] = q[e]
        /\ Len(q) < e => Len(Piece(q, b, e)) < e - b
    BY <1>4, <1>5, <1>14, PageHolds, PageLength
  <2> QED
    BY <1>7, <2>1, Zenon
<1>16. DOMAIN q = 1 .. Len(q) /\ Len(q) \in Nat /\ \A i \in DOMAIN q : q[i] \in Nat /\ q[i] # 0
  BY <1>4 DEF Instants
<1>17. e - b = PageSize
  BY <1>2, <1>5, <1>8
<1>18. ASSUME NEW d \in due, d[1] = Here, NEW i \in DOMAIN q, q[i] = d[2], b < i, i <= e
       PROVE  d \in kept'
  <2>1. d[2] \in ToSet(batch)
    BY <1>15, <1>18
  <2>2. d[2] \in Above(batch) /\ d = <<Here, d[2]>>
    BY <1>10, <1>11, <1>18, <2>1
  <2> QED
    BY <1>1, <2>2
<1>19. DueStands'
  BY <1>1 DEF OfficialInv, DueStands
<1>20. WithinLimit' => WithinLimit
  BY <1>1 DEF WithinLimit
<1>21. CASE done
  <2>1. ASSUME WithinLimit, NEW d \in due PROVE d \in kept' \/ d[1] \in ToSet(Tail(places))
    <3>1. d \in kept \/ ToCome(d)
      BY <1>1, <2>1 DEF OfficialInv, NothingLost
    <3>2. CASE d \in kept
      BY <1>1, <3>2
    <3>3. CASE d[1] = Here /\ Deeper(d)
      <4>1. PICK i \in DOMAIN q : q[i] = d[2]
        BY <1>11, <3>3 DEF ToSet
      <4>2. i > b /\ i \in Nat /\ i <= Len(q)
        BY <1>5, <1>16, <3>3, <4>1
      <4>3. i <= e
        <5>1. CASE Above(batch) # ToSet(batch)
          <6>1. PICK t \in ToSet(batch) : ~(t > floor)
            BY <1>10, <5>1
          <6>2. PICK j \in DOMAIN q : b < j /\ j <= e /\ q[j] = t
            BY <1>15, <6>1
          <6>3. q[i] > q[j]
            BY <1>11, <1>12, <1>16, <3>3, <4>1, <6>1, <6>2
          <6>4. ~(j < i)
            <7>1. SUFFICES ASSUME j < i PROVE FALSE
              OBVIOUS
            <7>2. q[j] > q[i]
              BY <1>4, <7>1 DEF Falling
            <7> QED
              BY <1>16, <6>3, <7>2
          <6> QED
            BY <1>14, <1>16, <4>2, <6>2, <6>4
        <5>2. CASE Here \in ApiSpaces /\ pageNo * PageSize >= Len(q)
          BY <1>2, <1>5, <1>6, <1>8, <1>16, <4>2, <5>2
        <5>3. CASE Here \in ApiSpaces /\ pageNo = PageLimit
          <6>1. Len(q) <= PageSize * pageNo
            BY <1>13, <2>1, <5>3
          <6> QED
            BY <1>2, <1>5, <1>6, <1>8, <1>16, <4>2, <5>3, <6>1
        <5>4. CASE Here \in ApiRooms /\ Len(batch) < PageSize
          <6>1. ~(e <= Len(q))
            BY <1>2, <1>15, <1>17, <5>4
          <6> QED
            BY <1>14, <1>16, <4>2, <6>1
        <5>5. CASE Here \in ApiRooms /\ pageNo = BatchLimit
          <6>1. Len(q) <= PageSize * pageNo
            BY <1>13, <2>1, <5>5
          <6> QED
            BY <1>2, <1>5, <1>6, <1>8, <1>16, <4>2, <6>1
        <5> QED
          BY <1>9, <1>21, <5>1, <5>2, <5>3, <5>4, <5>5
      <4> QED
        BY <1>18, <3>3, <4>1, <4>2, <4>3
    <3> QED
      BY <3>1, <3>2, <3>3 DEF ToCome
  <2>2. CASE LeavePlace
    <3>1. pageNo' = 1 /\ cursor' = 0
      BY <1>21, <1>23
    <3> QED
      BY <1>1, <2>1, <2>2, <3>1, PlaceIsLeft
  <2>3. CASE step' = "comments" /\ UNCHANGED <<places, run>>
    <3>1. pageNo' = 1 /\ cursor' = 0
      BY <1>21, <1>23
    <3>2. OfficialTyped'
      BY <1>1, <2>3, <3>1 DEF OfficialInv, OfficialTyped
    <3>3. CursorStands'
      BY <2>3, <3>1 DEF CursorStands
    <3>4. NothingLost'
      BY <1>1, <1>20, <2>1, <2>3 DEF NothingLost, ToCome
    <3> QED
      BY <1>19, <3>2, <3>3, <3>4 DEF OfficialInv
  <2> QED
    BY <1>1, <1>21, <2>2, <2>3
<1>22. CASE ~done
  <2>1. /\ pageNo' = pageNo + 1 /\ cursor' = Last(batch)
        /\ UNCHANGED <<step, places, run, tick, messages, mark, floor, due>>
    BY <1>1, <1>22
  <2>2. e <= Len(q)
    <3>1. CASE Here \in ApiSpaces
      BY <1>2, <1>5, <1>6, <1>8, <1>9, <1>14, <1>16, <1>22, <3>1
    <3>2. CASE Here \in ApiRooms
      <4>1. ~(Len(batch) < PageSize)
        BY <1>9, <1>22, <3>2
      <4>2. ~(Len(q) < e)
        BY <1>15, <1>17, <4>1
      <4> QED
        BY <1>14, <1>16, <4>2
    <3> QED
      BY <1>3, <3>1, <3>2 DEF Places
  <2>3. cursor' = q[e] /\ e \in DOMAIN q
    <3>1. Len(batch) = e - b /\ batch[e - b] = q[e]
      BY <1>15, <2>2
    <3>2. Last(batch) = q[e]
      BY <3>1, Zenon DEF Last
    <3> QED
      BY <1>5, <1>14, <1>16, <2>1, <2>2, <3>2
  <2>4. cursor' \in Nat /\ cursor' # 0
    BY <1>16, <2>3
  <2>5. pageNo' \in Nat \ {0}
    BY <1>2, <2>1
  <2>6. OfficialTyped'
    BY <2>1, <2>4, <2>5 DEF OfficialInv, OfficialTyped
  <2>7. Here' = Here /\ messages'[Here] = q
    BY <2>1 DEF Here, q
  <2>8. (pageNo' - 1) * PageSize = base + PageSize
    BY <1>6, <2>1, Zenon
  <2>9. base + PageSize <= e
    BY <1>2, <1>5, <1>6, <1>8
  <2>10. CursorStands'
    <3>1. step' = "posts" /\ cursor' # 0
      BY <1>1, <2>1, <2>4
    <3>2. e >= (pageNo' - 1) * PageSize
      BY <1>2, <1>6, <1>14, <2>8, <2>9
    <3>3. \E i \in DOMAIN messages'[Here'] : messages'[Here'][i] = cursor' /\ i >= (pageNo' - 1) * PageSize
      BY <2>3, <2>7, <3>2
    <3> QED
      BY <3>1, <3>3 DEF CursorStands
  <2>11. ASSUME WithinLimit, NEW d \in due PROVE d \in kept' \/ ToCome(d)'
    <3>1. d \in kept \/ ToCome(d)
      BY <1>1, <2>11 DEF OfficialInv, NothingLost
    <3>2. CASE d \in kept
      BY <1>1, <3>2
    <3>3. CASE places # <<>> /\ d[1] \in ToSet(Tail(places))
      BY <2>1, <3>3 DEF ToCome
    <3>4. CASE places # <<>> /\ d[1] = Here /\ Deeper(d)
      <4>1. \A i \in DOMAIN q : q[i] = d[2] => i > b
        BY <1>5, <3>4
      <4>2. CASE \E i \in DOMAIN q : q[i] = d[2] /\ i <= e
        BY <1>18, <3>4, <4>1, <4>2
      <4>3. CASE \A i \in DOMAIN q : q[i] = d[2] => ~(i <= e)
        <5>1. \A i \in DOMAIN q : q[i] = d[2] => i > e
          BY <1>14, <1>16, <4>3
        <5>2. CASE Here \in ApiSpaces
          <6>1. (pageNo' - 1) * PageSize = e
            BY <1>2, <1>5, <1>6, <1>8, <2>8, <5>2
          <6>2. Deeper(d)'
            BY <2>7, <3>4, <5>1, <5>2, <6>1, Zenon DEF Deeper
          <6> QED
            BY <1>1, <2>1, <2>7, <3>4, <6>2 DEF ToCome
        <5>3. CASE Here \notin ApiSpaces
          <6>1. PICK i \in DOMAIN q : q[i] = d[2]
            BY <1>11, <3>4 DEF ToSet
          <6>2. i > e
            BY <5>1, <6>1
          <6>3. q[e] > q[i]
            BY <1>4, <1>16, <2>3, <6>2 DEF Falling
          <6>4. d[2] < cursor'
            BY <1>16, <2>3, <6>1, <6>3
          <6>5. Deeper(d)'
            BY <2>1, <2>7, <5>3, <6>4 DEF Deeper
          <6> QED
            BY <1>1, <2>1, <2>7, <3>4, <6>5 DEF ToCome
        <5> QED
          BY <5>2, <5>3
      <4> QED
        BY <4>2, <4>3
    <3> QED
      BY <3>1, <3>2, <3>3, <3>4 DEF ToCome
  <2>12. NothingLost'
    BY <1>1, <1>20, <2>1, <2>11 DEF NothingLost
  <2> QED
    BY <1>19, <2>6, <2>10, <2>12 DEF OfficialInv
<1> QED
  BY <1>21, <1>22

\* OfficialInv is inductive.
LEMMA OfficialKeeps == OfficialInv /\ [OfficialNext]_officialVars => OfficialInv'
<1> SUFFICES ASSUME OfficialInv, [OfficialNext]_officialVars PROVE OfficialInv'
  OBVIOUS
<1>1. CASE UNCHANGED officialVars
  BY <1>1, WalkStands DEF officialVars, walkVars
<1>2. CASE OfficialNext
  BY <1>2, MessageKeeps, IngestTickKeeps, IngestBeginKeeps, ListKeeps, OddKeeps, RestOfWalk,
     FetchKeeps DEF OfficialNext, IngestNext
<1> QED
  BY <1>1, <1>2

-----------------------------------------------------------------------------
(* The watermark, over runs and over its other writers.                    *)

\* The watermark a run works above is not newer than the community's.
MarksAgree == mark <= tick /\ floor <= mark

MarkInv == MarksAgree /\ MarkMeansKept

\* A step that leaves the messages and the watermark where they are forgets
\* nothing of what was stored.
LEMMA MarkStands ==
    ASSUME MarkInv, UNCHANGED <<tick, messages, mark, floor>>,
           kept \subseteq kept', over \subseteq over'
    PROVE  MarkInv'
<1>1. Standing' = Standing /\ (WithinLimit' => WithinLimit)
  BY DEF Standing, WithinLimit
<1> QED
  BY <1>1 DEF MarkInv, MarksAgree, MarkMeansKept

\* A message that arrives is newer than the watermark.
LEMMA MarkUnderMessage ==
    ASSUME OfficialInv, MarkInv, NEW s \in Places, MessagePosted(s) PROVE MarkInv'
<1>1. UNCHANGED <<tick, mark, kept, floor, over>> /\ tick > mark
  BY DEF MessagePosted, walkVars
<1>2. WithinLimit' => WithinLimit
  BY MessageKeeps
<1>3. tick \in Nat /\ mark \in Nat
  BY DEF OfficialInv, OfficialTyped, Instants
<1>4. ASSUME NEW d \in Standing', d[2] <= mark PROVE d \in Standing
  <2>1. PICK p \in ToSet(Order) : \E t \in ToSet(messages'[p]) : d = <<p, t>>
    BY DEF Standing
  <2> PICK t \in ToSet(messages'[p]) : d = <<p, t>>
    BY <2>1
  <2>2. p \in Places /\ t # tick
    BY <1>1, <1>3, <1>4, OrderIsOfPlaces DEF ToSet
  <2>3. t \in ToSet(messages[p])
    <3>1. CASE p # s
      BY <2>1, <2>2, <3>1 DEF MessagePosted, OfficialInv, OfficialTyped
    <3>2. CASE p = s
      <4> DEFINE q == messages[s]
      <4>1. q \in Seq(Instants) /\ tick \in Instants
        BY DEF OfficialInv, OfficialTyped
      <4>2. messages'[p] = <<tick>> \o q
        BY <3>2 DEF MessagePosted, OfficialInv, OfficialTyped
      <4> HIDE DEF q
      <4>3. ToSet(<<tick>> \o q) \subseteq {tick} \cup ToSet(q)
        BY <4>1 DEF ToSet
      <4> QED
        BY <2>1, <2>2, <3>2, <4>2, <4>3 DEF q
    <3> QED
      BY <3>1, <3>2
  <2> QED
    BY <2>1, <2>3 DEF Standing
<1> QED
  BY <1>1, <1>2, <1>4 DEF MarkInv, MarksAgree, MarkMeansKept

\* A run that completes has kept what was due, and what is neither due nor old
\* came in while it was under way.
LEMMA MarkUnderFinish ==
    ASSUME OfficialInv, MarkInv, FinishRun PROVE MarkInv'
<1>1. UNCHANGED <<tick, messages, kept, floor>> /\ step = "finish"
  BY DEF FinishRun
<1>2. tick \in Nat /\ mark \in Nat /\ floor \in Nat
  BY DEF OfficialInv, OfficialTyped, Instants
<1>3. CASE run # "complete"
  BY <1>1, <1>3, MarkStands DEF FinishRun
<1>4. CASE run = "complete"
  <2>1. mark' = tick /\ over' = over \cup Late
    BY <1>4 DEF FinishRun
  <2>2. MarksAgree'
    BY <1>1, <1>2, <2>1 DEF MarkInv, MarksAgree
  <2>3. ASSUME WithinLimit', NEW d \in Standing' PROVE d \in kept' \cup over'
    <3>1. WithinLimit /\ d \in Standing
      BY <1>1, <2>3 DEF WithinLimit, Standing
    <3>2. CASE d \in due
      BY <1>1, <1>4, <3>1, <3>2 DEF OfficialInv, NothingLost
    <3>3. CASE d \notin due /\ d[2] > floor
      BY <2>1, <3>1, <3>3 DEF Late
    <3>4. CASE ~(d[2] > floor)
      <4>1. d[2] \in Nat
        <5>1. PICK p \in ToSet(Order) : \E t \in ToSet(messages[p]) : d = <<p, t>>
          BY <3>1 DEF Standing
        <5>2. p \in Places
          BY OrderIsOfPlaces DEF ToSet
        <5>3. messages[p] \in Seq(Instants)
          BY <5>2 DEF OfficialInv, OfficialTyped
        <5> QED
          BY <5>1, <5>3 DEF ToSet, Instants
      <4>2. d[2] <= mark
        BY <1>2, <3>4, <4>1 DEF MarkInv, MarksAgree
      <4> QED
        BY <1>1, <2>1, <3>1, <4>2 DEF MarkInv, MarkMeansKept
    <3> QED
      BY <3>2, <3>3, <3>4
  <2> QED
    BY <2>2, <2>3 DEF MarkInv, MarkMeansKept
<1> QED
  BY <1>3, <1>4

\* MarkInv is inductive relative to OfficialInv.
LEMMA MarkKeeps ==
    ASSUME OfficialInv, MarkInv, [OfficialNext]_officialVars PROVE MarkInv'
<1>1. tick \in Nat /\ mark \in Nat
  BY DEF OfficialInv, OfficialTyped, Instants
<1>2. CASE OtherReaderStamps
  <2>1. /\ UNCHANGED <<tick, messages, kept, floor>>
        /\ mark' = tick /\ over' = over \cup (Standing \ kept)
    BY <1>2 DEF OtherReaderStamps, walkVars
  <2>2. Standing' = Standing
    BY <2>1 DEF Standing
  <2>3. floor \in Nat
    BY DEF OfficialInv, OfficialTyped
  <2> QED
    BY <1>1, <2>1, <2>2, <2>3 DEF MarkInv, MarksAgree, MarkMeansKept
<1>3. CASE TimePasses
  <2>1. UNCHANGED <<messages, mark, kept, floor, over>> /\ tick' = tick + 1
    BY <1>3 DEF TimePasses, walkVars
  <2>2. Standing' = Standing /\ WithinLimit' = WithinLimit
    BY <2>1 DEF Standing, WithinLimit
  <2> QED
    BY <1>1, <2>1, <2>2 DEF MarkInv, MarksAgree, MarkMeansKept
<1>4. CASE \E b \in BOOLEAN : IngestBegins(b)
  <2>1. UNCHANGED <<tick, messages, mark, kept, over>> /\ floor' \in {mark, 0}
    BY <1>4 DEF IngestBegins
  <2>2. Standing' = Standing /\ WithinLimit' = WithinLimit
    BY <2>1 DEF Standing, WithinLimit
  <2> QED
    BY <1>1, <2>1, <2>2 DEF MarkInv, MarksAgree, MarkMeansKept
<1>5. CASE \/ OutOfBudget \/ MintFails \/ Retries \/ Refused \/ ListPlaces \/ FetchPage
           \/ FetchComments \/ IngestKilled \/ UNCHANGED officialVars
  <2>1. UNCHANGED <<tick, messages, mark, floor, over>> /\ kept \subseteq kept'
    BY <1>5 DEF OutOfBudget, MintFails, Retries, Refused, Fails, ListPlaces, FetchPage, Store,
         FetchComments, IngestKilled, officialVars, walkVars
  <2> QED
    BY <2>1, MarkStands
<1> QED
  BY <1>2, <1>3, <1>4, <1>5, MarkUnderMessage, MarkUnderFinish DEF OfficialNext, IngestNext

\* Over any number of runs, each message of an approved place that is not newer
\* than the watermark is stored, unless another reader's stamp went over it or it
\* came in during a run that completed: for any places, page size and limits,
\* however messages arrive during the walk, and whenever a harvest or a scan
\* stamps the community (ingest_community, pipeline.py 250-285; paginate and
\* paginate_chat_messages; _mark_synced, harvest.py 659-664).
THEOREM MarkedIsKept == OfficialSpec => []MarkMeansKept
<1>1. OfficialInit => MarkInv
  <2>1. SUFFICES ASSUME OfficialInit PROVE MarkInv
    OBVIOUS
  <2>2. Standing = {}
    <3>1. \A p \in ToSet(Order) : messages[p] = <<>>
      BY <2>1, OrderIsOfPlaces DEF OfficialInit, ToSet
    <3> QED
      BY <3>1 DEF Standing, ToSet
  <2> QED
    BY <2>1, <2>2 DEF OfficialInit, MarkInv, MarksAgree, MarkMeansKept
<1>2. OfficialInv /\ MarkInv /\ [OfficialNext]_officialVars => OfficialInv' /\ MarkInv'
  BY OfficialKeeps, MarkKeeps
<1>3. OfficialSpec => [](OfficialInv /\ MarkInv)
  BY <1>1, <1>2, OfficialStart, PTL DEF OfficialSpec
<1> QED
  BY <1>3, PTL DEF MarkInv

-----------------------------------------------------------------------------
(* The read as a member, as long as a scan takes no longer than the overlap. *)
(* WindowIsCovered is not inductive: the window is made of stamps a scan     *)
(* writes at its end, from what it found at its start and read between.  The *)
(* strengthening says what a scan has covered so far, and what the stamps    *)
(* would cover if a session's check made them count.                         *)

USE DEF Rows

\* No stamp and no window lies in the future, and a scan takes MaxScan at most.
StampsArePast ==
    /\ \A p \in posts : p.at <= now
    /\ conn # NoRow /\ conn.lastSync # Never => conn.lastSync <= now
    /\ worker.since # Never => worker.since <= now
    /\ Scanning => worker.began <= now /\ now - worker.began <= MaxScan

\* The stamps cover all but what the last failed scan did not get to.
StampsAreCovered ==
    conn # NoRow /\ conn.lastSync # Never =>
        Covered(conn.lastSync - Overlap, passedOver \cup missed)

\* The window of the scan in progress is covered,
ScanIsCovered == worker.pc = "reading" => Covered(worker.since, passedOver)

\* and the spaces it has read are, up to its beginning and as far as its pages go.
GotIsRead ==
    IF worker.pc = "reading"
    THEN \A p \in posts :
            p.space \in worker.got /\ p.at < worker.began =>
                p \in read \cup beyond \/ (worker.since # Never /\ p.at < worker.since)
    ELSE worker.got = {}

ScanInv ==
    /\ TypeOK /\ StampsArePast /\ StampsAreCovered /\ ScanIsCovered /\ GotIsRead
    /\ WindowIsCovered

-----------------------------------------------------------------------------
(* Types.                                                                  *)

LEMMA RescanSinceType ==
    ASSUME TypeOK
    PROVE  RescanSince \in Windows
<1>1. conn # NoRow => conn.lastSync \in Nat \cup {Never}
  BY DEF TypeOK, Times
<1> QED
  BY <1>1, ScanAssumption DEF RescanSince, Windows

LEMMA StepsKeepType == TypeOK /\ [Next]_vars => TypeOK'
<1> SUFFICES ASSUME TypeOK, [Next]_vars PROVE TypeOK'
  OBVIOUS
<1> USE DEF TypeOK
<1>1. CASE UNCHANGED vars
  BY <1>1 DEF vars, data, history
<1>2. ASSUME NEW p \in Keepers, NEW c \in Cookies, NEW check \in Checks,
             StoreSession(p, c, check)
      PROVE  TypeOK'
  BY <1>2 DEF StoreSession, Spend, data, history
<1>3. ASSUME NEW p \in Keepers, ConnectHost(p) PROVE TypeOK'
  BY <1>3 DEF ConnectHost, StoringStep, NewRow, NotStoring, States, Checks, data, history
<1>4. ASSUME NEW p \in Keepers, ApplyCheck(p) PROVE TypeOK'
  <2>1. CheckState(keeper[p].check) \in States
    BY DEF CheckState, States
  <2>2. conn' \in Rows \cup {NoRow}
    BY <1>4, <2>1 DEF ApplyCheck
  <2>3. passedOver' \subseteq Spaces
    BY <1>4 DEF ApplyCheck
  <2>4. keeper' \in [Keepers -> [pc : {"idle", "stored", "connected", "applied"},
                                 cookie : Cookies \cup {NoCookie},
                                 check : Checks]]
    BY <1>4 DEF ApplyCheck, StoringStep
  <2>5. UNCHANGED <<now, session, job, worker, removal, counts, posts, read, missed,
                    beyond>>
    BY <1>4 DEF ApplyCheck, data
  <2> QED
    BY <2>2, <2>3, <2>4, <2>5
<1>5. ASSUME NEW p \in Keepers, QueueRead(p) PROVE TypeOK'
  BY <1>5 DEF QueueRead, EnqueueScan, NotStoring, Checks, data, history
<1>6. CASE ScanNow
  BY <1>6 DEF ScanNow, Click, Spend, EnqueueScan, data, history
<1>7. CASE ClearSession
  BY <1>7 DEF ClearSession, Click, Spend, data, history
<1>8. CASE RemoveRow
  BY <1>8 DEF RemoveRow, Click, Spend, data, history
<1>9. ASSUME NEW paused \in BOOLEAN, SetPriority(paused) PROVE TypeOK'
  <2> DEFINE row == IF conn = NoRow THEN NewRow ELSE conn
  <2>1. row \in Rows
    BY DEF NewRow, States
  <2>2. conn' = [row EXCEPT !.paused = paused]
    BY <1>9 DEF SetPriority
  <2>3. conn' \in Rows
    BY <2>1, <2>2
  <2>4. counts' \in [{"posts", "stores", "events"} -> Nat]
    BY <1>9 DEF SetPriority, Click, Spend
  <2>5. UNCHANGED <<now, session, job, worker, keeper, removal, posts, read, missed,
                    passedOver, beyond>>
    BY <1>9 DEF SetPriority, data, history
  <2> QED
    BY <2>3, <2>4, <2>5
<1>10. CASE RemoveSession
  BY <1>10 DEF RemoveSession, data, history
<1>11. CASE TakeJob
  BY <1>11 DEF TakeJob, Resting, Windows, Times, data, history
<1>12. CASE StartPass
  BY <1>12 DEF StartPass, Resting, Windows, Times, data, history
<1>13. CASE LoadCookies
  BY <1>13 DEF LoadCookies, data, history
<1>14. CASE FindWindow
  BY <1>14, RescanSinceType DEF FindWindow, data, history
<1>15. ASSUME NEW s \in Spaces, ReadSpace(s) PROVE TypeOK'
  <2>1. InWindow(s) \subseteq Posts
    BY DEF InWindow
  <2>2. beyond' = (beyond \cup InWindow(s)) \ read'
    BY <1>15 DEF ReadSpace
  <2>3. read' \subseteq Posts
    BY <1>15, <2>1 DEF ReadSpace, Newest
  <2> QED
    BY <1>15, <2>1, <2>2, <2>3 DEF ReadSpace
<1>16. ASSUME NEW s \in Spaces, SkipSpace(s) PROVE TypeOK'
  BY <1>16 DEF SkipSpace, data, history
<1>17. ASSUME NEW state \in {"connected", "error"}, NEW capped \in BOOLEAN,
              NEW counted \in BOOLEAN,
              SaveScan(state, capped, counted)
       PROVE  TypeOK'
  BY <1>17 DEF SaveScan, StillReadable, NewRow, Resting, States, Windows, Times, data
<1>18. CASE WorkerDies
  BY <1>18 DEF WorkerDies, Spend, Resting, Windows, Times, data, history
<1>19. CASE Tick
  BY <1>19 DEF Tick, Times, data, history
<1>20. ASSUME NEW s \in Spaces, Publish(s) PROVE TypeOK'
  BY <1>20 DEF Publish, Spend, Posts, history
<1> QED
  BY <1>1, <1>2, <1>3, <1>4, <1>5, <1>6, <1>7, <1>8, <1>9, <1>10, <1>11, <1>12,
     <1>13, <1>14, <1>15, <1>16, <1>17, <1>18, <1>19, <1>20
  DEF Next, Storing, Clicking, Working, World
-----------------------------------------------------------------------------
(* Most actions leave alone what the invariant is about: the row keeps its *)
(* stamps and what they count for, or loses them, and the scan is where it *)
(* was, or is given up.                                                    *)

RowKept ==
    \/ conn' = conn
    \/ conn' = NoRow
    \/ conn'.lastSync = Never
    \/ /\ conn # NoRow
       /\ conn'.lastSync = conn.lastSync /\ conn'.readable = conn.readable
       /\ conn'.state = "connected" => conn.state = "connected"

ScanKept ==
    \/ worker' = worker
    \/ /\ worker'.pc \in {"idle", "starting"}
       /\ worker'.since = Never /\ worker'.got = {}

Quiet ==
    /\ RowKept /\ ScanKept
    /\ UNCHANGED <<now, posts, read, missed, passedOver, beyond>>

LEMMA RescanKept ==
    ASSUME RowKept PROVE RescanSince' = Never \/ RescanSince' = RescanSince
BY DEF RowKept, RescanSince

LEMMA QuietKeepsInv ==
    ASSUME ScanInv, Quiet, TypeOK' PROVE ScanInv'
<1> USE DEF Quiet
<1>1. StampsArePast'
  BY DEF ScanInv, StampsArePast, RowKept, ScanKept, Scanning
<1>2. StampsAreCovered'
  BY DEF ScanInv, StampsAreCovered, RowKept, Covered
<1>3. ScanIsCovered' /\ GotIsRead'
  BY DEF ScanInv, ScanIsCovered, GotIsRead, ScanKept, Covered
<1>4. WindowIsCovered'
  BY RescanKept DEF ScanInv, WindowIsCovered, Covered
<1> QED
  BY <1>1, <1>2, <1>3, <1>4 DEF ScanInv

LEMMA TickKeepsInv ==
    ASSUME ScanInv, Tick, TypeOK' PROVE ScanInv'
<1> USE DEF Tick, data, history
<1>1. StampsArePast'
  <2>1. now \in Nat /\ now' = now + 1 /\ MaxScan \in Nat
    BY ScanAssumption DEF ScanInv, TypeOK, Times
  <2>2. \A p \in posts' : p.at <= now'
    BY <2>1 DEF ScanInv, StampsArePast, TypeOK, Posts, Times
  <2>3. (conn # NoRow /\ conn.lastSync # Never => conn.lastSync <= now)'
    BY <2>1 DEF ScanInv, StampsArePast, TypeOK, Times
  <2>4. (worker.since # Never => worker.since <= now)'
    BY <2>1 DEF ScanInv, StampsArePast, TypeOK, Windows
  <2>5. (Scanning => worker.began <= now /\ now - worker.began <= MaxScan)'
    BY <2>1 DEF ScanInv, StampsArePast, TypeOK, Times, Scanning
  <2> QED
    BY <2>2, <2>3, <2>4, <2>5 DEF StampsArePast
<1>2. StampsAreCovered' /\ ScanIsCovered' /\ GotIsRead' /\ WindowIsCovered'
  BY DEF ScanInv, StampsAreCovered, ScanIsCovered, GotIsRead, WindowIsCovered, Covered,
         RescanSince
<1> QED
  BY <1>1, <1>2 DEF ScanInv

\* A post published now is newer than any stamp, window or beginning.
LEMMA PublishKeepsInv ==
    ASSUME ScanInv, NEW s \in Spaces, Publish(s), TypeOK' PROVE ScanInv'
<1>1. \A p \in posts' : p \in posts \/ p.at = now
  BY DEF Publish
<1>2. UNCHANGED <<now, conn, worker, read, missed, passedOver, beyond>>
  BY DEF Publish, history
<1>3. now \in Nat /\ Overlap \in Nat
  BY ScanAssumption DEF ScanInv, TypeOK, Times
<1>4. StampsArePast'
  BY <1>1, <1>2, <1>3 DEF ScanInv, StampsArePast, Scanning
<1>5. conn # NoRow /\ conn.lastSync # Never => ~ (now < conn.lastSync - Overlap)
  BY <1>3 DEF ScanInv, StampsArePast, TypeOK, Times
<1>6. StampsAreCovered'
  BY <1>1, <1>2, <1>5 DEF ScanInv, StampsAreCovered, Covered
<1>7. worker.since # Never => ~ (now < worker.since)
  BY <1>3 DEF ScanInv, StampsArePast, TypeOK, Windows
<1>8. ScanIsCovered'
  BY <1>1, <1>2, <1>7 DEF ScanInv, ScanIsCovered, Covered
<1>9. worker.pc = "reading" => ~ (now < worker.began)
  BY <1>3 DEF ScanInv, StampsArePast, Scanning, TypeOK, Times
<1>10. GotIsRead'
  BY <1>1, <1>2, <1>9 DEF ScanInv, GotIsRead
<1>11. WindowIsCovered'
  BY <1>1, <1>2, <1>5 DEF ScanInv, WindowIsCovered, RescanSince, Covered
<1> QED
  BY <1>4, <1>6, <1>8, <1>10, <1>11 DEF ScanInv

-----------------------------------------------------------------------------
(* The steps of a scan, and a session's check.                             *)

LEMMA BeginningKeepsInv ==
    ASSUME ScanInv, LoadCookies \/ FindWindow, TypeOK' PROVE ScanInv'
<1>1. UNCHANGED <<now, conn, posts, read, missed, passedOver, beyond>>
  BY DEF LoadCookies, FindWindow, data, history
<1>2. now \in Nat /\ MaxScan \in Nat /\ Overlap \in Nat
  BY ScanAssumption DEF ScanInv, TypeOK, Times
<1>3. StampsAreCovered' /\ WindowIsCovered'
  BY <1>1 DEF ScanInv, StampsAreCovered, WindowIsCovered, RescanSince, Covered
<1>4. CASE LoadCookies
  <2>1. worker' = [worker EXCEPT !.pc = "windowing", !.cookie = session, !.began = now]
    BY <1>4 DEF LoadCookies
  <2>2. /\ worker'.pc = "windowing" /\ worker'.began = now
        /\ worker'.since = worker.since /\ worker'.got = worker.got
    BY <2>1 DEF ScanInv, TypeOK
  <2>3. StampsArePast'
    BY <1>1, <1>2, <2>2 DEF ScanInv, StampsArePast, Scanning
  <2> QED
    BY <1>3, <1>4, <2>2, <2>3 DEF ScanInv, ScanIsCovered, GotIsRead, LoadCookies
<1>5. CASE FindWindow
  <2>1. /\ worker.pc = "windowing"
        /\ worker' = [worker EXCEPT !.pc = "reading", !.since = RescanSince,
                                   !.left = Spaces]
    BY <1>5 DEF FindWindow
  <2>2. /\ worker'.since = RescanSince /\ worker'.began = worker.began
        /\ worker'.got = worker.got
    BY <2>1 DEF ScanInv, TypeOK
  <2>3. RescanSince # Never => RescanSince <= now
    BY <1>2 DEF RescanSince, ScanInv, StampsArePast, TypeOK, Times
  <2>4. StampsArePast'
    BY <1>1, <2>1, <2>2, <2>3 DEF ScanInv, StampsArePast, Scanning
  <2>5. ScanIsCovered'
    BY <1>1, <2>2 DEF ScanInv, WindowIsCovered, ScanIsCovered, Covered
  <2>6. GotIsRead'
    BY <1>1, <2>1, <2>2 DEF ScanInv, GotIsRead
  <2> QED
    BY <1>3, <2>4, <2>5, <2>6 DEF ScanInv
<1> QED
  BY <1>4, <1>5

\* What a window shows of a space and what is older than the window is all of it.
LEMMA WindowOrOlder ==
    ASSUME TypeOK, NEW s \in Spaces, NEW p \in posts, p.space = s
    PROVE  p \in InWindow(s) \/ (worker.since # Never /\ p.at < worker.since)
<1>1. p.at \in Nat
  BY DEF TypeOK, Posts, Times
<1>2. worker.since = Never \/ worker.since \in Int
  BY DEF TypeOK, Windows
<1> QED
  BY <1>1, <1>2 DEF InWindow

LEMMA ReadSpaceKeepsInv ==
    ASSUME ScanInv, NEW s \in Spaces, ReadSpace(s), TypeOK' PROVE ScanInv'
<1> DEFINE shown == InWindow(s)
<1>1. /\ UNCHANGED <<now, conn, posts, missed>>
      /\ worker.pc = "reading"
      /\ beyond' = (beyond \cup shown) \ read' /\ read \subseteq read'
      /\ read' \subseteq read \cup shown
  BY DEF ReadSpace, Newest
<1>2. /\ worker'.pc = worker.pc /\ worker'.since = worker.since
      /\ worker'.began = worker.began /\ worker'.got = worker.got \cup {s}
  BY DEF ScanInv, TypeOK, ReadSpace
<1>3. \A p \in posts : p.space = s =>
          p \in shown \/ (worker.since # Never /\ p.at < worker.since)
  BY WindowOrOlder DEF ScanInv
<1>4. passedOver' = passedOver
        \/ (worker.since = Never /\ passedOver' = passedOver \ {s})
  BY DEF ReadSpace
<1> HIDE DEF shown
<1>5. StampsArePast'
  BY <1>1, <1>2 DEF ScanInv, StampsArePast, Scanning
<1>6. StampsAreCovered'
  BY <1>1, <1>3, <1>4 DEF ScanInv, StampsAreCovered, Covered
<1>7. ScanIsCovered'
  BY <1>1, <1>2, <1>4 DEF ScanInv, ScanIsCovered, Covered
<1>8. GotIsRead'
  BY <1>1, <1>2, <1>3 DEF ScanInv, GotIsRead
<1>9. RescanSince' = RescanSince
  BY <1>1 DEF RescanSince
<1>10. WindowIsCovered'
  BY <1>1, <1>3, <1>4, <1>9 DEF ScanInv, WindowIsCovered, Covered
<1> QED
  BY <1>5, <1>6, <1>7, <1>8, <1>10 DEF ScanInv

LEMMA SkipSpaceKeepsInv ==
    ASSUME ScanInv, NEW s \in Spaces, SkipSpace(s), TypeOK' PROVE ScanInv'
<1>1. UNCHANGED <<now, conn, posts, read, missed, passedOver, beyond>>
  BY DEF SkipSpace, data, history
<1>2. /\ worker'.pc = worker.pc /\ worker'.since = worker.since
      /\ worker'.began = worker.began /\ worker'.got = worker.got
  BY DEF ScanInv, TypeOK, SkipSpace
<1> QED
  BY <1>1, <1>2 DEF ScanInv, StampsArePast, Scanning, StampsAreCovered, ScanIsCovered,
     GotIsRead, WindowIsCovered, RescanSince, Covered

\* A scan that ends, well or not, has everything older than its overlap behind
\* it, except in the spaces it did not get to.
LEMMA SaveScanKeepsInv ==
    ASSUME ScanInv, NEW state \in {"connected", "error"}, NEW capped \in BOOLEAN,
           NEW counted \in BOOLEAN,
           SaveScan(state, capped, counted), TypeOK'
    PROVE  ScanInv'
<1> DEFINE behind == passedOver \cup (Spaces \ worker.got)
<1>1. /\ worker.pc = "reading" /\ worker' = Resting
      /\ UNCHANGED <<now, posts, read, beyond>>
  BY DEF SaveScan, data
<1>2. conn' # NoRow => conn'.lastSync = now
  <2> DEFINE row == IF conn = NoRow THEN NewRow ELSE conn
  <2>1. row \in Rows
    BY DEF ScanInv, TypeOK, NewRow, States
  <2>2. conn' = [row EXCEPT !.state = state, !.lastSync = now,
                            !.readable = counted \/ StillReadable(row, state, capped)]
    BY DEF SaveScan
  <2> QED
    BY <2>1, <2>2
<1>3. passedOver' \cup missed' = behind
  BY DEF SaveScan
<1>4. now - Overlap <= worker.began
  BY <1>1, ScanAssumption, ScansAreShort
  DEF ScanInv, TypeOK, Times, StampsArePast, Scanning
<1>5. Covered(now - Overlap, behind)
  <2> SUFFICES ASSUME NEW p \in posts, p.at < now - Overlap, p.space \notin behind
               PROVE  p \in read \cup beyond
    BY DEF Covered
  <2>1. p.at \in Nat /\ p.space \in Spaces /\ now \in Nat /\ worker.began \in Nat
    BY DEF ScanInv, TypeOK, Posts, Times
  <2>2. p.at < worker.began
    BY <1>4, <2>1, ScanAssumption
  <2>3. p \in read \cup beyond \/ (worker.since # Never /\ p.at < worker.since)
    BY <1>1, <2>1, <2>2 DEF ScanInv, GotIsRead
  <2> QED
    BY <1>1, <2>3 DEF ScanInv, ScanIsCovered, Covered
<1>6. StampsArePast'
  BY <1>1, <1>2 DEF ScanInv, TypeOK, Times, StampsArePast, Scanning, Resting
<1>7. StampsAreCovered'
  BY <1>1, <1>2, <1>3, <1>5 DEF StampsAreCovered, Covered
<1>8. ScanIsCovered' /\ GotIsRead'
  BY <1>1 DEF ScanIsCovered, GotIsRead, Resting
<1>9. WindowIsCovered'
  <2>1. CASE state = "connected"
    <3>1. passedOver' = behind
      BY <2>1 DEF SaveScan
    <3>2. RescanSince' = Never \/ RescanSince' = now - Overlap
      BY <1>2 DEF RescanSince
    <3> QED
      BY <1>1, <1>5, <3>1, <3>2 DEF WindowIsCovered, Covered
  <2>2. CASE state = "error"
    <3>1. conn' # NoRow => conn'.state = "error"
      BY <2>2 DEF SaveScan, ScanInv, TypeOK, NewRow
    <3>2. RescanSince' = Never
      BY <3>1 DEF RescanSince
    <3> QED
      BY <3>2 DEF WindowIsCovered, Covered
  <2> QED
    BY <2>1, <2>2
<1> QED
  BY <1>6, <1>7, <1>8, <1>9 DEF ScanInv

\* A check that makes old stamps count puts what the failed scan missed behind.
LEMMA ApplyCheckKeepsInv ==
    ASSUME ScanInv, NEW p \in Keepers, ApplyCheck(p), TypeOK' PROVE ScanInv'
<1>1. CASE conn = NoRow
  <2>1. Quiet
    BY <1>1 DEF ApplyCheck, Quiet, RowKept, ScanKept, data
  <2> QED
    BY <2>1, QuietKeepsInv
<1>2. CASE conn # NoRow
  <2> DEFINE check == keeper[p].check
  <2>1. /\ UNCHANGED <<now, worker, posts, read, missed, beyond>>
        /\ conn' = [conn EXCEPT !.state = CheckState(check)]
        /\ passedOver' = IF check = "valid" THEN passedOver \cup missed ELSE passedOver
    BY <1>2 DEF ApplyCheck, data
  <2>2. /\ conn'.lastSync = conn.lastSync
        /\ conn'.state = CheckState(check)
    BY <1>2, <2>1 DEF ScanInv, TypeOK
  <2>3. CheckState(check) = "connected" => check = "valid"
    BY DEF CheckState
  <2> HIDE DEF check
  <2>4. StampsArePast'
    BY <1>2, <2>1, <2>2 DEF ScanInv, StampsArePast, Scanning
  <2>5. passedOver \subseteq passedOver'
    BY <2>1
  <2>6. StampsAreCovered'
    BY <1>2, <2>1, <2>2, <2>5 DEF ScanInv, StampsAreCovered, Covered
  <2>7. ScanIsCovered' /\ GotIsRead'
    BY <2>1, <2>5 DEF ScanInv, ScanIsCovered, GotIsRead, Covered
  <2>8. CASE check = "valid"
    <3>1. passedOver' = passedOver \cup missed
      BY <2>1, <2>8
    <3>2. RescanSince' = Never
            \/ (conn.lastSync # Never /\ RescanSince' = conn.lastSync - Overlap)
      BY <2>2 DEF RescanSince
    <3>3. WindowIsCovered'
      BY <1>2, <2>1, <3>1, <3>2 DEF ScanInv, StampsAreCovered, WindowIsCovered, Covered
    <3> QED
      BY <2>4, <2>6, <2>7, <3>3 DEF ScanInv
  <2>9. CASE check # "valid"
    <3>1. RescanSince' = Never
      BY <2>2, <2>3, <2>9 DEF RescanSince
    <3>2. WindowIsCovered'
      BY <3>1 DEF WindowIsCovered, Covered
    <3> QED
      BY <2>4, <2>6, <2>7, <3>2 DEF ScanInv
  <2> QED
    BY <2>8, <2>9
<1> QED
  BY <1>1, <1>2

\* The rest leaves the scan's stamps alone, or gives the scan or the row up.
LEMMA OthersAreQuiet ==
    ASSUME TypeOK, Next,
           ~ Tick, \A s \in Spaces : ~ Publish(s) /\ ~ ReadSpace(s) /\ ~ SkipSpace(s),
           ~ LoadCookies, ~ FindWindow, \A p \in Keepers : ~ ApplyCheck(p),
           \A state \in {"connected", "error"}, capped, counted \in BOOLEAN :
               ~ SaveScan(state, capped, counted)
    PROVE  Quiet
<1> USE DEF Quiet, RowKept, ScanKept
<1>1. ASSUME NEW p \in Keepers, NEW c \in Cookies, NEW check \in Checks,
             StoreSession(p, c, check)
      PROVE  Quiet
  BY <1>1 DEF StoreSession, data, history
<1>2. ASSUME NEW p \in Keepers, ConnectHost(p) PROVE Quiet
  BY <1>2 DEF ConnectHost, NewRow, data, history
<1>3. ASSUME NEW p \in Keepers, QueueRead(p) PROVE Quiet
  BY <1>3 DEF QueueRead, data, history
<1>4. CASE ScanNow \/ ClearSession \/ RemoveRow \/ RemoveSession
  BY <1>4 DEF ScanNow, ClearSession, RemoveRow, RemoveSession, data, history
<1>5. ASSUME NEW paused \in BOOLEAN, SetPriority(paused) PROVE Quiet
  <2>1. CASE conn = NoRow
    BY <1>5, <2>1 DEF SetPriority, NewRow, data, history
  <2>2. CASE conn # NoRow
    <3>1. /\ conn' = [conn EXCEPT !.paused = paused]
          /\ UNCHANGED <<now, worker, posts, read, missed, passedOver, beyond>>
      BY <1>5, <2>2 DEF SetPriority, data, history
    <3>2. /\ conn'.lastSync = conn.lastSync /\ conn'.readable = conn.readable
          /\ conn'.state = conn.state
      BY <2>2, <3>1 DEF TypeOK
    <3> QED
      BY <2>2, <3>1, <3>2
  <2> QED
    BY <2>1, <2>2
<1>6. CASE TakeJob \/ StartPass
  BY <1>6 DEF TakeJob, StartPass, Resting, data, history
<1>7. CASE WorkerDies
  BY <1>7 DEF WorkerDies, Resting, data, history
<1> QED
  BY <1>1, <1>2, <1>3, <1>4, <1>5, <1>6, <1>7
  DEF Next, Storing, Clicking, Working, World

LEMMA ScanStart == Init => ScanInv
<1> SUFFICES ASSUME Init PROVE ScanInv
  OBVIOUS
<1>1. Overlap + 1 \in Nat /\ 0 <= Overlap + 1
  BY ScanAssumption
<1>2. TypeOK
  <2> USE DEF Init
  <2>1. now \in Times /\ posts \subseteq Posts /\ read \subseteq Posts
    BY <1>1 DEF Times, Posts
  <2>2. session \in Cookies \cup {NoCookie}
    OBVIOUS
  <2>3. conn \in Rows \cup {NoRow}
    <3>1. NewRow \in Rows
      BY DEF NewRow, States
    <3>2. conn = NoRow \/ conn = NewRow
      OBVIOUS
    <3> QED
      BY <3>1, <3>2
  <2>4. worker \in [pc : {"idle", "starting", "windowing", "reading"},
                   task : {"scan", "pass"}, cookie : Cookies \cup {NoCookie},
                   since : Windows, got : SUBSET Spaces, left : SUBSET Spaces,
                   found : BOOLEAN, began : Times]
    BY DEF Resting, Windows, Times
  <2>5. keeper \in [Keepers -> [pc : {"idle", "stored", "connected", "applied"},
                               cookie : Cookies \cup {NoCookie}, check : Checks]]
    BY DEF NotStoring, Checks
  <2>6. counts \in [{"posts", "stores", "events"} -> Nat]
    OBVIOUS
  <2>7. /\ job \in {"none", "queued", "running"} /\ removal \in {"idle", "half"}
        /\ missed \subseteq Spaces /\ passedOver \subseteq Spaces
    OBVIOUS
  <2> QED
    BY <2>1, <2>2, <2>3, <2>4, <2>5, <2>6, <2>7 DEF TypeOK
<1>3. StampsArePast
  BY <1>1 DEF Init, StampsArePast, NewRow, Resting, Scanning
<1>4. StampsAreCovered /\ ScanIsCovered /\ GotIsRead /\ WindowIsCovered
  BY DEF Init, StampsAreCovered, ScanIsCovered, GotIsRead, WindowIsCovered, RescanSince,
     NewRow, Resting, Covered
<1> QED
  BY <1>2, <1>3, <1>4 DEF ScanInv

LEMMA StepsKeepInv == ScanInv /\ [Next]_vars => ScanInv'
<1> SUFFICES ASSUME ScanInv, [Next]_vars PROVE ScanInv'
  OBVIOUS
<1>1. TypeOK'
  BY StepsKeepType DEF ScanInv
<1>2. CASE UNCHANGED vars
  <2>1. Quiet
    BY <1>2 DEF vars, data, history, Quiet, RowKept, ScanKept
  <2> QED
    BY <1>1, <2>1, QuietKeepsInv
<1>3. CASE Tick
  BY <1>1, <1>3, TickKeepsInv
<1>4. CASE \E s \in Spaces : Publish(s)
  BY <1>1, <1>4, PublishKeepsInv
<1>5. CASE LoadCookies \/ FindWindow
  BY <1>1, <1>5, BeginningKeepsInv
<1>6. CASE \E s \in Spaces : ReadSpace(s)
  BY <1>1, <1>6, ReadSpaceKeepsInv
<1>7. CASE \E s \in Spaces : SkipSpace(s)
  BY <1>1, <1>7, SkipSpaceKeepsInv
<1>8. CASE \E state \in {"connected", "error"}, capped, counted \in BOOLEAN :
               SaveScan(state, capped, counted)
  BY <1>1, <1>8, SaveScanKeepsInv
<1>9. CASE \E p \in Keepers : ApplyCheck(p)
  BY <1>1, <1>9, ApplyCheckKeepsInv
<1>10. CASE Next /\ ~ Tick /\ ~ LoadCookies /\ ~ FindWindow
            /\ (\A s \in Spaces : ~ Publish(s) /\ ~ ReadSpace(s) /\ ~ SkipSpace(s))
            /\ (\A p \in Keepers : ~ ApplyCheck(p))
            /\ (\A state \in {"connected", "error"}, capped, counted \in BOOLEAN :
                    ~ SaveScan(state, capped, counted))
  <2>1. Quiet
    BY <1>10, OthersAreQuiet DEF ScanInv
  <2> QED
    BY <1>1, <2>1, QuietKeepsInv
<1> QED
  BY <1>2, <1>3, <1>4, <1>5, <1>6, <1>7, <1>8, <1>9, <1>10

-----------------------------------------------------------------------------
LEMMA ScanInvariance == Spec => []ScanInv
BY ScanStart, StepsKeepInv, PTL DEF Spec

(* The session, the connection row, the job, the scan and the requests in  *)
(* progress keep their types, for any community (scanning.py, web/app.py). *)
THEOREM ScanTypeCorrect == Spec => []TypeOK
<1>1. ScanInv => TypeOK
  BY DEF ScanInv
<1> QED
  BY <1>1, ScanInvariance, PTL

(* _rescan_since() leaves out nothing that was not read: for any number of *)
(* spaces, sessions and processes, pages of any size and number, wherever  *)
(* scans fail and whatever is stored or removed meanwhile, every post      *)
(* older than the window has been read, except in the spaces passed over   *)
(* and below the pages of a read.                                          *)
THEOREM ReadsMissNothing == Spec => []WindowIsCovered
<1>1. ScanInv => WindowIsCovered
  BY DEF ScanInv
<1> QED
  BY <1>1, ScanInvariance, PTL

-----------------------------------------------------------------------------
(* Sessions and rows.                                                      *)

\* A session without its row is being stored or being removed.
OnItsWay ==
    session # NoCookie /\ conn = NoRow =>
        removal = "half" \/ \E p \in Keepers : keeper[p].pc = "stored"

LEMMA NewRowIsRow == NewRow # NoRow
<1>1. NewRow \in Rows
  BY DEF NewRow, States
<1> HIDE DEF Rows
<1> QED
  BY <1>1, RowAssumption

LEMMA StepsKeepOnItsWay == TypeOK /\ OnItsWay /\ [Next]_vars => OnItsWay'
<1> SUFFICES ASSUME TypeOK, OnItsWay, [Next]_vars PROVE OnItsWay'
  OBVIOUS
<1> USE DEF OnItsWay
<1>1. NewRow # NoRow
  BY NewRowIsRow
<1>2. CASE UNCHANGED vars
  BY <1>2 DEF vars
<1>3. ASSUME NEW p \in Keepers, NEW c \in Cookies, NEW check \in Checks,
             StoreSession(p, c, check)
      PROVE  OnItsWay'
  <2>1. keeper'[p].pc = "stored"
    BY <1>3 DEF StoreSession, TypeOK
  <2> QED
    BY <2>1
<1>4. ASSUME NEW p \in Keepers, ConnectHost(p) PROVE OnItsWay'
  BY <1>1, <1>4 DEF ConnectHost
<1>5. ASSUME NEW p \in Keepers, ApplyCheck(p) PROVE OnItsWay'
  <2>1. conn' = NoRow => conn = NoRow
    <3>1. CASE conn = NoRow
      BY <3>1
    <3>2. CASE conn # NoRow
      <4>1. conn' = [conn EXCEPT !.state = CheckState(keeper[p].check)] /\ conn \in Rows
        BY <1>5, <3>2 DEF ApplyCheck, TypeOK
      <4>2. CheckState(keeper[p].check) \in States
        BY DEF CheckState, States
      <4>3. conn' \in Rows
        BY <4>1, <4>2
      <4> QED
        BY <4>3, RowAssumption
    <3> QED
      BY <3>1, <3>2
  <2>2. \A q \in Keepers : keeper[q].pc = "stored" => keeper'[q].pc = "stored"
    BY <1>5 DEF ApplyCheck, StoringStep, TypeOK
  <2>3. session' = session /\ removal' = removal
    BY <1>5 DEF ApplyCheck
  <2> QED
    BY <2>1, <2>2, <2>3
<1>6. ASSUME NEW p \in Keepers, QueueRead(p) PROVE OnItsWay'
  <2>1. \A q \in Keepers : keeper[q].pc = "stored" => keeper'[q].pc = "stored"
    BY <1>6 DEF QueueRead, TypeOK
  <2>2. UNCHANGED <<session, conn, removal>>
    BY <1>6 DEF QueueRead
  <2> QED
    BY <2>1, <2>2
<1>7. CASE ScanNow \/ ClearSession \/ RemoveRow \/ RemoveSession
  BY <1>7 DEF ScanNow, ClearSession, RemoveRow, RemoveSession
<1>8. ASSUME NEW paused \in BOOLEAN, SetPriority(paused) PROVE OnItsWay'
  <2> DEFINE row == IF conn = NoRow THEN NewRow ELSE conn
  <2>1. row \in Rows
    BY DEF NewRow, States, TypeOK
  <2>2. conn' = [row EXCEPT !.paused = paused]
    BY <1>8 DEF SetPriority
  <2>3. conn' \in Rows
    BY <2>1, <2>2
  <2> QED
    BY <2>3, RowAssumption
<1>9. CASE TakeJob \/ StartPass \/ LoadCookies \/ FindWindow \/ WorkerDies \/ Tick
  BY <1>9 DEF TakeJob, StartPass, LoadCookies, FindWindow, WorkerDies, Tick
<1>10. ASSUME NEW s \in Spaces, ReadSpace(s) \/ SkipSpace(s) \/ Publish(s)
       PROVE  OnItsWay'
  BY <1>10 DEF ReadSpace, SkipSpace, Publish
<1>11. ASSUME NEW state \in {"connected", "error"}, NEW capped \in BOOLEAN,
              NEW counted \in BOOLEAN,
              SaveScan(state, capped, counted)
       PROVE  OnItsWay'
  <2> DEFINE row == IF conn = NoRow THEN NewRow ELSE conn
  <2>1. row \in Rows
    BY DEF NewRow, States, TypeOK
  <2>2. conn' = [row EXCEPT !.state = state, !.lastSync = now,
                            !.readable = counted \/ StillReadable(row, state, capped)]
    BY <1>11 DEF SaveScan
  <2>3. StillReadable(row, state, capped) \in BOOLEAN
    BY DEF StillReadable
  <2>4. conn' \in Rows
    BY <2>1, <2>2, <2>3 DEF States, TypeOK
  <2> QED
    BY <2>4, RowAssumption
<1> QED
  BY <1>2, <1>3, <1>4, <1>5, <1>6, <1>7, <1>8, <1>9, <1>10, <1>11
  DEF Next, Storing, Clicking, Working, World

(* connect_host() and remove_connection(): once every request is through,  *)
(* no session is left without the row the dashboard and the harvest list   *)
(* communities by, however pastes, removals and scans interleave.          *)
THEOREM SessionsAreListed == Spec => []SessionIsListed
<1>1. Init => OnItsWay
  BY NewRowIsRow DEF Init, OnItsWay
<1>2. Spec => []OnItsWay
  BY <1>1, StepsKeepOnItsWay, ScanTypeCorrect, PTL DEF Spec
<1>3. OnItsWay => SessionIsListed
  BY DEF OnItsWay, SessionIsListed
<1> QED
  BY <1>2, <1>3, PTL

=============================================================================
