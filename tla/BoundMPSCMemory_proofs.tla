------------------------ MODULE BoundMPSCMemory_proofs ------------------------
(***************************************************************************)
(* What the memory orders of the channel guarantee, for every size, every  *)
(* retry limit, any number of producers and events and any number of       *)
(* fillings.                                                               *)
(***************************************************************************)
EXTENDS BoundMPSCMemory, Congruence, FiniteSetTheorems, SequenceTheorems, TLAPS

(* The inductive invariant *)

View == [slots : [Slot -> Nat], contents : [Event -> Nat]]
Entry == [value : Event \union {NULL}, view : View]

Shapes ==
  /\ order \in [Slot -> Seq(Entry)]
  /\ seen \in [Thread -> [Slot -> Nat]] /\ knows \in [Thread -> [Event -> Nat]]
  /\ returned \in [Event -> View]

\* What has been heard of has happened.
ViewHolds(v) ==
  /\ \A i \in Slot : v.slots[i] \in 1 .. Newest(i)
  /\ \A e \in Event : v.contents[e] \in 0 .. content[e]

ViewsHold ==
  /\ \A i \in Slot : Newest(i) >= 1
  /\ \A i \in Slot : \A n \in 1 .. Newest(i) : ViewHolds(order[i][n].view)
  /\ \A e \in Event : ViewHolds(returned[e])

ContentsBounded == \A e \in Event : content[e] <= fills

CallsCarryEvents == \A p \in Producer : ppc[p] = "idle" <=> ptr[p] = NULL

\* The value of the newest write to a slot.
Top(i) == order[i][Newest(i)].value

\* The consumer misses at most the newest write to a slot, an event that
\* replaced the null it has heard of.
ConsumerKeepsUp ==
  \A i \in Slot :
    \/ seen[Consumer][i] = Newest(i)
    \/ /\ seen[Consumer][i] = Newest(i) - 1
       /\ Top(i) # NULL /\ order[i][Newest(i) - 1].value = NULL

OneOwner ==
  /\ \A i, j \in Slot : Top(i) = Top(j) /\ Top(i) # NULL => i = j
  /\ \A p, q \in Producer : ptr[p] = ptr[q] /\ ptr[p] # NULL => p = q
  /\ \A p \in Producer : ptr[p] \notin Queued \union held
  /\ Queued \intersect held = {}

\* Whoever has an event in hands knows its last filling, and so does the write
\* that published it.
ContentsTravel ==
  /\ \A p \in Producer : ptr[p] # NULL => knows[p][ptr[p]] = content[ptr[p]]
  /\ \A i \in Slot :
       Top(i) # NULL => order[i][Newest(i)].view.contents[Top(i)] = content[Top(i)]
  /\ ContentsArrive

Ahead(i) == IF head <= i THEN i - head ELSE i - head + Capacity

\* A slot that has to be found occupied lies ahead of the cursor, near enough
\* for the attempts that are left.
HeardOfInReach ==
  /\ cpc = "popping" /\ owed =>
       \E i \in Slot : /\ order[i][seen[Consumer][i]].value # NULL
                       /\ Ahead(i) + popRetries <= PopRetryLimit
  /\ cpc # "popping" => ~owed /\ popRetries = 0

\* The values of all variables, those of the memory included.
Sound == TypeOK /\ Shapes /\ ViewsHold /\ ContentsBounded

MemoryInv ==
  /\ Sound
  /\ CallsCarryEvents /\ ConsumerKeepsUp /\ OneOwner /\ ContentsTravel /\ HeardOfInReach

-----------------------------------------------------------------------------
(* Helpers *)

LEMMA Sizes ==
  /\ ByteBase \in Nat \ {0} /\ Capacity \in Nat /\ Capacity > 0
  /\ 0 \in Slot /\ Slot = 0 .. Capacity - 1 /\ Slot \subseteq Nat
  /\ PopRetryLimit \in Nat /\ PopRetryLimit = Capacity + Capacity
<1>1. Capacity \in Nat /\ Capacity > 0
  BY MemoryAssumption DEF Capacity
<1> QED BY <1>1, MemoryAssumption DEF Slot, PopRetryLimit

LEMMA AdvanceWraps ==
  ASSUME NEW i \in Slot
  PROVE  Advance(i) \in Slot /\ Advance(i) = IF i = Capacity - 1 THEN 0 ELSE i + 1
BY Sizes, CountWraps DEF Advance

LEMMA TicketNamesSlot ==
  ASSUME NEW t \in Slot
  PROVE  IndexFromTicket(t) \in Slot
<1>1. t \in 0 .. ByteBase * ByteBase - 1
  BY DEF Slot, Capacity
<1> QED BY <1>1, Sizes, DigitsSwap DEF IndexFromTicket, Capacity

LEMMA LargerStays ==
  ASSUME NEW b \in Nat, NEW l \in Nat, NEW m \in l .. b, NEW n \in l .. b
  PROVE  Larger(m, n) \in l .. b
BY DEF Larger

LEMMA LargerFrom ==
  ASSUME NEW c \in Nat, NEW a \in 0 .. c, NEW b \in 0 .. c
  PROVE  Larger(a, b) \in a .. c
BY DEF Larger

LEMMA LargerRises ==
  ASSUME NEW c \in Nat, NEW a \in 1 .. c, NEW b \in 1 .. c
  PROVE  /\ Larger(a, b) \in a .. c
         /\ \A n \in 1 .. c : Larger(Larger(n, a), b) \in a .. c
BY DEF Larger

LEMMA LargerBetween ==
  ASSUME NEW c \in Nat, NEW a \in 1 .. c, NEW b \in 1 .. c
  PROVE  /\ Larger(a, b) \in a .. c /\ Larger(a, b) \in 1 .. c
         /\ Larger(Larger(c + 1, a), b) = c + 1
BY DEF Larger

LEMMA LargerIsLast ==
  ASSUME NEW b \in Nat, NEW n \in 0 .. b
  PROVE  Larger(n, b + 1) = b + 1 /\ Larger(n, b) = b /\ Larger(b, n) = b
BY DEF Larger

\* What a thread has heard of after Hears.
LEMMA HearsEffect ==
  ASSUME Shapes, NEW t \in Thread, NEW view \in View, NEW i \in Slot, NEW n \in Nat,
         Hears(t, view, i, n)
  PROVE  /\ seen' \in [Thread -> [Slot -> Nat]] /\ knows' \in [Thread -> [Event -> Nat]]
         /\ \A u \in Thread \ {t} : seen'[u] = seen[u] /\ knows'[u] = knows[u]
         /\ \A j \in Slot : seen'[t][j] =
              Larger(IF j = i THEN Larger(n, seen[t][j]) ELSE seen[t][j], view.slots[j])
         /\ \A e \in Event : knows'[t][e] = Larger(knows[t][e], view.contents[e])
<1> DEFINE S == [j \in Slot |-> Larger(IF j = i THEN Larger(n, seen[t][j]) ELSE seen[t][j],
                                      view.slots[j])]
           K == [e \in Event |-> Larger(knows[t][e], view.contents[e])]
<1>1. seen' = [seen EXCEPT ![t] = S] /\ knows' = [knows EXCEPT ![t] = K]
  BY DEF Hears, Shapes
<1>2. S \in [Slot -> Nat]
  BY DEF Shapes, View, Larger
<1>3. K \in [Event -> Nat]
  BY DEF Shapes, View, Larger
<1>4. /\ \A j \in Slot : S[j] = Larger(IF j = i THEN Larger(n, seen[t][j]) ELSE seen[t][j],
                                      view.slots[j])
      /\ \A e \in Event : K[e] = Larger(knows[t][e], view.contents[e])
  OBVIOUS
<1> HIDE DEF S, K
<1> QED BY <1>1, <1>2, <1>3, <1>4 DEF Shapes

\* The writes to a slot after one more.
LEMMA WriteEffect ==
  ASSUME Shapes, NEW i \in Slot, NEW w \in Entry, order' = [order EXCEPT ![i] = Append(@, w)]
  PROVE  /\ order' \in [Slot -> Seq(Entry)]
         /\ \A j \in Slot : Len(order[j]) \in Nat /\ Len(order'[j]) \in Nat
         /\ Len(order'[i]) = Len(order[i]) + 1 /\ order'[i][Len(order[i]) + 1] = w
         /\ \A n \in 1 .. Len(order[i]) : order'[i][n] = order[i][n]
         /\ \A j \in Slot \ {i} : order'[j] = order[j]
<1>1. order[i] \in Seq(Entry) /\ order'[i] = Append(order[i], w)
  BY DEF Shapes
<1>2. /\ Append(order[i], w) \in Seq(Entry)
      /\ Len(Append(order[i], w)) = Len(order[i]) + 1
      /\ \A n \in 1 .. Len(order[i]) : Append(order[i], w)[n] = order[i][n]
      /\ Append(order[i], w)[Len(order[i]) + 1] = w
  BY <1>1, AppendProperties
<1>3. \A j \in Slot \ {i} : order'[j] = order[j]
  BY DEF Shapes
<1>4. order' \in [Slot -> Seq(Entry)]
  BY <1>1, <1>2, <1>3 DEF Shapes
<1>5. \A j \in Slot : Len(order[j]) \in Nat /\ Len(order'[j]) \in Nat
  BY <1>4, LenProperties DEF Shapes
<1> QED BY <1>1, <1>2, <1>3, <1>4, <1>5

LEMMA NothingIsAView == Nothing \in View
BY DEF Nothing, View

LEMMA NothingHolds == Sound => ViewHolds(Nothing)
<1> SUFFICES ASSUME Sound PROVE ViewHolds(Nothing)
  OBVIOUS
<1>1. Nothing.slots = [i \in Slot |-> 1] /\ Nothing.contents = [e \in Event |-> 0]
  BY DEF Nothing
<1>2. ASSUME NEW i \in Slot PROVE 1 \in 1 .. Newest(i)
  <2>1. Newest(i) \in Nat /\ Newest(i) >= 1
    BY LenProperties DEF Sound, Shapes, ViewsHold, Newest
  <2> QED BY <2>1
<1>3. ASSUME NEW e \in Event PROVE 0 \in 0 .. content[e]
  <2>1. content[e] \in Nat
    BY MemoryAssumption DEF Sound, TypeOK
  <2> QED BY <2>1
<1> QED BY <1>1, <1>2, <1>3 DEF ViewHolds

LEMMA ViewOfTyped ==
  ASSUME Sound, NEW t \in Thread
  PROVE  /\ ViewOf(t) \in View
         /\ ViewOf(t).slots = seen[t] /\ ViewOf(t).contents = knows[t]
         /\ ViewHolds(ViewOf(t))
<1>1. ViewOf(t) = [slots |-> seen[t], contents |-> knows[t]]
  BY DEF ViewOf
<1>2. seen[t] \in [Slot -> Nat] /\ knows[t] \in [Event -> Nat]
  BY DEF Sound, Shapes
<1>3. ViewOf(t) \in View /\ ViewOf(t).slots = seen[t] /\ ViewOf(t).contents = knows[t]
  BY <1>1, <1>2 DEF View
<1>4. /\ \A i \in Slot : seen[t][i] \in 1 .. Newest(i)
      /\ \A e \in Event : knows[t][e] \in 0 .. content[e]
  BY DEF Sound, TypeOK
<1> QED BY <1>3, <1>4 DEF ViewHolds

-----------------------------------------------------------------------------
(* The values of the variables *)

LEMMA SoundInitially == Init => Sound
<1> SUFFICES ASSUME Init PROVE Sound
  OBVIOUS
<1> DEFINE w == [value |-> NULL, view |-> Nothing]
<1>1. w \in Entry /\ w.value = NULL /\ w.view = Nothing
  BY NothingIsAView DEF Entry
<1> HIDE DEF w
<1>2. order = [i \in Slot |-> <<w>>]
  BY DEF Init, w
<1>3. \A i \in Slot : order[i] \in Seq(Entry) /\ Newest(i) = 1 /\ order[i][1] = w
  BY <1>1, <1>2 DEF Newest
<1>4. /\ Nothing.slots = [i \in Slot |-> 1] /\ Nothing.contents = [e \in Event |-> 0]
      /\ \A e \in Event : content[e] = 0
  BY DEF Nothing, Init
<1>5. ViewHolds(Nothing)
  BY <1>3, <1>4 DEF ViewHolds
<1>6. Shapes
  BY <1>2, <1>3, <1>4, NothingIsAView DEF Init, Shapes
<1>7. ViewsHold /\ ContentsBounded
  <2>1. \A i \in Slot : \A n \in 1 .. Newest(i) : order[i][n] = w
    BY <1>3
  <2>2. \A e \in Event : returned[e] = Nothing
    BY DEF Init
  <2> QED BY <1>1, <1>3, <1>4, <1>5, <2>1, <2>2 DEF ViewsHold, ContentsBounded, Init
<1>8. TypeOK
  <2>1. \A i \in Slot : \A n \in 1 .. Newest(i) : order[i][n].value \in Event \union {NULL}
    BY <1>1, <1>3
  <2>2. /\ \A t \in Thread, i \in Slot : seen[t][i] \in 1 .. Newest(i)
        /\ \A t \in Thread, e \in Event : knows[t][e] \in 0 .. content[e]
    BY <1>3, <1>4 DEF Init
  <2>3. content \in [Event -> 0 .. MaxFills] /\ fills \in 0 .. MaxFills
    BY MemoryAssumption DEF Init
  <2>4. /\ ticket \in Slot /\ head \in Slot /\ popRetries \in 0 .. PopRetryLimit
        /\ index \in [Producer -> Slot] /\ retries \in [Producer -> 0 .. PushRetryLimit]
    BY Sizes, MemoryAssumption DEF Init
  <2> QED BY <2>1, <2>2, <2>3, <2>4 DEF Init, TypeOK
<1> QED BY <1>6, <1>7, <1>8 DEF Sound

\* The counters and the local variables of the calls.
Locals ==
  /\ ticket \in Slot /\ head \in Slot
  /\ ppc \in [Producer -> {"idle", "try", "cas", "failed"}]
  /\ ptr \in [Producer -> Event \union {NULL}]
  /\ index \in [Producer -> Slot]
  /\ retries \in [Producer -> 0 .. PushRetryLimit]
  /\ cpc \in {"idle", "popping", "empty"} /\ popRetries \in 0 .. PopRetryLimit
  /\ held \subseteq Event /\ owed \in BOOLEAN

\* The memory as its readers know it.
Knowledge ==
  /\ Shapes /\ ViewsHold /\ ContentsBounded
  /\ \A t \in Thread, i \in Slot : seen[t][i] \in 1 .. Newest(i)
  /\ \A t \in Thread, e \in Event : knows[t][e] \in 0 .. content[e]

Fillings == content \in [Event -> 0 .. MaxFills] /\ fills \in 0 .. MaxFills

LEMMA SoundIs == Sound <=> Locals /\ Knowledge /\ Fillings
<1>1. ASSUME Shapes, NEW i \in Slot, NEW n \in 1 .. Newest(i)
      PROVE  order[i][n].value \in Event \union {NULL}
  <2>1. order[i] \in Seq(Entry) /\ n \in 1 .. Len(order[i])
    BY <1>1 DEF Shapes, Newest
  <2>2. order[i][n] \in Entry
    BY <2>1, ElementOfSeq
  <2> QED BY <2>2 DEF Entry
<1> QED BY <1>1 DEF Sound, TypeOK, Locals, Knowledge, Fillings

\* A step by which a thread only hears of more.
LEMMA SoundAfterHearing ==
  ASSUME Sound, NEW t \in Thread, NEW view \in View, ViewHolds(view),
         NEW n \in 1 .. Newest(0), Hears(t, view, 0, n), UNCHANGED <<order, filled, returned>>
  PROVE  /\ Knowledge'
         /\ \A u \in Thread, i \in Slot : seen'[u][i] \in seen[u][i] .. Newest(i)
         /\ \A u \in Thread, e \in Event : knows'[u][e] \in knows[u][e] .. content[e]
<1>1. /\ Shapes /\ 0 \in Slot /\ n \in Nat
      /\ order' = order /\ content' = content /\ fills' = fills /\ returned' = returned
  BY Sizes DEF Sound, Shapes, filled
<1>2. /\ seen' \in [Thread -> [Slot -> Nat]] /\ knows' \in [Thread -> [Event -> Nat]]
      /\ \A u \in Thread \ {t} : seen'[u] = seen[u] /\ knows'[u] = knows[u]
      /\ \A j \in Slot : seen'[t][j] =
              Larger(IF j = 0 THEN Larger(n, seen[t][j]) ELSE seen[t][j], view.slots[j])
      /\ \A e \in Event : knows'[t][e] = Larger(knows[t][e], view.contents[e])
  BY <1>1, HearsEffect
<1>3. /\ \A u \in Thread, i \in Slot : seen[u][i] \in 1 .. Newest(i)
      /\ \A u \in Thread, e \in Event : knows[u][e] \in 0 .. content[e]
      /\ \A i \in Slot : view.slots[i] \in 1 .. Newest(i)
      /\ \A e \in Event : view.contents[e] \in 0 .. content[e]
  BY DEF Sound, TypeOK, ViewHolds
<1>4. /\ \A i \in Slot : Newest(i) \in Nat /\ Newest(i)' = Newest(i)
      /\ \A e \in Event : content[e] \in Nat
  BY <1>1, LenProperties, MemoryAssumption DEF Shapes, Newest, Sound, TypeOK
<1>5. \A u \in Thread, i \in Slot : seen'[u][i] \in seen[u][i] .. Newest(i)
  <2>1. ASSUME NEW i \in Slot PROVE seen'[t][i] \in seen[t][i] .. Newest(i)
    <3>1. /\ Newest(i) \in Nat /\ seen[t][i] \in 1 .. Newest(i) /\ view.slots[i] \in 1 .. Newest(i)
          /\ i = 0 => n \in 1 .. Newest(i)
      BY <1>3, <1>4
    <3>2. seen'[t][i] = Larger(IF i = 0 THEN Larger(n, seen[t][i]) ELSE seen[t][i], view.slots[i])
      BY <1>2
    <3> QED BY <3>1, <3>2, LargerRises
  <2>2. \A u \in Thread \ {t}, i \in Slot : seen'[u][i] \in seen[u][i] .. Newest(i)
    BY <1>2, <1>3, <1>4
  <2> QED BY <2>1, <2>2
<1>6. \A u \in Thread, e \in Event : knows'[u][e] \in knows[u][e] .. content[e]
  <2>1. ASSUME NEW e \in Event PROVE knows'[t][e] \in knows[t][e] .. content[e]
    <3>1. knows'[t][e] = Larger(knows[t][e], view.contents[e])
      BY <1>2
    <3>3. knows[t][e] \in 0 .. content[e] /\ view.contents[e] \in 0 .. content[e]
      BY <1>3
    <3> QED BY <1>4, <3>1, <3>3, LargerFrom
  <2>2. \A u \in Thread \ {t}, e \in Event : knows'[u][e] \in knows[u][e] .. content[e]
    BY <1>2, <1>3, <1>4
  <2> QED BY <2>1, <2>2
<1>7. \A u \in Thread, i \in Slot : seen'[u][i] \in 1 .. Newest(i)'
  BY <1>3, <1>4, <1>5
<1>8. \A u \in Thread, e \in Event : knows'[u][e] \in 0 .. content'[e]
  BY <1>1, <1>3, <1>4, <1>6
<1>9. Shapes'
  BY <1>1, <1>2 DEF Shapes
<1>10. ViewsHold' /\ ContentsBounded'
  BY <1>1 DEF Sound, ViewsHold, ViewHolds, Newest, ContentsBounded
<1> QED BY <1>5, <1>6, <1>7, <1>8, <1>9, <1>10 DEF Knowledge

\* A step by which a thread only reads one slot.
LEMMA SoundAfterReading ==
  ASSUME Sound, NEW t \in Thread, NEW i \in Slot, NEW n \in seen[t][i] .. Newest(i),
         seen' = [seen EXCEPT ![t][i] = n], UNCHANGED <<order, filled, knows, returned>>
  PROVE  Knowledge' /\ \A u \in Thread, j \in Slot : seen'[u][j] \in seen[u][j] .. Newest(j)
<1>1. /\ Shapes /\ order' = order /\ content' = content /\ fills' = fills
      /\ returned' = returned /\ knows' = knows
  BY DEF Sound, filled
<1>2. /\ \A u \in Thread, j \in Slot : seen[u][j] \in 1 .. Newest(j)
      /\ \A u \in Thread, e \in Event : knows[u][e] \in 0 .. content[e]
  BY DEF Sound, TypeOK
<1>3. n \in 1 .. Newest(i) /\ n \in Nat
  <2>1. seen[t][i] \in Nat /\ 1 <= seen[t][i] /\ Newest(i) \in Nat
    BY <1>1, <1>2, LenProperties DEF Shapes, Newest
  <2> QED BY <2>1
<1>4. \A j \in Slot : Newest(j)' = Newest(j)
  BY <1>1 DEF Newest
<1>5. seen' \in [Thread -> [Slot -> Nat]]
  BY <1>1, <1>3 DEF Shapes
<1>6. \A u \in Thread, j \in Slot : seen'[u][j] = IF u = t /\ j = i THEN n ELSE seen[u][j]
  BY <1>1 DEF Shapes
<1>7. Shapes'
  BY <1>1, <1>5 DEF Shapes
<1>8. ViewsHold' /\ ContentsBounded'
  BY <1>1 DEF Sound, ViewsHold, ViewHolds, Newest, ContentsBounded
<1>9. \A u \in Thread, j \in Slot : seen'[u][j] \in 1 .. Newest(j)'
  BY <1>2, <1>3, <1>4, <1>6
<1>10. \A u \in Thread, e \in Event : knows'[u][e] \in 0 .. content'[e]
  BY <1>1, <1>2
<1>11. \A u \in Thread, j \in Slot : seen'[u][j] \in seen[u][j] .. Newest(j)
  <2>1. \A j \in Slot : Newest(j) \in Nat
    BY <1>1, LenProperties DEF Shapes, Newest
  <2>2. \A u \in Thread, j \in Slot : seen[u][j] \in seen[u][j] .. Newest(j)
    BY <1>2, <2>1
  <2> QED BY <1>6, <2>2
<1> QED BY <1>7, <1>8, <1>9, <1>10, <1>11 DEF Knowledge

\* Steps that leave the memory alone.
LEMMA KnowledgeUnchanged ==
  ASSUME Sound, UNCHANGED memVars
  PROVE  Knowledge' /\ content' = content /\ fills' = fills
<1>1. Knowledge
  BY SoundIs
<1>2. UNCHANGED <<order, seen, content, fills, knows, returned>>
  BY DEF memVars, filled
<1> QED BY <1>1, <1>2 DEF Knowledge, Shapes, ViewsHold, ViewHolds, ContentsBounded, Newest

\* Steps that append to a slot what some thread passes on, or nothing.
LEMMA KnowledgeAfterWrite ==
  ASSUME Sound, NEW i \in Slot, NEW w \in Entry, ViewHolds(w.view), NEW t \in Thread,
         order' = [order EXCEPT ![i] = Append(@, w)], UNCHANGED <<filled, returned>>,
         seen' \in [Thread -> [Slot -> Nat]], knows' \in [Thread -> [Event -> Nat]],
         \A u \in Thread \ {t} : seen'[u] = seen[u] /\ knows'[u] = knows[u],
         \A j \in Slot : seen'[t][j] \in 1 .. Len(order'[j]),
         \A e \in Event : knows'[t][e] \in 0 .. content[e]
  PROVE  Knowledge'
<1> DEFINE Held(v) == /\ \A j \in Slot : v.slots[j] \in 1 .. Len(order'[j])
                      /\ \A e \in Event : v.contents[e] \in 0 .. content[e]
<1>1. Knowledge /\ content' = content /\ fills' = fills /\ returned' = returned
  BY SoundIs DEF filled
<1>2. /\ order' \in [Slot -> Seq(Entry)]
      /\ \A j \in Slot : Len(order[j]) \in Nat /\ Len(order'[j]) \in Nat
      /\ Len(order'[i]) = Len(order[i]) + 1 /\ order'[i][Len(order[i]) + 1] = w
      /\ \A n \in 1 .. Len(order[i]) : order'[i][n] = order[i][n]
      /\ \A j \in Slot \ {i} : order'[j] = order[j]
  BY <1>1, WriteEffect DEF Knowledge
<1>3. ASSUME NEW j \in Slot PROVE Len(order[j]) <= Len(order'[j])
  BY <1>2
<1>4. ASSUME NEW v, ViewHolds(v) PROVE Held(v)
  <2>1. ASSUME NEW j \in Slot PROVE v.slots[j] \in 1 .. Len(order'[j])
    <3>1. v.slots[j] \in 1 .. Len(order[j])
      BY <1>4 DEF ViewHolds, Newest
    <3> QED BY <1>2, <1>3, <3>1
  <2> QED BY <1>4, <2>1 DEF ViewHolds
<1> HIDE DEF Held
<1>5. ASSUME NEW j \in Slot, NEW n \in 1 .. Len(order'[j]) PROVE Held(order'[j][n].view)
  <2>1. CASE j = i /\ n = Len(order[i]) + 1
    BY <1>2, <1>4, <2>1
  <2>2. CASE ~(j = i /\ n = Len(order[i]) + 1)
    <3>1. n \in 1 .. Len(order[j]) /\ order'[j][n] = order[j][n]
      BY <1>2, <2>2
    <3>2. ViewHolds(order[j][n].view)
      BY <1>1, <3>1 DEF Knowledge, ViewsHold, Newest
    <3> QED BY <1>4, <3>1, <3>2
  <2> QED BY <2>1, <2>2
<1>6. \A e \in Event : Held(returned'[e])
  BY <1>1, <1>4 DEF Knowledge, ViewsHold
<1>7. \A j \in Slot : Len(order'[j]) >= 1
  BY <1>1, <1>2, <1>3 DEF Knowledge, ViewsHold, Newest
<1>8. ViewsHold'
  BY <1>1, <1>5, <1>6, <1>7 DEF ViewsHold, ViewHolds, Held, Newest
<1>9. \A u \in Thread, j \in Slot : seen'[u][j] \in 1 .. Newest(j)'
  <2> SUFFICES ASSUME NEW u \in Thread \ {t}, NEW j \in Slot
               PROVE  seen[u][j] \in 1 .. Len(order'[j])
    BY DEF Newest
  <2>1. seen[u][j] \in 1 .. Len(order[j])
    BY <1>1 DEF Knowledge, Newest
  <2> QED BY <1>2, <1>3, <2>1
<1>10. \A u \in Thread, e \in Event : knows'[u][e] \in 0 .. content'[e]
  BY <1>1 DEF Knowledge
<1> QED BY <1>1, <1>2, <1>8, <1>9, <1>10 DEF Knowledge, Shapes, ContentsBounded

LEMMA PushCallEffect ==
  ASSUME Sound, NEW p \in Producer, NEW e \in Event, PushCall(p, e)
  PROVE  /\ Sound'
         /\ seen' \in [Thread -> [Slot -> Nat]]
         /\ \A u \in Thread \ {p} : seen'[u] = seen[u] /\ knows'[u] = knows[u]
         /\ knows'[p][e] = content'[e]
         /\ \A f \in Event \ {e} : content'[f] = content[f]
<1> DEFINE r == returned[e]
           v == [r EXCEPT !.contents[e] = content'[e]]
<1>1. /\ Locals /\ Knowledge /\ Shapes /\ fills \in 0 .. MaxFills
      /\ content \in [Event -> 0 .. MaxFills] /\ p \in Thread
  BY SoundIs DEF Knowledge, Fillings, Thread
<1>2. /\ content[e] \in Nat /\ fills + 1 \in 0 .. MaxFills /\ content[e] + 1 \in 0 .. MaxFills
      /\ content[e] + 1 <= fills + 1
  BY <1>1, MemoryAssumption DEF PushCall, Knowledge, ContentsBounded
<1>3. content' = [content EXCEPT ![e] = content[e] + 1] /\ content'[e] = content[e] + 1
  BY <1>1 DEF PushCall
<1>4. r.slots \in [Slot -> Nat] /\ r.contents \in [Event -> Nat] /\ r \in View
  BY <1>1 DEF Shapes, View
<1>5. /\ v \in View /\ v.slots = r.slots
      /\ v.contents = [r.contents EXCEPT ![e] = content[e] + 1]
  <2> HIDE DEF r
  <2>1. v = [slots |-> r.slots, contents |-> [r.contents EXCEPT ![e] = content[e] + 1]]
    BY <1>3, <1>4 DEF View
  <2> HIDE DEF v
  <2> QED BY <1>2, <1>4, <2>1 DEF View
<1>6. /\ \A i \in Slot : r.slots[i] \in 1 .. Newest(i)
      /\ \A f \in Event : r.contents[f] \in 0 .. content[f]
  BY <1>1 DEF Knowledge, ViewsHold, ViewHolds
<1>7. Hears(p, v, 0, seen[p][0])
  BY DEF PushCall
<1> HIDE DEF r, v
<1>8. /\ seen' \in [Thread -> [Slot -> Nat]] /\ knows' \in [Thread -> [Event -> Nat]]
      /\ \A u \in Thread \ {p} : seen'[u] = seen[u] /\ knows'[u] = knows[u]
      /\ \A j \in Slot : seen'[p][j] =
              Larger(IF j = 0 THEN Larger(seen[p][0], seen[p][j]) ELSE seen[p][j], v.slots[j])
      /\ \A f \in Event : knows'[p][f] = Larger(knows[p][f], v.contents[f])
  <2>1. seen[p][0] \in Nat
    BY <1>1, Sizes DEF Shapes
  <2> QED BY <1>1, <1>5, <1>7, <2>1, Sizes, HearsEffect
<1>9. /\ \A u \in Thread, i \in Slot : seen[u][i] \in 1 .. Newest(i)
      /\ \A u \in Thread, f \in Event : knows[u][f] \in 0 .. content[f]
  BY <1>1 DEF Knowledge
<1>10. \A i \in Slot : seen'[p][i] \in 1 .. Newest(i)
  <2> SUFFICES ASSUME NEW i \in Slot PROVE seen'[p][i] \in 1 .. Newest(i)
    OBVIOUS
  <2>1. Newest(i) \in Nat
    BY <1>1, LenProperties DEF Shapes, Newest
  <2>2. seen[p][i] \in 1 .. Newest(i) /\ v.slots[i] \in 1 .. Newest(i)
    BY <1>1, <1>5, <1>6, <1>9
  <2>3. Larger(seen[p][i], seen[p][i]) \in 1 .. Newest(i)
    BY <2>1, <2>2, LargerStays
  <2>4. seen'[p][i] = Larger(IF i = 0 THEN Larger(seen[p][i], seen[p][i]) ELSE seen[p][i], v.slots[i])
    BY <1>8
  <2> QED BY <2>1, <2>2, <2>3, <2>4, LargerStays
<1>11. /\ \A f \in Event \ {e} : content'[f] = content[f]
       /\ \A f \in Event : content[f] \in Nat /\ content'[f] \in Nat /\ content[f] <= content'[f]
  BY <1>1, <1>2, <1>3
<1>12. \A f \in Event \ {e} : knows'[p][f] \in 0 .. content[f]
  <2> SUFFICES ASSUME NEW f \in Event \ {e} PROVE knows'[p][f] \in 0 .. content[f]
    OBVIOUS
  <2>1. knows[p][f] \in 0 .. content[f] /\ v.contents[f] \in 0 .. content[f]
    BY <1>1, <1>4, <1>5, <1>6, <1>9
  <2>2. knows'[p][f] = Larger(knows[p][f], v.contents[f])
    BY <1>8
  <2> QED BY <1>11, <2>1, <2>2, LargerStays
<1>13. knows'[p][e] = content'[e]
  <2>1. knows'[p][e] = Larger(knows[p][e], content[e] + 1)
    BY <1>4, <1>5, <1>8
  <2>2. knows[p][e] \in 0 .. content[e]
    BY <1>1, <1>9
  <2> QED BY <1>2, <1>3, <2>1, <2>2, LargerIsLast
<1>14. order' = order /\ returned' = [returned EXCEPT ![e] = Nothing] /\ fills' = fills + 1
  BY DEF PushCall
<1>15. \A u \in Thread, f \in Event : knows'[u][f] \in 0 .. content'[f]
  BY <1>8, <1>9, <1>11, <1>12, <1>13
<1>16. \A u \in Thread, i \in Slot : seen'[u][i] \in 1 .. Newest(i)'
  BY <1>8, <1>9, <1>10, <1>14 DEF Newest
<1>17. Shapes'
  BY <1>1, <1>8, <1>14, NothingIsAView DEF Shapes
<1>18. ViewsHold'
  <2> DEFINE Held(x) == /\ \A j \in Slot : x.slots[j] \in 1 .. Len(order'[j])
                        /\ \A f \in Event : x.contents[f] \in 0 .. content'[f]
  <2>1. ASSUME NEW x, ViewHolds(x) PROVE Held(x)
    <3>1. ASSUME NEW f \in Event PROVE x.contents[f] \in 0 .. content'[f]
      <4>1. x.contents[f] \in 0 .. content[f]
        BY <2>1 DEF ViewHolds
      <4> QED BY <1>11, <4>1
    <3> QED BY <1>14, <2>1, <3>1 DEF ViewHolds, Newest
  <2>2. Held(Nothing)
    BY <1>1, <1>11, <1>14 DEF Nothing, Knowledge, ViewsHold, Newest, Shapes
  <2> HIDE DEF Held
  <2>3. \A f \in Event : Held(returned'[f])
    BY <1>1, <1>14, <2>1, <2>2 DEF Knowledge, ViewsHold, Shapes
  <2>4. \A j \in Slot : \A n \in 1 .. Len(order'[j]) : Held(order'[j][n].view)
    BY <1>1, <1>14, <2>1 DEF Knowledge, ViewsHold, Newest
  <2>5. \A j \in Slot : Len(order'[j]) >= 1
    BY <1>1, <1>14 DEF Knowledge, ViewsHold, Newest
  <2> QED BY <2>3, <2>4, <2>5 DEF Held, ViewsHold, ViewHolds, Newest
<1>19. ContentsBounded'
  BY <1>1, <1>2, <1>3, <1>14 DEF Knowledge, ContentsBounded
<1>20. Fillings'
  BY <1>1, <1>2, <1>3, <1>14 DEF Fillings
<1>21. Locals'
  BY <1>1 DEF PushCall, popVars, Locals
<1>22. Knowledge'
  BY <1>15, <1>16, <1>17, <1>18, <1>19 DEF Knowledge
<1>23. Sound'
  BY <1>20, <1>21, <1>22, SoundIs, PTL
<1> QED BY <1>8, <1>11, <1>13, <1>23

LEMMA PublishEffect ==
  ASSUME Sound, NEW p \in Producer, Publish(p), ptr[p] # NULL,
         NEW i \in Slot, i = index[p]
  PROVE  /\ Sound'
         /\ order' = [order EXCEPT ![i] = Append(@, [value |-> ptr[p], view |-> ViewOf(p)])]
         /\ \A u \in Thread \ {p} : seen'[u] = seen[u]
<1>1. Locals /\ Knowledge /\ Shapes /\ Fillings /\ p \in Thread
  BY SoundIs DEF Knowledge, Thread
<1> DEFINE w == [value |-> ptr[p], view |-> ViewOf(p)]
<1>2. order' = [order EXCEPT ![i] = Append(@, w)] /\ seen' = [seen EXCEPT ![p][i] = Newest(i) + 1]
  BY DEF Publish, Write
<1>3. w \in Entry /\ ViewHolds(w.view)
  BY <1>1, ViewOfTyped DEF Locals, Entry
<1> HIDE DEF w
<1>4. Newest(i) \in Nat /\ Len(order'[i]) = Newest(i) + 1
      /\ \A j \in Slot \ {i} : order'[j] = order[j]
  BY <1>1, <1>2, <1>3, WriteEffect DEF Newest
<1>5. /\ seen' \in [Thread -> [Slot -> Nat]]
      /\ \A u \in Thread \ {p} : seen'[u] = seen[u]
      /\ seen'[p][i] = Newest(i) + 1 /\ \A j \in Slot \ {i} : seen'[p][j] = seen[p][j]
  BY <1>1, <1>2, <1>4 DEF Shapes
<1>6. \A j \in Slot : seen'[p][j] \in 1 .. Len(order'[j])
  <2>1. \A j \in Slot \ {i} : seen'[p][j] \in 1 .. Len(order'[j])
    BY <1>1, <1>4, <1>5 DEF Knowledge, Newest
  <2>2. seen'[p][i] \in 1 .. Len(order'[i])
    BY <1>4, <1>5
  <2> QED BY <2>1, <2>2
<1>7. Knowledge'
  <2>1. knows' = knows /\ UNCHANGED <<filled, returned>>
    BY DEF Publish, filled
  <2>2. knows' \in [Thread -> [Event -> Nat]] /\ \A e \in Event : knows'[p][e] \in 0 .. content[e]
    BY <1>1, <2>1 DEF Shapes, Knowledge
  <2> QED BY <1>1, <1>2, <1>3, <1>5, <1>6, <2>1, <2>2, KnowledgeAfterWrite
<1>8. Locals'
  BY <1>1, Sizes, MemoryAssumption DEF Publish, popVars, Locals
<1>9. Fillings'
  BY <1>1 DEF Publish, filled, Fillings
<1>10. Sound'
  BY <1>7, <1>8, <1>9, SoundIs, PTL
<1> QED BY <1>2, <1>5, <1>10 DEF w

\* pop_try reads the n-th write to its slot.
PopHitAt(n) ==
  /\ n \in seen[Consumer][head] .. Newest(head)
  /\ order[head][n].value # NULL
  /\ Hears(Consumer, order[head][n].view, head, Newest(head) + 1)
  /\ held' = held \union {order[head][n].value}

LEMMA PopHitEffect ==
  ASSUME Sound, PopHit, NEW n, PopHitAt(n)
  PROVE  /\ Sound'
         /\ n \in 1 .. Newest(head) /\ order[head][n] \in Entry /\ Newest(head) \in Nat
         /\ order' = [order EXCEPT ![head] = Append(@, [value |-> NULL, view |-> Nothing])]
         /\ \A u \in Thread \ {Consumer} : seen'[u] = seen[u] /\ knows'[u] = knows[u]
         /\ seen'[Consumer][head] = Newest(head) + 1
         /\ \A j \in Slot \ {head} : seen'[Consumer][j] \in seen[Consumer][j] .. Newest(j)
         /\ \A e \in Event : knows'[Consumer][e] =
              Larger(knows[Consumer][e], order[head][n].view.contents[e])
<1>1. /\ Locals /\ Knowledge /\ Shapes /\ Fillings /\ Consumer \in Thread
      /\ \A j \in Slot : Newest(j) \in Nat
  BY SoundIs, LenProperties DEF Knowledge, Thread, Shapes, Newest
<1>2. PICK i \in Slot : i = head
  BY <1>1 DEF Locals
<1>3. n \in 1 .. Newest(i) /\ n \in Nat
  <2>1. seen[Consumer][i] \in 1 .. Newest(i)
    BY <1>1 DEF Knowledge
  <2> QED BY <1>1, <1>2, <2>1 DEF PopHitAt
<1>4. order[i][n] \in Entry /\ ViewHolds(order[i][n].view)
  <2>1. order[i] \in Seq(Entry) /\ n \in 1 .. Len(order[i])
    BY <1>1, <1>3 DEF Shapes, Newest
  <2> QED BY <1>1, <1>3, <2>1, ElementOfSeq DEF Knowledge, ViewsHold
<1> DEFINE w == [value |-> NULL, view |-> Nothing]
           v == order[i][n].view
<1>5. w \in Entry /\ w.view = Nothing /\ v \in View
  BY <1>4, NothingIsAView DEF Entry
<1>6. ViewHolds(v)
  BY <1>4
<1>7. ViewHolds(Nothing)
  BY NothingHolds
<1>8. Hears(Consumer, v, i, Newest(i) + 1) /\ order' = [order EXCEPT ![i] = Append(@, w)]
  BY <1>2 DEF PopHitAt, PopHit
<1> HIDE DEF w, v
<1>9. /\ seen' \in [Thread -> [Slot -> Nat]] /\ knows' \in [Thread -> [Event -> Nat]]
      /\ \A u \in Thread \ {Consumer} : seen'[u] = seen[u] /\ knows'[u] = knows[u]
      /\ \A j \in Slot : seen'[Consumer][j] =
              Larger(IF j = i THEN Larger(Newest(i) + 1, seen[Consumer][j])
                              ELSE seen[Consumer][j], v.slots[j])
      /\ \A e \in Event : knows'[Consumer][e] = Larger(knows[Consumer][e], v.contents[e])
  <2>1. Newest(i) + 1 \in Nat
    BY <1>1
  <2> QED BY <1>1, <1>5, <1>8, <2>1, HearsEffect
<1>10. /\ \A j \in Slot : seen[Consumer][j] \in 1 .. Newest(j) /\ v.slots[j] \in 1 .. Newest(j)
       /\ \A e \in Event : knows[Consumer][e] \in 0 .. content[e] /\ v.contents[e] \in 0 .. content[e]
  BY <1>1, <1>6 DEF Knowledge, ViewHolds
<1>11. seen'[Consumer][i] = Newest(i) + 1
  <2>1. seen'[Consumer][i] = Larger(Larger(Newest(i) + 1, seen[Consumer][i]), v.slots[i])
    BY <1>9
  <2>2. Newest(i) \in Nat /\ seen[Consumer][i] \in 1 .. Newest(i) /\ v.slots[i] \in 1 .. Newest(i)
    BY <1>1, <1>10
  <2> QED BY <2>1, <2>2, LargerBetween
<1>12. ASSUME NEW j \in Slot \ {i} PROVE seen'[Consumer][j] \in seen[Consumer][j] .. Newest(j)
  <2>1. seen'[Consumer][j] = Larger(seen[Consumer][j], v.slots[j])
    BY <1>9
  <2>2. Newest(j) \in Nat /\ seen[Consumer][j] \in 1 .. Newest(j) /\ v.slots[j] \in 1 .. Newest(j)
    BY <1>1, <1>10
  <2> QED BY <2>1, <2>2, LargerBetween
<1>13. \A e \in Event : knows'[Consumer][e] \in 0 .. content[e]
  <2> SUFFICES ASSUME NEW e \in Event PROVE knows'[Consumer][e] \in 0 .. content[e]
    OBVIOUS
  <2>1. content[e] \in Nat
    BY <1>1, MemoryAssumption DEF Fillings
  <2>2. knows[Consumer][e] \in 0 .. content[e] /\ v.contents[e] \in 0 .. content[e]
    BY <1>10
  <2>3. knows'[Consumer][e] = Larger(knows[Consumer][e], v.contents[e])
    BY <1>9
  <2>4. Larger(knows[Consumer][e], v.contents[e]) \in 0 .. content[e]
    BY <2>1, <2>2, LargerStays
  <2> QED BY <2>3, <2>4
<1>14. /\ Len(order'[i]) = Newest(i) + 1
       /\ \A j \in Slot \ {i} : order'[j] = order[j]
  BY <1>1, <1>5, <1>8, WriteEffect DEF Newest
<1>15. \A j \in Slot : seen'[Consumer][j] \in 1 .. Len(order'[j])
  <2>1. ASSUME NEW j \in Slot \ {i} PROVE seen'[Consumer][j] \in 1 .. Len(order'[j])
    <3>1. seen[Consumer][j] \in 1 .. Newest(j) /\ Newest(j) \in Nat
      BY <1>1, <1>10
    <3>2. \A a, b, c \in Nat : a \in 1 .. c /\ b \in a .. c => b \in 1 .. c
      OBVIOUS
    <3>3. seen'[Consumer][j] \in Nat
      BY <1>1, <1>9
    <3>4. seen'[Consumer][j] \in 1 .. Newest(j)
      BY <1>12, <3>1, <3>2, <3>3
    <3> QED BY <1>14, <3>4 DEF Newest
  <2>2. seen'[Consumer][i] \in 1 .. Len(order'[i])
    BY <1>1, <1>11, <1>14
  <2> QED BY <2>1, <2>2
<1>16. Knowledge'
  <2>1. UNCHANGED <<filled, returned>>
    BY DEF PopHit, filled
  <2> QED BY <1>1, <1>5, <1>7, <1>8, <1>9, <1>13, <1>15, <2>1, KnowledgeAfterWrite
<1>17. Locals'
  <2>1. held' \subseteq Event
    BY <1>1, <1>2, <1>4 DEF PopHitAt, Locals, Entry
  <2>2. /\ head' \in Slot /\ cpc' = "idle" /\ popRetries' = 0 /\ owed' = FALSE
        /\ UNCHANGED <<ticket, ppc, ptr, index, retries>>
    BY <1>1, AdvanceWraps DEF PopHit, pushVars, Locals
  <2>3. 0 \in 0 .. PopRetryLimit
    BY Sizes
  <2>4. Locals
    BY <1>1
  <2> QED BY <2>1, <2>2, <2>3, <2>4 DEF Locals
<1>18. Fillings'
  BY <1>1 DEF PopHit, filled, Fillings
<1>19. Sound'
  BY <1>16, <1>17, <1>18, SoundIs, PTL
<1> QED BY <1>1, <1>2, <1>3, <1>4, <1>8, <1>9, <1>11, <1>12, <1>19 DEF w, v

-----------------------------------------------------------------------------
(* The consumer and the newest writes *)

LEMMA NewestIsNat == Sound => \A i \in Slot : Newest(i) \in Nat /\ Newest(i) >= 1
BY LenProperties DEF Sound, Shapes, ViewsHold, Newest

\* An event the consumer can read is the newest write: nothing stale is popped.
LEMMA OccupiedIsNewest ==
  ASSUME Sound, ConsumerKeepsUp, NEW i \in Slot, NEW n \in seen[Consumer][i] .. Newest(i),
         order[i][n].value # NULL
  PROVE  n = Newest(i)
<1>1. Newest(i) \in Nat /\ seen[Consumer][i] \in 1 .. Newest(i)
  BY NewestIsNat DEF Sound, TypeOK, Thread
<1>2. n \in Nat /\ seen[Consumer][i] <= n /\ n <= Newest(i)
  BY <1>1
<1>3. CASE seen[Consumer][i] = Newest(i)
  BY <1>1, <1>2, <1>3
<1>4. CASE /\ seen[Consumer][i] = Newest(i) - 1
           /\ order[i][Newest(i) - 1].value = NULL
  <2>1. n # Newest(i) - 1
    BY <1>4
  <2> QED BY <1>1, <1>2, <1>4, <2>1
<1> QED BY <1>3, <1>4 DEF ConsumerKeepsUp

\* Hearing of more takes nothing away from the consumer.
LEMMA HearingKeepsUp ==
  ASSUME Sound, ConsumerKeepsUp, order' = order,
         \A i \in Slot : seen'[Consumer][i] \in seen[Consumer][i] .. Newest(i)
  PROVE  /\ ConsumerKeepsUp'
         /\ \A i \in Slot : order[i][seen[Consumer][i]].value # NULL
                            => order'[i][seen'[Consumer][i]].value # NULL
<1>1. ASSUME NEW i \in Slot
      PROVE  \/ seen'[Consumer][i] = Newest(i)
             \/ seen'[Consumer][i] = seen[Consumer][i] /\ seen[Consumer][i] = Newest(i) - 1
  <2>1. /\ Newest(i) \in Nat /\ seen[Consumer][i] \in 1 .. Newest(i)
        /\ seen'[Consumer][i] \in seen[Consumer][i] .. Newest(i)
    BY NewestIsNat DEF Sound, TypeOK, Thread
  <2>2. seen[Consumer][i] = Newest(i) \/ seen[Consumer][i] = Newest(i) - 1
    BY DEF ConsumerKeepsUp
  <2>3. \A a, b, c \in Nat : (a = c \/ a = c - 1) /\ b \in a .. c => b = c \/ (b = a /\ a = c - 1)
    OBVIOUS
  <2>4. seen'[Consumer][i] \in Nat
    BY <2>1
  <2> QED BY <2>1, <2>2, <2>3, <2>4
<1>2. ConsumerKeepsUp'
  BY <1>1 DEF ConsumerKeepsUp, Newest, Top
<1>3. ASSUME NEW i \in Slot, order[i][seen[Consumer][i]].value # NULL
      PROVE  order'[i][seen'[Consumer][i]].value # NULL
  <2>1. Newest(i) \in Nat /\ seen[Consumer][i] \in 1 .. Newest(i)
    BY NewestIsNat DEF Sound, TypeOK, Thread
  <2>2. seen[Consumer][i] \in seen[Consumer][i] .. Newest(i)
    BY <2>1
  <2>3. seen[Consumer][i] = Newest(i)
    BY <1>3, <2>2, OccupiedIsNewest
  <2>4. seen'[Consumer][i] = Newest(i)
    BY <1>1, <2>1, <2>3
  <2> QED BY <1>3, <2>3, <2>4
<1> QED BY <1>2, <1>3

-----------------------------------------------------------------------------
(* Steps that write to no slot *)

Hearing ==
  /\ order' = order /\ content' = content
  /\ \A i \in Slot : seen'[Consumer][i] \in seen[Consumer][i] .. Newest(i)
  /\ \A t \in Thread, e \in Event : knows'[t][e] \in knows[t][e] .. content[e]

LEMMA HearsNothing ==
  ASSUME Sound, UNCHANGED <<order, seen, content, knows>>
  PROVE  Hearing
<1>1. \A i \in Slot : Newest(i) \in Nat /\ seen[Consumer][i] \in 1 .. Newest(i)
  BY NewestIsNat DEF Sound, TypeOK, Thread
<1>2. \A t \in Thread, e \in Event : content[e] \in Nat /\ knows[t][e] \in 0 .. content[e]
  BY MemoryAssumption DEF Sound, TypeOK
<1> QED BY <1>1, <1>2 DEF Hearing

LEMMA OwnersStay ==
  ASSUME MemoryInv, Hearing, ptr' = ptr, held' \subseteq held
  PROVE  ConsumerKeepsUp' /\ OneOwner' /\ ContentsTravel'
<1>1. ConsumerKeepsUp'
  BY HearingKeepsUp DEF MemoryInv, Hearing
<1>2. OneOwner'
  BY DEF MemoryInv, OneOwner, Hearing, Top, Newest, Queued
<1>3. ASSUME NEW t \in Thread, NEW e \in Event, knows[t][e] = content[e]
      PROVE  knows'[t][e] = content'[e]
  <2>1. content[e] \in Nat /\ content' = content
    BY MemoryAssumption DEF MemoryInv, Sound, TypeOK, Hearing
  <2>2. knows'[t][e] \in content[e] .. content[e]
    BY <1>3 DEF Hearing
  <2> QED BY <2>1, <2>2
<1>4. ContentsTravel'
  <2>1. \A p \in Producer : ptr'[p] # NULL => knows'[p][ptr'[p]] = content'[ptr'[p]]
    <3> SUFFICES ASSUME NEW p \in Producer, ptr[p] # NULL
                 PROVE  knows'[p][ptr[p]] = content'[ptr[p]]
      OBVIOUS
    <3>1. ptr[p] \in Event /\ p \in Thread
      BY DEF MemoryInv, Sound, TypeOK, Thread
    <3>2. knows[p][ptr[p]] = content[ptr[p]]
      BY DEF MemoryInv, ContentsTravel
    <3> QED BY <1>3, <3>1, <3>2
  <2>2. \A e \in held' : knows'[Consumer][e] = content'[e]
    <3> SUFFICES ASSUME NEW e \in held PROVE knows'[Consumer][e] = content'[e]
      OBVIOUS
    <3>1. e \in Event /\ Consumer \in Thread /\ knows[Consumer][e] = content[e]
      BY DEF MemoryInv, Sound, TypeOK, Thread, ContentsTravel, ContentsArrive
    <3> QED BY <1>3, <3>1
  <2> QED
    BY <2>1, <2>2 DEF MemoryInv, ContentsTravel, ContentsArrive, Hearing, Top, Newest
<1> QED BY <1>1, <1>2, <1>4

\* What was in reach of the scan stays in reach while the cursor stands.
LEMMA ReachStays ==
  ASSUME MemoryInv, Hearing, UNCHANGED <<head, cpc, popRetries, owed>>
  PROVE  HeardOfInReach'
<1>1. \A i \in Slot : order[i][seen[Consumer][i]].value # NULL
                      => order'[i][seen'[Consumer][i]].value # NULL
  BY HearingKeepsUp DEF MemoryInv, Hearing
<1> QED BY <1>1 DEF MemoryInv, HeardOfInReach, Ahead

LEMMA LocalSteps ==
  ASSUME MemoryInv, NEW p \in Producer, TakeTicket(p) \/ PushAgain(p)
  PROVE  MemoryInv'
<1> USE DEF TakeTicket, PushAgain
<1>1. Locals /\ Knowledge /\ Fillings
  BY SoundIs DEF MemoryInv
<1>2. UNCHANGED memVars /\ UNCHANGED <<order, seen, content, fills, knows>>
  BY DEF memVars, filled
<1>3. Sound'
  <2>1. Locals'
    BY <1>1, AdvanceWraps, TicketNamesSlot DEF Locals, popVars
  <2>2. Knowledge' /\ Fillings'
    BY <1>1, <1>2, KnowledgeUnchanged DEF Fillings, MemoryInv
  <2> QED BY <2>1, <2>2, SoundIs, PTL
<1>4. ConsumerKeepsUp' /\ OneOwner' /\ ContentsTravel' /\ HeardOfInReach'
  BY <1>2, HearsNothing, OwnersStay, ReachStays DEF MemoryInv, popVars
<1>5. CallsCarryEvents'
  BY <1>1 DEF MemoryInv, CallsCarryEvents, Locals
<1> QED BY <1>3, <1>4, <1>5 DEF MemoryInv

LEMMA PushFails ==
  ASSUME MemoryInv, NEW p \in Producer, PushFail(p)
  PROVE  MemoryInv'
<1>1. Locals /\ Knowledge /\ Fillings /\ p \in Thread /\ p # Consumer /\ Consumer \in Thread
  BY SoundIs, MemoryAssumption DEF MemoryInv, Thread
<1>2. PICK i \in Slot : i = index[p]
  BY <1>1 DEF Locals
<1>3. PICK n \in seen[p][i] .. Newest(i) : seen' = [seen EXCEPT ![p][i] = n]
  BY <1>2 DEF PushFail
<1>4. /\ UNCHANGED <<order, filled, knows, returned>> /\ UNCHANGED <<content, fills, ptr>>
      /\ UNCHANGED <<head, cpc, popRetries, held, owed>>
  BY DEF PushFail, filled, popVars
<1>5. Knowledge'
  BY <1>1, <1>3, <1>4, SoundAfterReading DEF MemoryInv
<1>6. Sound'
  <2>1. Locals'
    <3>1. index' \in [Producer -> Slot] /\ ppc' \in [Producer -> {"idle", "try", "cas", "failed"}]
      BY <1>1, Sizes DEF PushFail, Locals
    <3>2. retries' \in [Producer -> 0 .. PushRetryLimit]
      <4>1. retries[p] \in 0 .. PushRetryLimit /\ PushRetryLimit \in Nat
        BY <1>1, MemoryAssumption DEF Locals
      <4>2. CASE retries[p] + 1 <= PushRetryLimit
        BY <1>1, <4>1, <4>2 DEF PushFail, Locals
      <4>3. CASE ~(retries[p] + 1 <= PushRetryLimit)
        BY <1>1, <4>1, <4>3 DEF PushFail, Locals
      <4> QED BY <4>2, <4>3
    <3>3. ticket' = ticket
      BY DEF PushFail
    <3> QED BY <1>1, <1>4, <3>1, <3>2, <3>3 DEF Locals
  <2>2. Fillings'
    BY <1>1, <1>4 DEF Fillings
  <2> QED BY <1>5, <2>1, <2>2, SoundIs, PTL
<1>7. Hearing
  <2>1. seen'[Consumer] = seen[Consumer]
    BY <1>1, <1>3 DEF Knowledge, Shapes
  <2>2. \A j \in Slot : seen[Consumer][j] \in seen[Consumer][j] .. Newest(j)
    BY <1>1, NewestIsNat DEF Knowledge, MemoryInv
  <2>3. \A t \in Thread, e \in Event : knows[t][e] \in knows[t][e] .. content[e]
    BY <1>1, MemoryAssumption DEF Knowledge, Fillings
  <2> QED BY <1>4, <2>1, <2>2, <2>3 DEF Hearing
<1>8. ConsumerKeepsUp' /\ OneOwner' /\ ContentsTravel' /\ HeardOfInReach'
  BY <1>4, <1>7, OwnersStay, ReachStays
<1>9. CallsCarryEvents'
  BY <1>1 DEF MemoryInv, CallsCarryEvents, Locals, PushFail
<1> QED BY <1>6, <1>8, <1>9 DEF MemoryInv

LEMMA ConsumerMeets ==
  ASSUME MemoryInv, NEW p \in Producer, Meet(p)
  PROVE  MemoryInv'
<1>1. Locals /\ Knowledge /\ Fillings /\ p \in Thread /\ Consumer \in Thread
  BY SoundIs DEF MemoryInv, Thread
<1>2. /\ UNCHANGED <<order, filled, returned>> /\ UNCHANGED <<content, fills>>
      /\ UNCHANGED <<ticket, ppc, ptr, index, retries, head, cpc, popRetries, held, owed>>
  BY DEF Meet, filled, popVars, pushVars
<1>3. ViewOf(p) \in View /\ ViewHolds(ViewOf(p)) /\ seen[p][0] \in 1 .. Newest(0)
  BY <1>1, ViewOfTyped, Sizes DEF MemoryInv, Knowledge
<1>4. Hears(Consumer, ViewOf(p), 0, seen[p][0])
  BY DEF Meet
<1>5. /\ Knowledge'
      /\ \A u \in Thread, i \in Slot : seen'[u][i] \in seen[u][i] .. Newest(i)
      /\ \A u \in Thread, e \in Event : knows'[u][e] \in knows[u][e] .. content[e]
  BY <1>1, <1>2, <1>3, <1>4, SoundAfterHearing DEF MemoryInv
<1>6. Sound'
  <2>1. Locals' /\ Fillings'
    BY <1>1, <1>2 DEF Locals, Fillings
  <2> QED BY <1>5, <2>1, SoundIs, PTL
<1>7. Hearing
  BY <1>1, <1>2, <1>5 DEF Hearing
<1>8. ConsumerKeepsUp' /\ OneOwner' /\ ContentsTravel' /\ HeardOfInReach'
  BY <1>2, <1>7, OwnersStay, ReachStays
<1>9. CallsCarryEvents'
  BY <1>2 DEF MemoryInv, CallsCarryEvents
<1> QED BY <1>6, <1>8, <1>9 DEF MemoryInv

LEMMA StoresArrive ==
  ASSUME MemoryInv, NEW i \in Slot, Arrive(i)
  PROVE  MemoryInv'
<1>1. Locals /\ Knowledge /\ Fillings /\ Consumer \in Thread
  BY SoundIs DEF MemoryInv, Thread
<1>2. /\ UNCHANGED <<order, filled, knows, returned>> /\ UNCHANGED <<content, fills>>
      /\ UNCHANGED <<ticket, ppc, ptr, index, retries, head, cpc, popRetries, held, owed>>
  BY DEF Arrive, filled, popVars, pushVars
<1>3. /\ Newest(i) \in seen[Consumer][i] .. Newest(i)
      /\ seen' = [seen EXCEPT ![Consumer][i] = Newest(i)]
  BY <1>1, NewestIsNat DEF Arrive, Knowledge, MemoryInv
<1>4. Knowledge' /\ \A u \in Thread, j \in Slot : seen'[u][j] \in seen[u][j] .. Newest(j)
  BY <1>1, <1>2, <1>3, SoundAfterReading DEF MemoryInv
<1>5. Sound'
  <2>1. Locals' /\ Fillings'
    BY <1>1, <1>2 DEF Locals, Fillings
  <2> QED BY <1>4, <2>1, SoundIs, PTL
<1>6. Hearing
  <2>1. \A t \in Thread, e \in Event : knows[t][e] \in knows[t][e] .. content[e]
    BY <1>1, MemoryAssumption DEF Knowledge, Fillings
  <2> QED BY <1>1, <1>2, <1>4, <2>1 DEF Hearing
<1>7. ConsumerKeepsUp' /\ OneOwner' /\ ContentsTravel' /\ HeardOfInReach'
  BY <1>2, <1>6, OwnersStay, ReachStays
<1>8. CallsCarryEvents'
  BY <1>2 DEF MemoryInv, CallsCarryEvents
<1> QED BY <1>5, <1>7, <1>8 DEF MemoryInv

LEMMA EventsReturn ==
  ASSUME MemoryInv, NEW e \in Event, Return(e)
  PROVE  MemoryInv'
<1>1. Locals /\ Knowledge /\ Fillings /\ Consumer \in Thread
  BY SoundIs DEF MemoryInv, Thread
<1>2. /\ UNCHANGED <<order, seen, content, fills, knows>> /\ held' \subseteq held
      /\ UNCHANGED <<ticket, ppc, ptr, index, retries, head, cpc, popRetries, owed>>
      /\ returned' = [returned EXCEPT ![e] = ViewOf(Consumer)]
  BY DEF Return, filled, pushVars
<1>3. ViewOf(Consumer) \in View /\ ViewHolds(ViewOf(Consumer))
  BY <1>1, ViewOfTyped DEF MemoryInv
<1>4. Sound'
  <2>1. \A f \in Event : ViewHolds(returned'[f])
    BY <1>1, <1>2, <1>3 DEF Knowledge, ViewsHold, Shapes
  <2>2. returned' \in [Event -> View]
    BY <1>1, <1>2, <1>3 DEF Knowledge, Shapes
  <2>3. Knowledge'
    BY <1>1, <1>2, <2>1, <2>2
       DEF Knowledge, Shapes, ViewsHold, ViewHolds, ContentsBounded, Newest
  <2>4. Locals' /\ Fillings'
    BY <1>1, <1>2 DEF Locals, Fillings
  <2> QED BY <2>3, <2>4, SoundIs, PTL
<1>5. Hearing
  BY <1>2, HearsNothing DEF MemoryInv
<1>6. ConsumerKeepsUp' /\ OneOwner' /\ ContentsTravel' /\ HeardOfInReach'
  BY <1>2, <1>5, OwnersStay, ReachStays
<1>7. CallsCarryEvents'
  BY <1>2 DEF MemoryInv, CallsCarryEvents
<1> QED BY <1>4, <1>6, <1>7 DEF MemoryInv

-----------------------------------------------------------------------------
(* The scan *)

LEMMA AheadBound ==
  ASSUME Sound, NEW i \in Slot
  PROVE  Ahead(i) \in 0 .. Capacity - 1 /\ (Ahead(i) = 0 => i = head)
BY Sizes DEF Sound, TypeOK, Ahead

\* A slot that is not under the cursor gets one step nearer.
LEMMA AheadAfterMiss ==
  ASSUME Sound, head' = Advance(head), NEW i \in Slot, i # head
  PROVE  Ahead(i)' + 1 = Ahead(i) /\ Ahead(i)' \in Int
<1>1. head \in Slot /\ head' = (IF head = Capacity - 1 THEN 0 ELSE head + 1)
  BY AdvanceWraps DEF Sound, TypeOK
<1> QED BY <1>1, Sizes DEF Ahead

LEMMA PopIsCalled == MemoryInv /\ PopCall => MemoryInv'
<1> SUFFICES ASSUME MemoryInv, PopCall PROVE MemoryInv'
  OBVIOUS
<1>1. Locals /\ Knowledge /\ Fillings
  BY SoundIs DEF MemoryInv
<1>2. /\ UNCHANGED memVars /\ UNCHANGED <<order, seen, content, fills, knows>>
      /\ UNCHANGED <<ticket, ppc, ptr, index, retries, head, popRetries, held>>
      /\ cpc' = "popping" /\ owed' = \E i \in Slot : order[i][seen[Consumer][i]].value # NULL
      /\ popRetries = 0
  BY DEF PopCall, memVars, filled, pushVars, MemoryInv, HeardOfInReach
<1>3. Sound'
  <2>1. owed' \in BOOLEAN
    BY <1>2
  <2>2. Locals'
    BY <1>1, <1>2, <2>1 DEF Locals
  <2>3. Knowledge' /\ Fillings'
    BY <1>1, <1>2, KnowledgeUnchanged DEF Fillings, MemoryInv
  <2> QED BY <2>2, <2>3, SoundIs, PTL
<1>4. ConsumerKeepsUp' /\ OneOwner' /\ ContentsTravel'
  BY <1>2, HearsNothing, OwnersStay DEF MemoryInv
<1>5. HeardOfInReach'
  <2> SUFFICES ASSUME NEW i \in Slot, order[i][seen[Consumer][i]].value # NULL
               PROVE  \E j \in Slot : /\ order'[j][seen'[Consumer][j]].value # NULL
                                      /\ Ahead(j)' + popRetries' <= PopRetryLimit
    BY <1>2 DEF HeardOfInReach
  <2>1. Ahead(i)' = Ahead(i) /\ Ahead(i) \in 0 .. Capacity - 1
    BY <1>2, AheadBound DEF Ahead, MemoryInv
  <2>2. Ahead(i) + 0 <= PopRetryLimit
    BY <2>1, Sizes
  <2> QED BY <1>2, <2>1, <2>2
<1>6. CallsCarryEvents'
  BY <1>2 DEF MemoryInv, CallsCarryEvents
<1> QED BY <1>3, <1>4, <1>5, <1>6 DEF MemoryInv

LEMMA PopMisses == MemoryInv /\ PopMiss => MemoryInv'
<1> SUFFICES ASSUME MemoryInv, PopMiss PROVE MemoryInv'
  OBVIOUS
<1>1. Locals /\ Knowledge /\ Fillings /\ Consumer \in Thread
  BY SoundIs DEF MemoryInv, Thread
<1>2. PICK i \in Slot : i = head
  BY <1>1 DEF Locals
<1>3. PICK n \in seen[Consumer][i] .. Newest(i) :
        order[i][n].value = NULL /\ seen' = [seen EXCEPT ![Consumer][i] = n]
  BY <1>2 DEF PopMiss
<1>4. /\ UNCHANGED <<order, filled, knows, returned>> /\ UNCHANGED <<content, fills>>
      /\ UNCHANGED <<ticket, ppc, ptr, index, retries, held, owed>>
      /\ head' = Advance(head) /\ cpc = "popping"
  BY DEF PopMiss, filled, pushVars
<1>5. Knowledge' /\ \A u \in Thread, j \in Slot : seen'[u][j] \in seen[u][j] .. Newest(j)
  BY <1>1, <1>3, <1>4, SoundAfterReading DEF MemoryInv
<1>6. /\ popRetries \in Nat
      /\ \/ /\ popRetries + 1 <= PopRetryLimit
            /\ popRetries' = popRetries + 1 /\ cpc' = "popping"
         \/ popRetries = PopRetryLimit /\ popRetries' = 0 /\ cpc' = "empty"
  BY <1>1, <1>4, Sizes DEF PopMiss, Locals
<1>7. Sound'
  <2>1. head' \in Slot
    BY <1>1, <1>4, AdvanceWraps DEF Locals
  <2>2. popRetries' \in 0 .. PopRetryLimit /\ cpc' \in {"idle", "popping", "empty"}
    BY <1>6, Sizes
  <2>3. Locals' /\ Fillings'
    BY <1>1, <1>4, <2>1, <2>2 DEF Locals, Fillings
  <2> QED BY <1>5, <2>3, SoundIs, PTL
<1>8. Hearing
  <2>1. \A t \in Thread, e \in Event : knows[t][e] \in knows[t][e] .. content[e]
    BY <1>1, MemoryAssumption DEF Knowledge, Fillings
  <2> QED BY <1>1, <1>4, <1>5, <2>1 DEF Hearing
<1>9. ConsumerKeepsUp' /\ OneOwner' /\ ContentsTravel'
  BY <1>4, <1>8, OwnersStay
\* What has to be found is not under the cursor.
<1>10. ASSUME NEW j \in Slot, order[j][seen[Consumer][j]].value # NULL
       PROVE  j # head /\ order'[j][seen'[Consumer][j]].value # NULL
  <2>1. order'[j][seen'[Consumer][j]].value # NULL
    BY <1>8, <1>10, HearingKeepsUp DEF MemoryInv, Hearing
  <2>2. seen'[Consumer][i] = n
    BY <1>1, <1>3 DEF Knowledge, Shapes
  <2> QED BY <1>2, <1>3, <1>4, <2>1, <2>2
<1>11. HeardOfInReach'
  <2>1. ASSUME owed
        PROVE  /\ cpc' = "popping"
               /\ \E j \in Slot : /\ order'[j][seen'[Consumer][j]].value # NULL
                                  /\ Ahead(j)' + popRetries' <= PopRetryLimit
    <3>1. PICK j \in Slot : /\ order[j][seen[Consumer][j]].value # NULL
                            /\ Ahead(j) + popRetries <= PopRetryLimit
      BY <1>4, <2>1 DEF MemoryInv, HeardOfInReach
    <3>2. j # head /\ order'[j][seen'[Consumer][j]].value # NULL
      BY <1>10, <3>1
    <3>3. Ahead(j)' + 1 = Ahead(j) /\ Ahead(j)' \in Int
      BY <1>4, <3>2, AheadAfterMiss DEF MemoryInv
    <3>4. Ahead(j) \in 0 .. Capacity - 1 /\ Ahead(j) # 0
      BY <3>2, AheadBound DEF MemoryInv
    <3>5. popRetries # PopRetryLimit
      BY <1>6, <3>1, <3>4, Sizes
    <3>6. popRetries' = popRetries + 1 /\ cpc' = "popping"
      BY <1>6, <3>5
    <3>7. Ahead(j)' + popRetries' <= PopRetryLimit
      BY <1>6, <3>1, <3>3, <3>4, <3>6, Sizes
    <3> QED BY <3>2, <3>6, <3>7
  <2>2. cpc' # "popping" => popRetries' = 0
    BY <1>6
  <2> QED BY <1>1, <1>4, <2>1, <2>2 DEF HeardOfInReach, Locals
<1>12. CallsCarryEvents'
  BY <1>4 DEF MemoryInv, CallsCarryEvents
<1> QED BY <1>7, <1>9, <1>11, <1>12 DEF MemoryInv

-----------------------------------------------------------------------------
(* Steps that fill an event or write to a slot *)

LEMMA PushIsCalled ==
  ASSUME MemoryInv, NEW p \in Producer, NEW e \in Event, PushCall(p, e)
  PROVE  MemoryInv'
<1>1. Locals /\ Knowledge /\ Fillings /\ p # Consumer /\ Consumer \in Thread /\ p \in Thread
  BY SoundIs, MemoryAssumption DEF MemoryInv, Thread
<1>2. /\ Sound'
      /\ \A u \in Thread \ {p} : seen'[u] = seen[u] /\ knows'[u] = knows[u]
      /\ knows'[p][e] = content'[e]
      /\ \A f \in Event \ {e} : content'[f] = content[f]
  BY PushCallEffect DEF MemoryInv
<1>3. /\ order' = order /\ UNCHANGED <<head, cpc, popRetries, held, owed>>
      /\ ppc' = [ppc EXCEPT ![p] = "try"] /\ ptr' = [ptr EXCEPT ![p] = e]
      /\ ppc[p] = "idle" /\ Free(e)
  BY DEF PushCall, popVars
<1>4. ConsumerKeepsUp' /\ HeardOfInReach'
  BY <1>1, <1>2, <1>3 DEF MemoryInv, ConsumerKeepsUp, HeardOfInReach, Newest, Top, Ahead
<1>5. OneOwner' /\ Queued' = Queued
  <2>1. Queued' = Queued
    BY <1>3 DEF Queued, Newest
  <2>2. \A i, j \in Slot : Top(i)' = Top(j)' /\ Top(i)' # NULL => i = j
    BY <1>3 DEF MemoryInv, OneOwner, Top, Newest
  <2>3. \A q \in Producer : ptr'[q] = IF q = p THEN e ELSE ptr[q]
    BY <1>1, <1>3 DEF Locals
  <2> QED BY <1>3, <2>1, <2>2, <2>3 DEF MemoryInv, OneOwner, Free
<1>6. ContentsTravel'
  <2>1. \A q \in Producer : ptr'[q] # NULL => knows'[q][ptr'[q]] = content'[ptr'[q]]
    <3> SUFFICES ASSUME NEW q \in Producer, q # p, ptr[q] # NULL
                 PROVE  knows'[q][ptr[q]] = content'[ptr[q]]
      BY <1>1, <1>2, <1>3 DEF Locals
    <3>1. ptr[q] \in Event \ {e} /\ q \in Thread \ {p}
      BY <1>1, <1>3 DEF Locals, Free, Thread
    <3> QED BY <1>2, <3>1 DEF MemoryInv, ContentsTravel
  <2>2. \A i \in Slot : Top(i) # NULL =>
          order[i][Newest(i)].view.contents[Top(i)] = content'[Top(i)]
    <3> SUFFICES ASSUME NEW i \in Slot, Top(i) # NULL
                 PROVE  order[i][Newest(i)].view.contents[Top(i)] = content'[Top(i)]
      OBVIOUS
    <3>1. Top(i) \in Queued
      BY DEF Queued, Top
    <3>2. Top(i) \in Event
      BY NewestIsNat DEF MemoryInv, Sound, TypeOK, Top
    <3> QED BY <1>2, <1>3, <3>1, <3>2 DEF Free, MemoryInv, ContentsTravel
  <2>3. \A f \in held' : knows'[Consumer][f] = content'[f]
    BY <1>1, <1>2, <1>3 DEF Free, MemoryInv, ContentsTravel, ContentsArrive, Locals
  <2> QED BY <1>3, <2>1, <2>2, <2>3 DEF ContentsTravel, ContentsArrive, Top, Newest
<1>7. CallsCarryEvents'
  BY <1>1, <1>3, MemoryAssumption DEF MemoryInv, CallsCarryEvents, Locals
<1> QED BY <1>2, <1>4, <1>5, <1>6, <1>7 DEF MemoryInv

\* The newest writes after one more.
LEMMA TopsAfterWrite ==
  ASSUME Sound, NEW i \in Slot, NEW w \in Entry, order' = [order EXCEPT ![i] = Append(@, w)]
  PROVE  /\ \A j \in Slot : order'[j][Len(order'[j])] = IF j = i THEN w ELSE order[j][Newest(j)]
         /\ Queued' = ({Top(j) : j \in Slot \ {i}} \union {w.value}) \ {NULL}
<1>1. /\ \A j \in Slot : Len(order[j]) \in Nat
      /\ Len(order'[i]) = Len(order[i]) + 1 /\ order'[i][Len(order[i]) + 1] = w
      /\ \A j \in Slot \ {i} : order'[j] = order[j]
  BY WriteEffect DEF Sound
<1>2. \A j \in Slot : order'[j][Len(order'[j])] = IF j = i THEN w ELSE order[j][Newest(j)]
  BY <1>1 DEF Newest
<1>3. Queued' = {order'[j][Len(order'[j])].value : j \in Slot} \ {NULL}
  BY DEF Queued, Newest
<1>4. {order'[j][Len(order'[j])].value : j \in Slot} = {Top(j) : j \in Slot \ {i}} \union {w.value}
  BY <1>2 DEF Top
<1> QED BY <1>2, <1>3, <1>4

LEMMA Publishes ==
  ASSUME MemoryInv, NEW p \in Producer, Publish(p)
  PROVE  MemoryInv' /\ Queued' = Queued \union {ptr[p]} /\ held' = held
<1>1. Locals /\ Knowledge /\ Fillings /\ p # Consumer /\ Consumer \in Thread /\ p \in Thread
  BY SoundIs, MemoryAssumption DEF MemoryInv, Thread
<1>2. PICK i \in Slot : i = index[p]
  BY <1>1 DEF Locals
<1> DEFINE e == ptr[p]
           w == [value |-> e, view |-> ViewOf(p)]
<1>3. e \in Event /\ e # NULL /\ Top(i) = NULL
  BY <1>1, <1>2 DEF MemoryInv, CallsCarryEvents, Publish, Locals, Top
<1>4. /\ Sound' /\ order' = [order EXCEPT ![i] = Append(@, w)]
      /\ \A u \in Thread \ {p} : seen'[u] = seen[u]
  BY <1>2, <1>3, PublishEffect DEF MemoryInv
<1>5. /\ knows' = knows /\ content' = content /\ ppc' = [ppc EXCEPT ![p] = "idle"]
      /\ ptr' = [ptr EXCEPT ![p] = NULL] /\ UNCHANGED <<head, cpc, popRetries, held, owed>>
  BY DEF Publish, filled, popVars
<1>6. /\ w \in Entry /\ w.value = e /\ w.view.contents = knows[p]
  BY <1>1, <1>3, ViewOfTyped DEF Entry, MemoryInv
<1> HIDE DEF w
<1>7. /\ \A j \in Slot : order'[j][Len(order'[j])] = IF j = i THEN w ELSE order[j][Newest(j)]
      /\ Queued' = ({Top(j) : j \in Slot \ {i}} \union {w.value}) \ {NULL}
  BY <1>4, <1>6, TopsAfterWrite DEF MemoryInv
<1>8. Queued' = Queued \union {e}
  <2>1. Queued = {Top(j) : j \in Slot} \ {NULL}
    BY DEF Queued, Top
  <2>2. {Top(j) : j \in Slot} = {Top(j) : j \in Slot \ {i}} \union {NULL}
    BY <1>3
  <2> HIDE DEF e
  <2> QED BY <1>3, <1>6, <1>7, <2>1, <2>2
<1>9. /\ \A j \in Slot : Len(order[j]) \in Nat
      /\ Len(order'[i]) = Len(order[i]) + 1
      /\ \A n \in 1 .. Len(order[i]) : order'[i][n] = order[i][n]
      /\ \A j \in Slot \ {i} : order'[j] = order[j]
  BY <1>4, <1>6, WriteEffect DEF MemoryInv, Sound
<1>10. seen'[Consumer] = seen[Consumer] /\ seen[Consumer][i] = Len(order[i]) /\ Len(order[i]) >= 1
  BY <1>1, <1>3, <1>4, NewestIsNat DEF MemoryInv, ConsumerKeepsUp, Newest
<1>11. ConsumerKeepsUp'
  <2>1. ASSUME NEW j \in Slot \ {i}
        PROVE  \/ seen'[Consumer][j] = Len(order'[j])
               \/ /\ seen'[Consumer][j] = Len(order'[j]) - 1
                  /\ order'[j][Len(order'[j])].value # NULL
                  /\ order'[j][Len(order'[j]) - 1].value = NULL
    BY <1>9, <1>10 DEF MemoryInv, ConsumerKeepsUp, Newest, Top
  <2>2. /\ seen'[Consumer][i] = Len(order'[i]) - 1
        /\ order'[i][Len(order'[i])].value # NULL
        /\ order'[i][Len(order'[i]) - 1].value = NULL
    <3>1. Len(order'[i]) - 1 = Len(order[i])
      BY <1>9
    <3>2. order'[i][Len(order[i])] = order[i][Len(order[i])]
      BY <1>9, <1>10
    <3> QED BY <1>3, <1>6, <1>7, <1>10, <3>1, <3>2 DEF Top, Newest
  <2> QED BY <2>1, <2>2 DEF ConsumerKeepsUp, Newest, Top
<1>12. OneOwner'
  <2>1. \A j, k \in Slot :
          LET v == order'[j][Len(order'[j])].value
          IN v = order'[k][Len(order'[k])].value /\ v # NULL => j = k
    <3>1. \A j \in Slot : Top(j) # e
      BY <1>3 DEF MemoryInv, OneOwner, Queued, Top
    <3>2. \A j \in Slot : order'[j][Len(order'[j])].value = IF j = i THEN e ELSE Top(j)
      BY <1>6, <1>7 DEF Top
    <3> QED BY <3>1, <3>2 DEF MemoryInv, OneOwner
  <2>2. \A q \in Producer : ptr'[q] = IF q = p THEN NULL ELSE ptr[q]
    BY <1>1, <1>5 DEF Locals
  <2>3. NULL \notin Queued' /\ NULL \notin held
    BY <1>1, <1>7, MemoryAssumption DEF Locals
  <2>4. \A q \in Producer \ {p} : ptr[q] # e
    BY <1>3 DEF MemoryInv, OneOwner
  <2>5. e \notin held
    BY DEF MemoryInv, OneOwner
  <2>6. \A q \in Producer : ptr'[q] \notin Queued' \union held'
    BY <1>5, <1>8, <2>2, <2>3, <2>4 DEF MemoryInv, OneOwner
  <2>7. Queued' \intersect held' = {}
    BY <1>5, <1>8, <2>5 DEF MemoryInv, OneOwner
  <2>8. \A q, r \in Producer : ptr'[q] = ptr'[r] /\ ptr'[q] # NULL => q = r
    BY <2>2 DEF MemoryInv, OneOwner
  <2> QED BY <2>1, <2>6, <2>7, <2>8 DEF OneOwner, Top, Newest
<1>13. ContentsTravel'
  <2>1. \A q \in Producer : ptr'[q] # NULL => knows'[q][ptr'[q]] = content'[ptr'[q]]
    BY <1>1, <1>5 DEF MemoryInv, ContentsTravel, Locals
  <2>2. ASSUME NEW j \in Slot, order'[j][Len(order'[j])].value # NULL
        PROVE  order'[j][Len(order'[j])].view.contents[order'[j][Len(order'[j])].value]
                 = content[order'[j][Len(order'[j])].value]
    BY <1>3, <1>6, <1>7, <2>2 DEF MemoryInv, ContentsTravel, Top
  <2> QED BY <1>5, <2>1, <2>2 DEF MemoryInv, ContentsTravel, ContentsArrive, Top, Newest
<1>14. HeardOfInReach'
  <2>1. ASSUME NEW j \in Slot, order[j][seen[Consumer][j]].value # NULL
        PROVE  order'[j][seen'[Consumer][j]].value # NULL
    <3>1. j # i
      BY <1>3, <1>10, <2>1 DEF Top, Newest
    <3> QED BY <1>9, <1>10, <2>1, <3>1
  <2> QED BY <1>5, <2>1 DEF MemoryInv, HeardOfInReach, Ahead
<1>15. CallsCarryEvents'
  BY <1>1, <1>5 DEF MemoryInv, CallsCarryEvents, Locals
<1> QED BY <1>4, <1>5, <1>8, <1>11, <1>12, <1>13, <1>14, <1>15 DEF MemoryInv

LEMMA PopHits ==
  ASSUME MemoryInv, PopHit
  PROVE  /\ MemoryInv'
         /\ \E e \in Queued : Queued' = Queued \ {e} /\ held' = held \union {e}
<1>1. Locals /\ Knowledge /\ Fillings /\ Consumer \in Thread /\ Consumer \notin Producer
  BY SoundIs, MemoryAssumption DEF MemoryInv, Thread
<1>2. PICK n : PopHitAt(n)
  BY DEF PopHit, PopHitAt
<1>3. PICK i \in Slot : i = head
  BY <1>1 DEF Locals
<1>4. n = Newest(i)
  BY <1>2, <1>3, OccupiedIsNewest DEF PopHitAt, MemoryInv
<1> DEFINE e == Top(i)
           w == [value |-> NULL, view |-> Nothing]
<1>5. /\ Sound' /\ Newest(i) \in Nat /\ Newest(i) >= 1
      /\ order' = [order EXCEPT ![i] = Append(@, w)]
      /\ \A u \in Thread \ {Consumer} : seen'[u] = seen[u] /\ knows'[u] = knows[u]
      /\ seen'[Consumer][i] = Newest(i) + 1
      /\ \A j \in Slot \ {i} : seen'[Consumer][j] \in seen[Consumer][j] .. Newest(j)
      /\ \A f \in Event : knows'[Consumer][f] =
           Larger(knows[Consumer][f], order[i][Newest(i)].view.contents[f])
  BY <1>2, <1>3, <1>4, PopHitEffect, NewestIsNat DEF MemoryInv
<1>6. e # NULL /\ e \in Queued /\ e \in Event /\ held' = held \union {e}
  <2>1. e # NULL /\ held' = held \union {e}
    BY <1>2, <1>3, <1>4 DEF PopHitAt, Top
  <2>2. e \in Event \union {NULL}
    BY <1>5 DEF MemoryInv, Sound, TypeOK, Top
  <2> QED BY <2>1, <2>2 DEF Queued, Top
<1>7. /\ content' = content /\ UNCHANGED <<ppc, ptr>>
      /\ cpc' = "idle" /\ popRetries' = 0 /\ owed' = FALSE
  BY DEF PopHit, filled, pushVars
<1>8. w \in Entry /\ w.value = NULL
  BY NothingIsAView DEF Entry
<1> HIDE DEF w, e
<1>9. /\ \A j \in Slot : order'[j][Len(order'[j])] = IF j = i THEN w ELSE order[j][Newest(j)]
      /\ Queued' = ({Top(j) : j \in Slot \ {i}} \union {NULL}) \ {NULL}
  BY <1>5, <1>8, TopsAfterWrite DEF MemoryInv
<1>10. /\ Len(order'[i]) = Newest(i) + 1
       /\ \A j \in Slot \ {i} : order'[j] = order[j]
  BY <1>5, <1>8, WriteEffect DEF MemoryInv, Sound, Newest
<1>11. Queued' = Queued \ {e}
  <2>1. Queued = ({Top(j) : j \in Slot \ {i}} \union {e}) \ {NULL}
    BY DEF Queued, Top, e
  <2>2. e \notin {Top(j) : j \in Slot \ {i}}
    BY <1>6 DEF MemoryInv, OneOwner, e
  <2> QED BY <1>9, <2>1, <2>2
<1>12. ConsumerKeepsUp'
  <2>1. ASSUME NEW j \in Slot \ {i}
        PROVE  \/ seen'[Consumer][j] = Len(order[j])
               \/ /\ seen'[Consumer][j] = Len(order[j]) - 1
                  /\ order[j][Len(order[j])].value # NULL
                  /\ order[j][Len(order[j]) - 1].value = NULL
    <3>1. /\ Newest(j) \in Nat /\ seen[Consumer][j] \in 1 .. Newest(j)
          /\ seen'[Consumer][j] \in seen[Consumer][j] .. Newest(j)
      BY <1>1, <1>5, NewestIsNat DEF MemoryInv, Knowledge
    <3>2. \A a, b, c \in Nat : (a = c \/ a = c - 1) /\ b \in a .. c => b = c \/ (b = a /\ a = c - 1)
      OBVIOUS
    <3>3. seen[Consumer][j] = Newest(j) \/ seen[Consumer][j] = Newest(j) - 1
      BY DEF MemoryInv, ConsumerKeepsUp
    <3>4. seen'[Consumer][j] \in Nat
      BY <3>1
    <3>5. \/ seen'[Consumer][j] = Newest(j)
          \/ seen'[Consumer][j] = seen[Consumer][j] /\ seen[Consumer][j] = Newest(j) - 1
      BY <3>1, <3>2, <3>3, <3>4
    <3>6. \/ seen[Consumer][j] = Newest(j)
          \/ order[j][Newest(j)].value # NULL /\ order[j][Newest(j) - 1].value = NULL
      BY DEF MemoryInv, ConsumerKeepsUp, Top
    <3>7. CASE seen'[Consumer][j] = Newest(j)
      BY <3>7 DEF Newest
    <3>8. CASE seen'[Consumer][j] = seen[Consumer][j] /\ seen[Consumer][j] = Newest(j) - 1
      <4>1. seen[Consumer][j] # Newest(j)
        BY <3>1, <3>8
      <4> QED BY <3>6, <3>8, <4>1 DEF Newest
    <3> QED BY <3>5, <3>7, <3>8
  <2>2. seen'[Consumer][i] = Len(order'[i])
    BY <1>5, <1>10
  <2> QED BY <1>10, <2>1, <2>2 DEF ConsumerKeepsUp, Newest, Top
<1>13. OneOwner'
  <2>1. \A j, k \in Slot :
          LET v == order'[j][Len(order'[j])].value
          IN v = order'[k][Len(order'[k])].value /\ v # NULL => j = k
    <3>1. \A j \in Slot : order'[j][Len(order'[j])].value = IF j = i THEN NULL ELSE Top(j)
      BY <1>8, <1>9 DEF Top
    <3> QED BY <3>1 DEF MemoryInv, OneOwner
  <2>2. \A q \in Producer : ptr[q] \notin Queued' \union held'
    BY <1>6, <1>11 DEF MemoryInv, OneOwner
  <2>3. Queued' \intersect held' = {}
    BY <1>6, <1>11 DEF MemoryInv, OneOwner
  <2> QED BY <1>7, <2>1, <2>2, <2>3 DEF MemoryInv, OneOwner, Top, Newest
<1>14. ContentsTravel'
  <2>1. \A q \in Producer : ptr'[q] # NULL => knows'[q][ptr'[q]] = content'[ptr'[q]]
    <3> SUFFICES ASSUME NEW q \in Producer, ptr[q] # NULL
                 PROVE  knows'[q][ptr[q]] = content[ptr[q]]
      BY <1>7
    <3>1. q \in Thread \ {Consumer}
      BY <1>1 DEF Thread
    <3> QED BY <1>5, <3>1 DEF MemoryInv, ContentsTravel
  <2>2. ASSUME NEW j \in Slot, order'[j][Len(order'[j])].value # NULL
        PROVE  order'[j][Len(order'[j])].view.contents[order'[j][Len(order'[j])].value]
                 = content[order'[j][Len(order'[j])].value]
    <3>1. j # i /\ order'[j][Len(order'[j])] = order[j][Newest(j)]
      BY <1>8, <1>9, <2>2
    <3>2. Top(j) # NULL
      BY <2>2, <3>1 DEF Top
    <3> QED BY <3>1, <3>2 DEF MemoryInv, ContentsTravel, Top
  <2>3. ASSUME NEW f \in held' PROVE knows'[Consumer][f] = content[f]
    <3>1. f \in Event /\ content[f] \in Nat
      BY <1>1, <1>6, MemoryAssumption DEF Locals, Fillings
    <3>2. /\ knows[Consumer][f] \in 0 .. content[f]
          /\ order[i][Newest(i)].view.contents[f] \in 0 .. content[f]
      <4>1. Newest(i) \in 1 .. Newest(i)
        BY <1>5
      <4> QED BY <1>1, <3>1, <4>1 DEF Knowledge, ViewsHold, ViewHolds
    <3>3. CASE f = e
      <4>1. order[i][Newest(i)].view.contents[f] = content[f]
        BY <1>6, <3>3 DEF MemoryInv, ContentsTravel, e
      <4> QED BY <1>5, <3>1, <3>2, <4>1, LargerIsLast
    <3>4. CASE f \in held
      <4>1. knows[Consumer][f] = content[f]
        BY <3>4 DEF MemoryInv, ContentsTravel, ContentsArrive
      <4> QED BY <1>5, <3>1, <3>2, <4>1, LargerIsLast
    <3> QED BY <1>6, <3>3, <3>4
  <2> QED BY <1>7, <2>1, <2>2, <2>3 DEF ContentsTravel, ContentsArrive, Top, Newest
<1>15. HeardOfInReach' /\ CallsCarryEvents'
  BY <1>7 DEF MemoryInv, HeardOfInReach, CallsCarryEvents
<1> QED BY <1>5, <1>6, <1>11, <1>12, <1>13, <1>14, <1>15 DEF MemoryInv

-----------------------------------------------------------------------------
(* The invariant and what follows from it *)

LEMMA MemoryInitially == Init => MemoryInv
<1> SUFFICES ASSUME Init PROVE MemoryInv
  OBVIOUS
<1>1. Sound
  BY SoundInitially
<1>2. \A i \in Slot : Newest(i) = 1 /\ Top(i) = NULL
  BY DEF Init, Newest, Top
<1>3. Queued = {}
  BY <1>2 DEF Queued, Top
<1>4. ConsumerKeepsUp
  BY <1>2 DEF Init, ConsumerKeepsUp, Thread, Nothing
<1>5. OneOwner /\ ContentsTravel
  BY <1>2, <1>3 DEF Init, OneOwner, ContentsTravel, ContentsArrive
<1>6. CallsCarryEvents /\ HeardOfInReach
  BY DEF Init, CallsCarryEvents, HeardOfInReach
<1> QED BY <1>1, <1>4, <1>5, <1>6 DEF MemoryInv

LEMMA MemoryKept == MemoryInv /\ [Next]_vars => MemoryInv'
<1> SUFFICES ASSUME MemoryInv, Next \/ UNCHANGED vars PROVE MemoryInv'
  BY DEF vars
<1>1. ASSUME NEW p \in Producer,
             PushStep(p) \/ PushAgain(p) \/ Meet(p) \/ \E e \in Event : PushCall(p, e)
      PROVE  MemoryInv'
  BY <1>1, LocalSteps, Publishes, PushFails, ConsumerMeets, PushIsCalled DEF PushStep
<1>2. CASE PopCall \/ PopStep
  BY <1>2, PopIsCalled, PopHits, PopMisses DEF PopStep
<1>3. CASE (\E e \in Event : Return(e)) \/ (\E i \in Slot : Arrive(i))
  BY <1>3, EventsReturn, StoresArrive
<1>4. CASE UNCHANGED vars
  <2>1. UNCHANGED <<ticket, order, seen, content, fills, knows, returned, ppc, ptr, index,
                    retries, head, cpc, popRetries, held, owed>>
    BY <1>4 DEF vars, memVars, filled, pushVars, popVars
  <2>2. Sound' /\ CallsCarryEvents'
    BY <2>1 DEF MemoryInv, Sound, TypeOK, Shapes, ViewsHold, ViewHolds, ContentsBounded, Newest,
                CallsCarryEvents
  <2>3. ConsumerKeepsUp' /\ OneOwner' /\ ContentsTravel' /\ HeardOfInReach'
    BY <2>1, HearsNothing, OwnersStay, ReachStays DEF MemoryInv
  <2> QED BY <2>2, <2>3 DEF MemoryInv
<1> QED BY <1>1, <1>2, <1>3, <1>4 DEF Next

LEMMA MemoryInvariant == Spec => []MemoryInv
BY MemoryInitially, MemoryKept, PTL DEF Spec

\* The variables keep their types, and no thread has heard of a write or of a
\* filling that did not happen.
THEOREM MemoryTyping == Spec => []TypeOK
BY MemoryInvariant, PTL DEF MemoryInv, Sound

\* Release and acquire on the slots are enough: whoever pops an event sees the
\* last filling of its block.
THEOREM ContentsAlwaysArrive == Spec => []ContentsArrive
BY MemoryInvariant, PTL DEF MemoryInv, ContentsTravel

\* A scan finds what the consumer had heard of when it began.
THEOREM ScansFindWhatWasHeardOf == Spec => []HeardOfIsFound
<1>1. MemoryInv => HeardOfIsFound
  BY DEF MemoryInv, HeardOfInReach, HeardOfIsFound
<1> QED BY <1>1, MemoryInvariant, PTL

-----------------------------------------------------------------------------
(* The channel implements the abstract pool *)

\* While a slot is free, fewer than Capacity events are in the channel.
LEMMA RoomForOneMore ==
  ASSUME NEW k \in Slot, Top(k) = NULL
  PROVE  Cardinality(Queued) < Capacity
<1> DEFINE S == {i \in Slot : Top(i) # NULL}
           f == [i \in S |-> Top(i)]
<1>1. IsFiniteSet(Slot) /\ Cardinality(Slot) = Capacity
  BY Sizes, FS_Interval DEF Slot
<1>2. IsFiniteSet(Slot \ {k}) /\ Cardinality(Slot \ {k}) = Capacity - 1
  BY <1>1, FS_RemoveElement
<1>3. S \subseteq Slot \ {k}
  OBVIOUS
<1>4. IsFiniteSet(S) /\ Cardinality(S) <= Capacity - 1 /\ Cardinality(S) \in Nat
  BY <1>2, <1>3, FS_Subset, FS_CardinalityType
<1>5. Queued = {Top(i) : i \in Slot} \ {NULL}
  BY DEF Queued, Top
<1>6. f \in Surjection(S, Queued)
  BY <1>5 DEF Surjection
<1>7. IsFiniteSet(Queued) /\ Cardinality(Queued) <= Cardinality(S)
  BY <1>4, <1>6, FS_Surjection
<1> QED BY <1>4, <1>7, FS_CardinalityType, Sizes

poolVars == <<Queued, ptr, held, cpc, owed>>

\* A pop that has heard of an event finds the pool occupied when it begins.
LEMMA HeardOfIsQueued ==
  ASSUME MemoryInv, NEW i \in Slot, order[i][seen[Consumer][i]].value # NULL
  PROVE  Queued # {}
<1>1. Top(i) # NULL
  BY DEF MemoryInv, ConsumerKeepsUp, Top
<1> QED BY <1>1 DEF Queued, Top

LEMMA PoolInit == Init => Pool!Init
<1> SUFFICES ASSUME Init PROVE Pool!Init
  OBVIOUS
<1>1. Queued = {}
  BY DEF Init, Queued, Newest
<1> QED BY <1>1 DEF Init, Pool!Init

LEMMA PoolNext == MemoryInv /\ [Next]_vars => [Pool!Next]_poolVars
<1> SUFFICES ASSUME MemoryInv, Next \/ UNCHANGED vars
             PROVE  Pool!Next \/ UNCHANGED poolVars
  BY DEF vars
<1>1. ASSUME order' = order PROVE Queued' = Queued
  BY <1>1 DEF Queued, Newest
<1>2. ASSUME NEW p \in Producer, NEW e \in Event, PushCall(p, e) PROVE Pool!Next
  <2>1. Queued' = Queued /\ UNCHANGED <<held, cpc, owed>>
    BY <1>1, <1>2 DEF PushCall, popVars
  <2>2. ptr[p] = NULL /\ ptr' = [ptr EXCEPT ![p] = e] /\ Free(e)
    BY <1>2 DEF PushCall, MemoryInv, CallsCarryEvents
  <2>3. Pool!Offer(p, e)
    BY <2>1, <2>2 DEF Pool!Offer, Pool!Free, Free
  <2> QED BY <2>3 DEF Pool!Next
<1>3. ASSUME NEW p \in Producer, Publish(p) PROVE Pool!Next
  <2>1. PICK i \in Slot : i = index[p]
    BY DEF MemoryInv, Sound, TypeOK
  <2>2. Top(i) = NULL /\ ptr' = [ptr EXCEPT ![p] = NULL] /\ UNCHANGED <<held, cpc, owed>>
        /\ ppc[p] = "cas"
    BY <1>3, <2>1 DEF Publish, Top, popVars
  <2>3. ptr[p] # NULL
    BY <2>2 DEF MemoryInv, CallsCarryEvents
  <2>4. Queued' = Queued \union {ptr[p]}
    BY <1>3, Publishes
  <2>5. Cardinality(Queued) < Capacity
    BY <2>2, RoomForOneMore
  <2>6. Pool!Cardinality(Queued) = Cardinality(Queued)
    BY Zenon DEF Cardinality, Pool!Cardinality
  <2>7. Pool!Accept(p)
    BY <2>2, <2>3, <2>4, <2>5, <2>6, Zenon DEF Pool!Accept
  <2> QED BY <2>7 DEF Pool!Next
<1>4. CASE PopCall
  <2>1. Queued' = Queued /\ UNCHANGED <<ptr, held>> /\ cpc # "popping" /\ cpc' = "popping"
    BY <1>1, <1>4 DEF PopCall, memVars, pushVars
  <2>2. owed' = (Queued # {}) \/ owed' = FALSE
    BY <1>4, HeardOfIsQueued DEF PopCall
  <2>3. Pool!Call
    BY <2>1, <2>2, Zenon DEF Pool!Call
  <2> QED BY <2>3 DEF Pool!Next
<1>5. CASE PopHit
  <2>1. PICK e \in Queued : Queued' = Queued \ {e} /\ held' = held \union {e}
    BY <1>5, PopHits
  <2>2. e \in Event
    BY DEF MemoryInv, Sound, TypeOK, ViewsHold, Queued, Newest, Shapes, Entry
  <2>3. Pool!Take(e)
    BY <1>5, <2>1 DEF PopHit, pushVars, Pool!Take
  <2> QED BY <2>2, <2>3 DEF Pool!Next
<1>6. CASE PopMiss
  <2>1. Queued' = Queued /\ UNCHANGED <<ptr, held, owed>>
        /\ cpc = "popping" /\ cpc' \in {cpc, "empty"}
    BY <1>1, <1>6 DEF PopMiss, pushVars
  <2>2. CASE cpc' = cpc
    BY <2>1, <2>2 DEF poolVars
  <2>3. CASE cpc' = "empty"
    <3>1. HeardOfInReach'
      BY <1>6, PopMisses DEF MemoryInv
    <3>2. Pool!ReportEmpty
      BY <2>1, <2>3, <3>1 DEF HeardOfInReach, Pool!ReportEmpty
    <3> QED BY <3>2 DEF Pool!Next
  <2> QED BY <2>1, <2>2, <2>3
<1>7. ASSUME NEW e \in Event, Return(e) PROVE Pool!Next
  BY <1>1, <1>7 DEF Return, pushVars, Pool!Release, Pool!Next
<1>8. ASSUME UNCHANGED <<order, ptr, held, cpc, owed>> PROVE UNCHANGED poolVars
  BY <1>1, <1>8 DEF poolVars
<1> QED
  BY <1>2, <1>3, <1>4, <1>5, <1>6, <1>7, <1>8
     DEF Next, PushStep, PopStep, TakeTicket, PushFail, PushAgain, Meet, Arrive, memVars,
         pushVars, popVars, vars

\* Under the relaxed orders of the code, for every size, retry limit and number
\* of threads, the channel keeps the promises of the pool.
THEOREM RelaxedChannelIsAPool == Spec => ImplementsEventPool
<1>1. MemoryInv /\ [Next]_vars => [Pool!Next]_(Pool!vars)
  BY PoolNext DEF poolVars, Pool!vars
<1> QED BY <1>1, PoolInit, MemoryInvariant, PTL DEF Spec, Pool!Spec, ImplementsEventPool
=============================================================================
