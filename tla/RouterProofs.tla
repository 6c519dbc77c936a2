---------------------------- MODULE RouterProofs ----------------------------
(***************************************************************************)
(* Theorems about Router and the limiter of IP addresses in it, for any    *)
(* addresses, codes, limits and number of attempts.                        *)
(***************************************************************************)
EXTENDS Router, FiniteSetTheorems, TLAPS

----------------------------------------------------------------------------
(* The limiter *)

\* What was admitted in this tick has been counted in the window that is open.
CountedNow ==
    \A ip \in Ips : admitted[ip][0] <= IF Expired(entries[ip]) THEN 0 ELSE entries[ip].count

LimiterInv == TypeOK /\ CountedNow

LEMMA AgeZero == 0 \in Ages /\ \A age \in Ages : age # 0 => age - 1 \in Ages
  BY LimitsAssumption DEF Ages

LEMMA LimiterInit == Init => LimiterInv
<1> SUFFICES ASSUME Init PROVE LimiterInv
  OBVIOUS
<1>1. entries \in [Ips -> Entry \cup {NoEntry}]
  BY DEF Init
<1>2. requestCount \in 0..PruneInterval - 1
  BY LimitsAssumption DEF Init
<1>3. admitted \in [Ips -> [Ages -> 0..MaxRequests]]
  BY LimitsAssumption DEF Init
<1>4. CountedNow
  BY AgeZero DEF Init, CountedNow, Expired, NoEntry
<1> QED  BY <1>1, <1>2, <1>3, <1>4 DEF LimiterInv, TypeOK, Init

LEMMA CountRequestType ==
    requestCount \in 0..PruneInterval - 1 /\ CountRequest => requestCount' \in 0..PruneInterval - 1
  BY LimitsAssumption DEF CountRequest

\* Pruning forgets entries that are over, and nothing else.
LEMMA PrunedEntries ==
    ASSUME TypeOK
    PROVE  /\ Pruned \in [Ips -> Entry \cup {NoEntry}]
           /\ \A ip \in Ips :
                 \/ Pruned[ip] = entries[ip]
                 \/ Pruned[ip] = NoEntry /\ Expired(entries[ip])
  BY DEF TypeOK, Pruned

LEMMA CountUpEntry ==
    ASSUME NEW entry \in Entry \cup {NoEntry}
    PROVE  /\ CountUp(entry) \in Entry
           /\ ~Expired(CountUp(entry))
           /\ CountUp(entry).count <= MaxRequests =>
                 CountUp(entry).count = 1 + IF Expired(entry) THEN 0 ELSE entry.count
           /\ CountUp(entry).count >= IF Expired(entry) THEN 0 ELSE entry.count
<1>1. CASE Expired(entry)
  BY <1>1, LimitsAssumption DEF CountUp, Entry, Expired
<1>2. CASE ~Expired(entry)
  <2>1. entry \in Entry
    BY <1>2 DEF Expired, NoEntry
  <2> QED  BY <1>2, <2>1, LimitsAssumption DEF CountUp, Entry, Expired
<1> QED  BY <1>1, <1>2

LEMMA CheckStep == \A ip \in Ips : LimiterInv /\ Check(ip) => LimiterInv'
<1> SUFFICES ASSUME NEW ip \in Ips, LimiterInv, Check(ip) PROVE LimiterInv'
  OBVIOUS
<1> USE DEF LimiterInv
<1> DEFINE entry == CountUp(Pruned[ip])
<1>1. Pruned[ip] \in Entry \cup {NoEntry}
  BY PrunedEntries
<1>2. entry \in Entry /\ ~Expired(entry)
  BY <1>1, CountUpEntry
<1>3. entries' = [Pruned EXCEPT ![ip] = entry]
  BY DEF Check
<1>4. entries' \in [Ips -> Entry \cup {NoEntry}]
  BY <1>2, <1>3, PrunedEntries
<1>5. requestCount' \in 0..PruneInterval - 1
  BY CountRequestType DEF Check, TypeOK
<1>6. verdict' \in [Ips -> {"none", "allowed", "limited"}]
  BY DEF Check, TypeOK
<1>7. \A other \in Ips : other # ip =>
         entries'[other] = entries[other] \/ (entries'[other] = NoEntry /\ Expired(entries[other]))
  BY <1>3, PrunedEntries
<1>8. entries'[ip] = entry
  BY <1>3, PrunedEntries
<1>9. CASE entry.count > MaxRequests
  <2>1. UNCHANGED admitted
    BY <1>9 DEF Check
  <2>2. admitted[ip][0] <= entry.count
    <3>1. admitted[ip][0] \in 0..MaxRequests
      BY AgeZero DEF TypeOK
    <3> QED  BY <1>2, <1>9, <3>1, LimitsAssumption DEF Entry
  <2>3. CountedNow'
    BY <1>2, <1>7, <1>8, <2>1, <2>2 DEF CountedNow, Expired, NoEntry
  <2> QED  BY <1>4, <1>5, <1>6, <2>1, <2>3 DEF TypeOK
<1>10. CASE ~(entry.count > MaxRequests)
  <2>1. admitted' = [admitted EXCEPT ![ip][0] = @ + 1]
    BY <1>10 DEF Check
  <2>2. entry.count <= MaxRequests
    BY <1>2, <1>10, LimitsAssumption DEF Entry
  <2>3. admitted[ip] \in [Ages -> 0..MaxRequests]
    BY DEF TypeOK
  <2>4. admitted[ip][0] <= IF Expired(Pruned[ip]) THEN 0 ELSE Pruned[ip].count
    BY PrunedEntries DEF CountedNow, Expired, NoEntry
  <2>5. admitted[ip][0] + 1 <= entry.count
    <3>1. entry.count = 1 + IF Expired(Pruned[ip]) THEN 0 ELSE Pruned[ip].count
      BY <1>1, <2>2, CountUpEntry
    <3>2. admitted[ip][0] \in Nat /\ Pruned[ip].count \in Nat
      BY <1>1, <2>3, AgeZero, LimitsAssumption DEF Entry, NoEntry
    <3> QED  BY <2>4, <3>1, <3>2
  <2>6. admitted[ip][0] + 1 \in 0..MaxRequests
    BY <1>2, <2>2, <2>3, <2>5, AgeZero, LimitsAssumption DEF Entry
  <2>7. admitted' \in [Ips -> [Ages -> 0..MaxRequests]]
    BY <2>1, <2>6, AgeZero DEF TypeOK
  <2>8. admitted'[ip][0] = admitted[ip][0] + 1 /\ \A other \in Ips : other # ip => admitted'[other] = admitted[other]
    BY <2>1, <2>3, AgeZero DEF TypeOK
  <2>9. CountedNow'
    <3> SUFFICES ASSUME NEW other \in Ips
                 PROVE  admitted'[other][0] <= IF Expired(entries'[other]) THEN 0 ELSE entries'[other].count
      BY DEF CountedNow, Expired
    <3>1. CASE other = ip
      BY <1>2, <1>8, <2>5, <2>8, <3>1
    <3>2. CASE other # ip
      BY <1>7, <2>8, <3>2 DEF CountedNow, Expired, NoEntry
    <3> QED  BY <3>1, <3>2
  <2> QED  BY <1>4, <1>5, <1>6, <2>7, <2>9 DEF TypeOK
<1> QED  BY <1>9, <1>10

LEMMA OtherRequestStep == LimiterInv /\ OtherRequest => LimiterInv'
<1> SUFFICES ASSUME LimiterInv, OtherRequest PROVE LimiterInv'
  OBVIOUS
<1> USE DEF LimiterInv
<1>1. requestCount' \in 0..PruneInterval - 1
  BY CountRequestType DEF OtherRequest, TypeOK
<1>2. CountedNow'
  BY PrunedEntries DEF OtherRequest, CountedNow, Expired, NoEntry
<1> QED  BY <1>1, <1>2, PrunedEntries DEF OtherRequest, TypeOK

LEMMA TickStep == LimiterInv /\ Tick => LimiterInv'
<1> SUFFICES ASSUME LimiterInv, Tick PROVE LimiterInv'
  OBVIOUS
<1> USE DEF LimiterInv
<1>1. entries' \in [Ips -> Entry \cup {NoEntry}]
  <2> SUFFICES ASSUME NEW ip \in Ips
               PROVE  (IF Expired(entries[ip]) THEN entries[ip]
                       ELSE [entries[ip] EXCEPT !.resetIn = @ - 1]) \in Entry \cup {NoEntry}
    BY DEF Tick
  <2>1. entries[ip] \in Entry \cup {NoEntry}
    BY DEF TypeOK
  <2> QED  BY <2>1, LimitsAssumption DEF Expired, Entry, NoEntry
<1>2. admitted' \in [Ips -> [Ages -> 0..MaxRequests]]
  BY AgeZero, LimitsAssumption DEF Tick, TypeOK
<1>3. \A ip \in Ips : admitted'[ip][0] = 0
  BY AgeZero DEF Tick
<1>4. CountedNow'
  <2> SUFFICES ASSUME NEW ip \in Ips
               PROVE  0 <= IF Expired(entries'[ip]) THEN 0 ELSE entries'[ip].count
    BY <1>3 DEF CountedNow, Expired
  <2> QED  BY <1>1, LimitsAssumption DEF Entry, NoEntry, Expired
<1>5. verdict' \in [Ips -> {"none", "allowed", "limited"}]
  BY DEF Tick
<1> QED  BY <1>1, <1>2, <1>4, <1>5 DEF Tick, TypeOK

----------------------------------------------------------------------------
(* Sizes of the sets of admitted requests *)

Histories == [Ages -> 0..MaxRequests]

LEMMA RequestsFinite ==
    ASSUME NEW h \in Histories, NEW A \in SUBSET Ages
    PROVE  IsFiniteSet(Requests(h, A)) /\ Cardinality(Requests(h, A)) \in Nat
<1>1. IsFiniteSet(Ages \X (0..MaxRequests))
  <2>1. IsFiniteSet(Ages)
    BY LimitsAssumption, FS_Interval DEF Ages
  <2>2. IsFiniteSet(0..MaxRequests)
    BY LimitsAssumption, FS_Interval
  <2> QED  BY <2>1, <2>2, FS_Product
<1>2. Requests(h, A) \in SUBSET (Ages \X (0..MaxRequests))
  BY LimitsAssumption DEF Requests, Histories
<1> QED  BY <1>1, <1>2, FS_Subset, FS_CardinalityType

\* One more request now.
LEMMA RequestsAdded ==
    ASSUME NEW h \in Histories, h[0] < MaxRequests, NEW A \in SUBSET Ages,
           NEW h2, h2 = [h EXCEPT ![0] = @ + 1]
    PROVE  Cardinality(Requests(h2, A)) = Cardinality(Requests(h, A)) + IF 0 \in A THEN 1 ELSE 0
<1>1. h[0] \in Nat /\ h[0] + 1 \in Nat /\ \A age \in Ages : h2[age] = IF age = 0 THEN h[0] + 1 ELSE h[age]
  BY AgeZero, LimitsAssumption DEF Histories
<1>2. CASE 0 \in A
  <2>1. Requests(h2, A) = Requests(h, A) \cup {<<0, h[0] + 1>>}
    <3>1. \A age \in A : {age} \X (1..h2[age]) =
             IF age = 0 THEN ({0} \X (1..h[0])) \cup {<<0, h[0] + 1>>} ELSE {age} \X (1..h[age])
      BY <1>1
    <3> QED  BY <1>2, <3>1 DEF Requests
  <2>2. <<0, h[0] + 1>> \notin Requests(h, A)
    BY <1>1 DEF Requests
  <2> QED  BY <1>2, <2>1, <2>2, RequestsFinite, FS_AddElement
<1>3. CASE 0 \notin A
  <2>1. \A age \in A : h2[age] = h[age]
    BY <1>1, <1>3
  <2>2. Requests(h2, A) = Requests(h, A)
    BY <2>1 DEF Requests
  <2> QED  BY <1>3, <2>2, RequestsFinite
<1> QED  BY <1>2, <1>3

\* Ages of a history after a tick.
LEMMA RequestsAged ==
    ASSUME NEW h \in Histories, NEW A \in SUBSET Ages, NEW B \in SUBSET Ages,
           NEW h2 \in Histories, h2 = [age \in Ages |-> IF age = 0 THEN 0 ELSE h[age - 1]],
           \A age \in B : age = 0 \/ age - 1 \in A
    PROVE  /\ Cardinality(Requests(h2, B)) <= Cardinality(Requests(h, A))
           /\ (\A age \in A : age + 1 \in B) =>
                 Cardinality(Requests(h2, B)) = Cardinality(Requests(h, A))
<1> DEFINE f == [p \in Requests(h2, B) |-> <<p[1] - 1, p[2]>>]
<1>1. \A p \in Requests(h2, B) : /\ p[1] \in B /\ p[1] \in Nat \ {0} /\ p = <<p[1], p[2]>>
                                 /\ p[2] \in 1..h[p[1] - 1]
  BY AgeZero DEF Requests, Ages
<1>2. \A p \in Requests(h2, B) : <<p[1] - 1, p[2]>> \in Requests(h, A)
  BY <1>1 DEF Requests
<1>3. \A p, q \in Requests(h2, B) : <<p[1] - 1, p[2]>> = <<q[1] - 1, q[2]>> => p = q
  <2> SUFFICES ASSUME NEW p \in Requests(h2, B), NEW q \in Requests(h2, B),
                      p[1] - 1 = q[1] - 1, p[2] = q[2]
               PROVE  p = q
    OBVIOUS
  <2> QED  BY <1>1
<1>4. f \in Injection(Requests(h2, B), Requests(h, A))
  BY <1>2, <1>3 DEF Injection, IsInjective
<1>5. IsFiniteSet(Requests(h, A))
  BY RequestsFinite
<1>6. ASSUME \A age \in A : age + 1 \in B
      PROVE  f \in Surjection(Requests(h2, B), Requests(h, A))
  <2>1. ASSUME NEW q \in Requests(h, A)
        PROVE  <<q[1] + 1, q[2]>> \in Requests(h2, B) /\ f[<<q[1] + 1, q[2]>>] = q
    <3>1. q[1] \in A /\ q[1] \in Nat /\ q = <<q[1], q[2]>> /\ q[2] \in 1..h[q[1]]
      BY DEF Requests, Ages
    <3>2. q[1] + 1 \in B /\ q[1] + 1 # 0 /\ (q[1] + 1) - 1 = q[1]
      BY <1>6, <3>1
    <3>3. h2[q[1] + 1] = h[q[1]]
      BY <3>2
    <3>4. <<q[1] + 1, q[2]>> \in Requests(h2, B)
      BY <3>1, <3>2, <3>3 DEF Requests
    <3> QED  BY <3>1, <3>2, <3>4
  <2>2. f \in [Requests(h2, B) -> Requests(h, A)]
    BY <1>4 DEF Injection
  <2> QED  BY <2>1, <2>2 DEF Surjection
<1> QED  BY <1>4, <1>5, <1>6, FS_Injection

\* What is as old as an age or younger, and what is older.
LEMMA RequestsSplit ==
    ASSUME NEW h \in Histories, NEW m \in Ages
    PROVE  Cardinality(Requests(h, Ages)) =
              Cardinality(Requests(h, 0..m)) + Cardinality(Requests(h, m + 1..Window - 1))
<1>1. m \in Nat /\ 0..m \subseteq Ages /\ m + 1..Window - 1 \subseteq Ages
      /\ Ages = (0..m) \cup (m + 1..Window - 1)
  BY LimitsAssumption DEF Ages
<1>2. Requests(h, Ages) = Requests(h, 0..m) \cup Requests(h, m + 1..Window - 1)
  BY <1>1 DEF Requests
<1>3. Requests(h, 0..m) \cap Requests(h, m + 1..Window - 1) = {}
  BY <1>1, LimitsAssumption DEF Requests
<1>4. /\ IsFiniteSet(Requests(h, 0..m)) /\ Cardinality(Requests(h, 0..m)) \in Nat
      /\ IsFiniteSet(Requests(h, m + 1..Window - 1))
      /\ Cardinality(Requests(h, m + 1..Window - 1)) \in Nat
  BY <1>1, RequestsFinite
<1>5. Cardinality({}) = 0
  BY FS_EmptySet
<1>6. Cardinality(Requests(h, 0..m) \cup Requests(h, m + 1..Window - 1))
         = Cardinality(Requests(h, 0..m)) + Cardinality(Requests(h, m + 1..Window - 1)) - 0
  BY <1>3, <1>4, <1>5, FS_Union
<1> QED  BY <1>2, <1>4, <1>6

----------------------------------------------------------------------------
(* Windows *)

Counted(count) == IF count > MaxRequests THEN MaxRequests ELSE count

\* While a window is open, everything since its start was admitted in it, and of
\* the one before the start is forgotten.
OpenWindow(h, entry) ==
    LET start == Window - entry.resetIn
    IN  /\ h[start] >= 1
        /\ Cardinality(Requests(h, 0..start)) = Counted(entry.count)
        /\ Cardinality(Requests(h, start + 1..Window - 1)) <= MaxRequests - 1

\* When it is over, its start is forgotten.
NoWindow(h) == h[0] = 0 /\ Cardinality(Requests(h, Ages)) <= MaxRequests - 1

WindowsInv ==
    \A ip \in Ips :
        /\ IF Expired(entries[ip]) THEN NoWindow(admitted[ip])
           ELSE OpenWindow(admitted[ip], entries[ip])
        /\ verdict[ip] = "limited" =>
               ~Expired(entries[ip]) /\ entries[ip].count > MaxRequests

Fresh == [count |-> 1, resetIn |-> Window]

LEMMA StartIsAge ==
    ASSUME NEW entry \in Entry, ~Expired(entry)
    PROVE  /\ entry.count \in 1..MaxRequests + 1 /\ entry.resetIn \in 1..Window
           /\ Window - entry.resetIn \in Ages
           /\ 0..Window - entry.resetIn \in SUBSET Ages
           /\ Window - entry.resetIn + 1..Window - 1 \in SUBSET Ages
  BY LimitsAssumption DEF Entry, Expired, Ages

\* A first request opens a window.
LEMMA WindowOpens ==
    ASSUME NEW h \in Histories, NoWindow(h), NEW h2, h2 = [h EXCEPT ![0] = @ + 1]
    PROVE  OpenWindow(h2, Fresh)
<1>1. h[0] = 0 /\ h[0] < MaxRequests /\ h2[0] = 1
  BY AgeZero, LimitsAssumption DEF NoWindow, Histories
<1>2. 0..0 \in SUBSET Ages /\ 1..Window - 1 \in SUBSET Ages /\ Ages \in SUBSET Ages
  BY LimitsAssumption DEF Ages
<1>3. Cardinality(Requests(h2, 0..0)) = 1
  <2>1. Requests(h, 0..0) = {}
    <3>1. 1..h[0] = {} /\ 0..0 = {0}
      BY <1>1
    <3> QED  BY <3>1 DEF Requests
  <2>2. Cardinality(Requests(h2, 0..0)) = Cardinality(Requests(h, 0..0)) + 1
    <3> DEFINE now == 0..0
    <3>1. 0 \in now /\ now \in SUBSET Ages
      BY <1>2
    <3> HIDE DEF now
    <3>2. Cardinality(Requests(h2, now)) = Cardinality(Requests(h, now)) + 1
      BY <1>1, <3>1, RequestsAdded
    <3> QED  BY <3>2 DEF now
  <2>3. Cardinality({}) = 0
    BY FS_EmptySet
  <2> QED  BY <2>1, <2>2, <2>3
<1>4. Cardinality(Requests(h2, 1..Window - 1)) <= MaxRequests - 1
  <2> DEFINE older == 1..Window - 1
  <2>1. Cardinality(Requests(h2, older)) = Cardinality(Requests(h, older)) + 0
    <3>1. 0 \notin older /\ older \in SUBSET Ages
      BY <1>2, LimitsAssumption
    <3> HIDE DEF older
    <3> QED  BY <1>1, <3>1, RequestsAdded
  <2>2. Requests(h, 1..Window - 1) \in SUBSET Requests(h, Ages)
    BY <1>2 DEF Requests
  <2>3. Cardinality(Requests(h, 1..Window - 1)) <= Cardinality(Requests(h, Ages))
    BY <1>2, <2>2, RequestsFinite, FS_Subset
  <2>4. /\ Cardinality(Requests(h, 1..Window - 1)) \in Nat
        /\ Cardinality(Requests(h, Ages)) \in Nat
    BY <1>2, RequestsFinite
  <2> QED  BY <2>1, <2>3, <2>4, LimitsAssumption DEF NoWindow
<1> QED  BY <1>1, <1>3, <1>4, LimitsAssumption DEF OpenWindow, Fresh, Counted

\* A further one is counted.
LEMMA WindowCounts ==
    ASSUME NEW h \in Histories, NEW entry \in Entry, ~Expired(entry), OpenWindow(h, entry),
           entry.count < MaxRequests, h[0] <= entry.count,
           NEW h2, h2 = [h EXCEPT ![0] = @ + 1],
           NEW entry2, entry2 = [entry EXCEPT !.count = @ + 1]
    PROVE  OpenWindow(h2, entry2)
<1> DEFINE start == Window - entry.resetIn
<1>1. h[0] \in Nat /\ h[0] < MaxRequests
      /\ \A age \in Ages : h[age] \in Nat /\ h2[age] = IF age = 0 THEN h[0] + 1 ELSE h[age]
  BY AgeZero, StartIsAge, LimitsAssumption DEF Histories
<1>2. entry2.resetIn = entry.resetIn /\ entry2.count = entry.count + 1
  BY DEF Entry
<1>3. start \in Nat /\ 0 \in 0..start /\ 0 \notin start + 1..Window - 1
  BY StartIsAge DEF Ages
<1>4. Cardinality(Requests(h2, 0..start)) = Cardinality(Requests(h, 0..start)) + 1
  BY <1>1, <1>3, StartIsAge, RequestsAdded
<1>5. Cardinality(Requests(h2, start + 1..Window - 1))
         = Cardinality(Requests(h, start + 1..Window - 1)) + 0
  BY <1>1, <1>3, StartIsAge, RequestsAdded
<1>6. Cardinality(Requests(h, start + 1..Window - 1)) \in Nat
  BY StartIsAge, RequestsFinite
<1>7. h2[start] >= 1
  BY <1>1, StartIsAge DEF OpenWindow
<1>8. Counted(entry2.count) = Counted(entry.count) + 1
  BY <1>2, StartIsAge, LimitsAssumption DEF Counted
<1>9. /\ Cardinality(Requests(h, 0..start)) = Counted(entry.count)
      /\ Cardinality(Requests(h, start + 1..Window - 1)) <= MaxRequests - 1
  BY DEF OpenWindow
<1>10. Cardinality(Requests(h2, 0..start)) = Counted(entry2.count)
  BY <1>4, <1>8, <1>9
<1>11. Cardinality(Requests(h2, start + 1..Window - 1)) <= MaxRequests - 1
  BY <1>5, <1>6, <1>9
<1> QED  BY <1>2, <1>7, <1>10, <1>11 DEF OpenWindow

\* A tick in an open window, and the one that ends it.
LEMMA WindowGoesOn ==
    ASSUME NEW h \in Histories, NEW entry \in Entry, entry.resetIn > 1, OpenWindow(h, entry),
           NEW h2 \in Histories, h2 = [age \in Ages |-> IF age = 0 THEN 0 ELSE h[age - 1]],
           NEW entry2, entry2 = [entry EXCEPT !.resetIn = @ - 1]
    PROVE  OpenWindow(h2, entry2)
<1> DEFINE start == Window - entry.resetIn
<1>1. entry.resetIn \in 2..Window /\ ~Expired(entry)
  BY LimitsAssumption DEF Entry, Expired
<1>2. entry2.resetIn = entry.resetIn - 1 /\ entry2.count = entry.count
      /\ Window - entry2.resetIn = start + 1
  BY <1>1, LimitsAssumption DEF Entry
<1>3. /\ start \in Nat /\ start + 1 \in Ages
      /\ 0..start \in SUBSET Ages /\ 0..start + 1 \in SUBSET Ages
      /\ start + 1..Window - 1 \in SUBSET Ages /\ (start + 1) + 1..Window - 1 \in SUBSET Ages
  <2>1. start \in 0..Window - 2
    BY <1>1, LimitsAssumption
  <2>2. Window \in Nat
    BY LimitsAssumption
  <2> HIDE DEF start
  <2>3. start \in Nat /\ start + 1 \in Ages
    BY <2>1, <2>2 DEF Ages
  <2>4. 0..start \in SUBSET Ages /\ 0..start + 1 \in SUBSET Ages
    BY <2>1, <2>2 DEF Ages
  <2>5. start + 1..Window - 1 \in SUBSET Ages /\ (start + 1) + 1..Window - 1 \in SUBSET Ages
    BY <2>1, <2>2 DEF Ages
  <2> QED  BY <2>3, <2>4, <2>5
<1>4. h2[start + 1] >= 1
  <2>1. h2[start + 1] = h[start]
    BY <1>3
  <2> QED  BY <2>1 DEF OpenWindow
<1>5. Cardinality(Requests(h2, 0..start + 1)) = Cardinality(Requests(h, 0..start))
  <2>1. \A age \in 0..start + 1 : age = 0 \/ age - 1 \in 0..start
    BY <1>3
  <2>2. \A age \in 0..start : age + 1 \in 0..start + 1
    BY <1>3
  <2> DEFINE old == 0..start
             new == 0..start + 1
  <2>3. old \in SUBSET Ages /\ new \in SUBSET Ages
    BY <1>3
  <2>4. (\A age \in new : age = 0 \/ age - 1 \in old) /\ \A age \in old : age + 1 \in new
    BY <2>1, <2>2
  <2> HIDE DEF old, new
  <2>5. Cardinality(Requests(h2, new)) = Cardinality(Requests(h, old))
    BY <2>3, <2>4, RequestsAged
  <2> QED  BY <2>5 DEF old, new
<1>6. Cardinality(Requests(h2, (start + 1) + 1..Window - 1))
         <= Cardinality(Requests(h, start + 1..Window - 1))
  <2>1. \A age \in (start + 1) + 1..Window - 1 : age = 0 \/ age - 1 \in start + 1..Window - 1
    BY <1>3, LimitsAssumption
  <2> QED  BY <1>3, <2>1, RequestsAged
<1>7. /\ Cardinality(Requests(h2, (start + 1) + 1..Window - 1)) \in Nat
      /\ Cardinality(Requests(h, start + 1..Window - 1)) \in Nat
  BY <1>3, RequestsFinite
<1>8. /\ Cardinality(Requests(h, 0..start)) = Counted(entry.count)
      /\ Cardinality(Requests(h, start + 1..Window - 1)) <= MaxRequests - 1
  BY DEF OpenWindow
<1>9. Cardinality(Requests(h2, 0..start + 1)) = Counted(entry2.count)
  BY <1>2, <1>5, <1>8
<1>10. Cardinality(Requests(h2, (start + 1) + 1..Window - 1)) <= MaxRequests - 1
  BY <1>6, <1>7, <1>8, LimitsAssumption
<1> QED  BY <1>2, <1>4, <1>9, <1>10 DEF OpenWindow

LEMMA WindowEnds ==
    ASSUME NEW h \in Histories, NEW entry \in Entry, entry.resetIn = 1, OpenWindow(h, entry),
           NEW h2 \in Histories, h2 = [age \in Ages |-> IF age = 0 THEN 0 ELSE h[age - 1]]
    PROVE  NoWindow(h2)
<1> DEFINE last == Window - 1
           first == <<last, 1>>
<1>1. last \in Ages /\ 0..last = Ages /\ 0..last - 1 \in SUBSET Ages /\ Ages \in SUBSET Ages
  BY LimitsAssumption DEF Ages
<1>2. h[last] >= 1 /\ Cardinality(Requests(h, Ages)) = Counted(entry.count)
  BY <1>1 DEF OpenWindow
<1>3. Cardinality(Requests(h, Ages)) <= MaxRequests
  BY <1>2, LimitsAssumption DEF Entry, Counted
<1>4. Cardinality(Requests(h2, Ages)) <= Cardinality(Requests(h, 0..last - 1))
  <2>1. \A age \in Ages : age = 0 \/ age - 1 \in 0..last - 1
    BY LimitsAssumption DEF Ages
  <2> QED  BY <1>1, <2>1, RequestsAged
<1>5. first \in Requests(h, Ages)
  <2>1. h[last] \in Nat
    BY <1>1, LimitsAssumption DEF Histories
  <2>2. 1 \in 1..h[last]
    BY <1>2, <2>1
  <2> QED  BY <1>1, <2>2 DEF Requests
<1>6. Requests(h, 0..last - 1) \in SUBSET (Requests(h, Ages) \ {first})
  <2>1. last \notin 0..last - 1
    BY LimitsAssumption
  <2> QED  BY <1>1, <2>1 DEF Requests
<1>7. /\ IsFiniteSet(Requests(h, Ages)) /\ Cardinality(Requests(h, Ages)) \in Nat
      /\ Cardinality(Requests(h, 0..last - 1)) \in Nat
      /\ Cardinality(Requests(h2, Ages)) \in Nat
  BY <1>1, RequestsFinite
<1>8. /\ IsFiniteSet(Requests(h, Ages) \ {first})
      /\ Cardinality(Requests(h, Ages) \ {first}) = Cardinality(Requests(h, Ages)) - 1
  BY <1>5, <1>7, FS_RemoveElement
<1>9. Cardinality(Requests(h, 0..last - 1)) <= Cardinality(Requests(h, Ages)) - 1
  BY <1>6, <1>8, FS_Subset
<1>10. Cardinality(Requests(h2, Ages)) <= MaxRequests - 1
  BY <1>3, <1>4, <1>7, <1>9, LimitsAssumption
<1>11. h2[0] = 0
  BY AgeZero
<1> QED  BY <1>10, <1>11 DEF NoWindow

LEMMA NoWindowAges ==
    ASSUME NEW h \in Histories, NoWindow(h),
           NEW h2 \in Histories, h2 = [age \in Ages |-> IF age = 0 THEN 0 ELSE h[age - 1]]
    PROVE  NoWindow(h2)
<1>1. Cardinality(Requests(h2, Ages)) <= Cardinality(Requests(h, Ages))
  <2>1. \A age \in Ages : age = 0 \/ age - 1 \in Ages
    BY AgeZero
  <2> QED  BY <2>1, RequestsAged
<1>2. Cardinality(Requests(h, Ages)) \in Nat /\ Cardinality(Requests(h2, Ages)) \in Nat
  BY RequestsFinite
<1>3. h2[0] = 0
  BY AgeZero
<1> QED  BY <1>1, <1>2, <1>3, LimitsAssumption DEF NoWindow

\* The steps of the limiter keep its windows.
LimiterWindows == LimiterInv /\ WindowsInv

LEMMA WindowsInit == Init => WindowsInv
<1> SUFFICES ASSUME Init PROVE WindowsInv
  OBVIOUS
<1> DEFINE none == [age \in Ages |-> 0]
<1>1. NoWindow(none)
  <2>1. none[0] = 0
    BY AgeZero
  <2>2. Requests(none, Ages) = {}
    BY DEF Requests
  <2>3. Cardinality(Requests(none, Ages)) = 0
    BY <2>2, FS_EmptySet
  <2> QED  BY <2>1, <2>3, LimitsAssumption DEF NoWindow
<1> QED  BY <1>1 DEF Init, WindowsInv, Expired, NoEntry

\* Pruning forgets only entries whose window is over.
LEMMA WindowsOfPruned ==
    ASSUME LimiterWindows, NEW ip \in Ips
    PROVE  /\ Pruned[ip] \in Entry \cup {NoEntry}
           /\ Expired(Pruned[ip]) = Expired(entries[ip])
           /\ ~Expired(entries[ip]) => Pruned[ip] = entries[ip] /\ entries[ip] \in Entry
  BY PrunedEntries DEF LimiterWindows, LimiterInv, TypeOK, Expired, NoEntry

LEMMA WindowsCheck == \A ip \in Ips : LimiterWindows /\ Check(ip) => WindowsInv'
<1> SUFFICES ASSUME NEW ip \in Ips, LimiterWindows, Check(ip), NEW other \in Ips
             PROVE  /\ IF Expired(entries'[other]) THEN NoWindow(admitted'[other])
                       ELSE OpenWindow(admitted'[other], entries'[other])
                    /\ verdict'[other] = "limited" =>
                           ~Expired(entries'[other]) /\ entries'[other].count > MaxRequests
  BY DEF WindowsInv, Expired, NoWindow, OpenWindow, Requests, Counted
<1> USE DEF LimiterWindows
<1> DEFINE entry == CountUp(Pruned[ip])
           h == admitted[ip]
<1>1. entries' = [Pruned EXCEPT ![ip] = entry] /\ Pruned \in [Ips -> Entry \cup {NoEntry}]
  BY PrunedEntries DEF Check, LimiterInv
<1>2. CASE other # ip
  <2>1. entries'[other] = Pruned[other]
    BY <1>1, <1>2
  <2>2. admitted'[other] = admitted[other] /\ verdict'[other] = verdict[other]
    BY <1>2 DEF Check, LimiterInv, TypeOK
  <2> QED  BY <2>1, <2>2, WindowsOfPruned DEF WindowsInv
<1>3. CASE other = ip
  <2>1. entries'[ip] = entry /\ h \in Histories /\ entry \in Entry /\ ~Expired(entry)
    BY <1>1, CountUpEntry DEF LimiterInv, TypeOK, Histories
  <2>2. h[0] <= IF Expired(entries[ip]) THEN 0 ELSE entries[ip].count
    BY DEF LimiterInv, CountedNow
  <2>3. verdict'[ip] = IF entry.count > MaxRequests THEN "limited" ELSE "allowed"
    BY DEF Check, LimiterInv, TypeOK
  <2>4. admitted'[ip] = IF entry.count > MaxRequests THEN h ELSE [h EXCEPT ![0] = @ + 1]
    BY DEF Check, LimiterInv, TypeOK
  <2>5. OpenWindow(admitted'[ip], entry)
    <3>1. CASE Expired(entries[ip])
      <4>1. entry = Fresh
        BY <3>1, WindowsOfPruned DEF CountUp, Fresh
      <4>2. NoWindow(h) /\ ~(entry.count > MaxRequests)
        BY <3>1, <4>1, LimitsAssumption DEF WindowsInv, Fresh
      <4> QED  BY <2>1, <2>4, <4>1, <4>2, WindowOpens
    <3>2. CASE ~Expired(entries[ip]) /\ entries[ip].count < MaxRequests
      <4>1. entries[ip] \in Entry /\ entry = [entries[ip] EXCEPT !.count = @ + 1]
        BY <3>2, WindowsOfPruned, LimitsAssumption DEF CountUp, Entry
      <4>2. ~(entry.count > MaxRequests)
        BY <3>2, <4>1, LimitsAssumption DEF Entry
      <4>3. OpenWindow(h, entries[ip]) /\ h[0] <= entries[ip].count
        BY <2>2, <3>2 DEF WindowsInv
      <4> QED  BY <2>1, <2>4, <3>2, <4>1, <4>2, <4>3, WindowCounts
    <3>3. CASE ~Expired(entries[ip]) /\ ~(entries[ip].count < MaxRequests)
      <4>1. entries[ip] \in Entry /\ entry = CountUp(entries[ip])
        BY <3>3, WindowsOfPruned
      <4>2. entry.resetIn = entries[ip].resetIn /\ entry.count > MaxRequests
            /\ Counted(entry.count) = Counted(entries[ip].count)
        BY <3>3, <4>1, LimitsAssumption DEF CountUp, Entry, Counted
      <4>3. OpenWindow(h, entries[ip])
        BY <3>3 DEF WindowsInv
      <4> QED  BY <2>4, <4>2, <4>3 DEF OpenWindow
    <3> QED  BY <3>1, <3>2, <3>3
  <2> QED  BY <1>3, <2>1, <2>3, <2>5
<1> QED  BY <1>2, <1>3

LEMMA WindowsOther == LimiterWindows /\ OtherRequest => WindowsInv'
<1> SUFFICES ASSUME LimiterWindows, OtherRequest, NEW ip \in Ips
             PROVE  /\ IF Expired(entries'[ip]) THEN NoWindow(admitted'[ip])
                       ELSE OpenWindow(admitted'[ip], entries'[ip])
                    /\ verdict'[ip] = "limited" =>
                           ~Expired(entries'[ip]) /\ entries'[ip].count > MaxRequests
  BY DEF WindowsInv, Expired, NoWindow, OpenWindow, Requests, Counted
<1>1. entries'[ip] = Pruned[ip] /\ admitted'[ip] = admitted[ip] /\ verdict'[ip] = verdict[ip]
  BY DEF OtherRequest
<1> QED  BY <1>1, WindowsOfPruned DEF WindowsInv, LimiterWindows

LEMMA WindowsTick == LimiterWindows /\ Tick => WindowsInv'
<1> SUFFICES ASSUME LimiterWindows, Tick, NEW ip \in Ips
             PROVE  /\ IF Expired(entries'[ip]) THEN NoWindow(admitted'[ip])
                       ELSE OpenWindow(admitted'[ip], entries'[ip])
                    /\ verdict'[ip] # "limited"
  BY DEF WindowsInv, Expired, NoWindow, OpenWindow, Requests, Counted
<1> USE DEF LimiterWindows
<1> DEFINE h == admitted[ip]
           h2 == admitted'[ip]
<1>1. h \in Histories /\ h2 \in Histories
  BY TickStep DEF LimiterInv, TypeOK, Histories
<1>2. h2 = [age \in Ages |-> IF age = 0 THEN 0 ELSE h[age - 1]]
  BY DEF Tick
<1>3. entries'[ip] = IF Expired(entries[ip]) THEN entries[ip]
                     ELSE [entries[ip] EXCEPT !.resetIn = @ - 1]
  BY DEF Tick
<1>4. verdict'[ip] # "limited"
  BY DEF Tick
<1>5. CASE Expired(entries[ip])
  <2>1. NoWindow(h)
    BY <1>5 DEF WindowsInv
  <2>2. NoWindow(h2)
    BY <1>1, <1>2, <2>1, NoWindowAges
  <2> QED  BY <1>3, <1>4, <1>5, <2>2
<1>6. CASE ~Expired(entries[ip])
  <2>1. OpenWindow(h, entries[ip]) /\ entries[ip] \in Entry
    BY <1>6, WindowsOfPruned DEF WindowsInv
  <2>2. entries[ip].resetIn \in 1..Window
    BY <1>6, <2>1, StartIsAge
  <2>3. CASE entries[ip].resetIn = 1
    <3>1. NoWindow(h2)
      BY <1>1, <1>2, <2>1, <2>3, WindowEnds
    <3>2. Expired(entries'[ip])
      BY <1>3, <1>6, <2>1, <2>3 DEF Expired, Entry
    <3> QED  BY <1>4, <3>1, <3>2
  <2>4. CASE entries[ip].resetIn # 1
    <3>1. entries[ip].resetIn > 1
      BY <2>2, <2>4, LimitsAssumption
    <3>2. OpenWindow(h2, entries'[ip])
      BY <1>1, <1>2, <1>3, <1>6, <2>1, <3>1, WindowGoesOn
    <3>3. ~Expired(entries'[ip])
      BY <1>3, <1>6, <2>1, <2>2, <3>1 DEF Expired, Entry
    <3> QED  BY <1>4, <3>2, <3>3
  <2> QED  BY <2>3, <2>4
<1> QED  BY <1>5, <1>6

\* What the windows say about any interval as long as one.
LEMMA WindowsBound == LimiterWindows => AtMostTwoWindows /\ LimitedForCause
<1> SUFFICES ASSUME LimiterWindows, NEW ip \in Ips
             PROVE  /\ InLastWindow(ip) <= 2 * MaxRequests - 1
                    /\ verdict[ip] = "limited" => InLastWindow(ip) >= MaxRequests
  BY DEF AtMostTwoWindows, LimitedForCause
<1> USE DEF LimiterWindows
<1> DEFINE h == admitted[ip]
           start == Window - entries[ip].resetIn
           current == Cardinality(Requests(h, 0..start))
           older == Cardinality(Requests(h, start + 1..Window - 1))
<1>1. h \in Histories
  BY DEF LimiterInv, TypeOK, Histories
<1>2. CASE Expired(entries[ip])
  <2>1. InLastWindow(ip) \in Nat /\ Ages \in SUBSET Ages
    BY <1>1, RequestsFinite DEF InLastWindow
  <2>2. InLastWindow(ip) <= MaxRequests - 1 /\ verdict[ip] # "limited"
    BY <1>2 DEF WindowsInv, NoWindow, InLastWindow
  <2> QED  BY <2>1, <2>2, LimitsAssumption
<1>3. CASE ~Expired(entries[ip])
  <2>1. entries[ip] \in Entry /\ OpenWindow(h, entries[ip])
    BY <1>3, WindowsOfPruned DEF WindowsInv
  <2>2. InLastWindow(ip) = current + older
    BY <1>1, <1>3, <2>1, StartIsAge, RequestsSplit DEF InLastWindow
  <2>3. current \in Nat /\ older \in Nat
    BY <1>1, <1>3, <2>1, StartIsAge, RequestsFinite
  <2>4. current = Counted(entries[ip].count) /\ older <= MaxRequests - 1
    BY <2>1 DEF OpenWindow
  <2>5. Counted(entries[ip].count) <= MaxRequests
    BY <1>3, <2>1, StartIsAge, LimitsAssumption DEF Counted
  <2>6. verdict[ip] = "limited" => current = MaxRequests
    BY <2>4 DEF WindowsInv, Counted
  <2> HIDE DEF current, older
  <2> QED  BY <2>2, <2>3, <2>4, <2>5, <2>6, LimitsAssumption
<1> QED  BY <1>2, <1>3

----------------------------------------------------------------------------
(* Room creation *)

LiveHaveCreators == \A code \in Codes : ~Live(code) => creators[code] = {}

RequestsOK ==
    /\ request \in [Ips -> Request]
    /\ \A ip \in Ips : request[ip].stage \in {"initializing", "created", "exists"}
                         => request[ip].code \in Codes
    /\ \A ip \in Ips : request[ip].stage = "exists" => request[ip].tries < MaxCodeRetries
    /\ \A ip \in Ips : request[ip].stage = "initializing" => request[ip].tries < MaxCodeRetries
RoomsOK ==
    /\ expiresIn \in [Codes -> 0..RoomTtl]
    /\ creators \in [Codes -> SUBSET Ips]
    /\ LiveHaveCreators /\ OneCreator
RouterInv == LimiterInv /\ RequestsOK /\ RoomsOK

LEMMA RouterInvInit == RouterInit => RouterInv
<1> SUFFICES ASSUME RouterInit PROVE RouterInv
  OBVIOUS
<1>1. LimiterInv
  BY LimiterInit DEF RouterInit
<1>2. NoRequest \in Request
  BY RetriesAssumption DEF NoRequest, Request, Answers
<1>3. RequestsOK
  BY <1>2 DEF RouterInit, RequestsOK, NoRequest
<1>4. RoomsOK
  BY RetriesAssumption DEF RouterInit, RoomsOK, LiveHaveCreators, OneCreator
<1> QED  BY <1>1, <1>3, <1>4 DEF RouterInv

\* A request that is moved to another stage, or answered.
LEMMA RequestStep ==
    ASSUME RequestsOK, NEW ip \in Ips, NEW r \in Request,
           request' = [request EXCEPT ![ip] = r],
           r.stage \in {"initializing", "created", "exists"} => r.code \in Codes,
           r.stage \in {"initializing", "exists"} => r.tries < MaxCodeRetries
    PROVE  RequestsOK'
<1>1. request' \in [Ips -> Request]
  BY DEF RequestsOK
<1>2. \A other \in Ips : request'[other] = IF other = ip THEN r ELSE request[other]
  BY DEF RequestsOK
<1> QED  BY <1>1, <1>2 DEF RequestsOK

LEMMA AnswerStep ==
    ASSUME RequestsOK, NEW ip \in Ips, NEW from, NEW answer \in Answers, Answer(ip, from, answer)
    PROVE  RequestsOK'
<1>1. [NoRequest EXCEPT !.stage = answer] \in Request
  BY RetriesAssumption DEF NoRequest, Request
<1>2. [NoRequest EXCEPT !.stage = answer].stage = answer
  BY DEF NoRequest
<1> QED  BY <1>1, <1>2, RequestStep DEF Answer, Answers

LEMMA StageStep ==
    ASSUME RequestsOK, NEW ip \in Ips, NEW to \in {"created", "exists"},
           Stage(ip, "initializing", to)
    PROVE  RequestsOK' /\ request[ip].code \in Codes
<1>1. request[ip] \in Request /\ request[ip].code \in Codes /\ request[ip].tries < MaxCodeRetries
  BY DEF RequestsOK, Stage
<1> DEFINE r == [request[ip] EXCEPT !.stage = to]
<1>2. r \in Request /\ r.code = request[ip].code /\ r.tries = request[ip].tries
  BY <1>1 DEF Request, InProgress
<1>3. request' = [request EXCEPT ![ip] = r]
  BY DEF Stage
<1> QED  BY <1>1, <1>2, <1>3, RequestStep

LEMMA AdvanceStep == \A ip \in Ips : RouterInv /\ Advance(ip) => RouterInv'
<1> SUFFICES ASSUME NEW ip \in Ips, RouterInv, Advance(ip) PROVE RouterInv'
  OBVIOUS
<1>1. LimiterInv /\ RequestsOK /\ RoomsOK /\ request[ip] \in Request
  BY DEF RouterInv, RequestsOK
<1>2. UNCHANGED vars
  BY DEF Advance, DrawCode, OutOfAttempts, Collision, RespondRoom, InitFails
<1>3. LimiterInv'
  BY <1>1, <1>2 DEF vars, LimiterInv, TypeOK, CountedNow, Expired
<1>4. ASSUME UNCHANGED <<expiresIn, creators>> PROVE RoomsOK'
  BY <1>1, <1>4 DEF RoomsOK, LiveHaveCreators, OneCreator, Live
<1>5. ASSUME DrawCode(ip) PROVE RequestsOK' /\ RoomsOK'
  <2>1. PICK code \in Codes : request' = [request EXCEPT ![ip].stage = "initializing", ![ip].code = code]
    BY <1>5 DEF DrawCode
  <2> DEFINE r == [request[ip] EXCEPT !.stage = "initializing", !.code = code]
  <2>2. r \in Request /\ r.code = code /\ r.tries = request[ip].tries
    BY <1>1 DEF Request, InProgress
  <2>3. request' = [request EXCEPT ![ip] = r]
    BY <1>1, <2>1 DEF RequestsOK, Request
  <2> QED  BY <1>1, <1>4, <1>5, <2>2, <2>3, RequestStep DEF DrawCode, AttemptsLeft
<1>6. ASSUME OutOfAttempts(ip) \/ RespondRoom(ip) \/ InitFails(ip) PROVE RequestsOK' /\ RoomsOK'
  BY <1>1, <1>4, <1>6, AnswerStep DEF OutOfAttempts, RespondRoom, InitFails, Answers
<1>7. ASSUME Initialize(ip) PROVE RequestsOK' /\ RoomsOK'
  <2> DEFINE code == request[ip].code
  <2>1. RequestsOK' /\ code \in Codes
    BY <1>1, <1>7, StageStep DEF Initialize
  <2>2. creators[code] = {}
    BY <1>1, <1>7, <2>1 DEF Initialize, RoomsOK, LiveHaveCreators
  <2>3. expiresIn' = [expiresIn EXCEPT ![code] = RoomTtl] /\ creators' = [creators EXCEPT ![code] = {ip}]
    BY <1>7, <2>2 DEF Initialize
  <2>4. expiresIn' \in [Codes -> 0..RoomTtl] /\ creators' \in [Codes -> SUBSET Ips]
    <3>1. RoomTtl \in 0..RoomTtl
      BY RetriesAssumption
    <3>2. {ip} \in SUBSET Ips
      OBVIOUS
    <3>3. expiresIn' \in [Codes -> 0..RoomTtl]
      BY <1>1, <2>3, <3>1 DEF RoomsOK
    <3>4. creators' \in [Codes -> SUBSET Ips]
      BY <1>1, <2>3, <3>2 DEF RoomsOK
    <3> QED  BY <3>3, <3>4
  <2>5. \A other \in Codes :
           /\ expiresIn'[other] = IF other = code THEN RoomTtl ELSE expiresIn[other]
           /\ creators'[other] = IF other = code THEN {ip} ELSE creators[other]
    BY <1>1, <2>1, <2>3 DEF RoomsOK
  <2>6. LiveHaveCreators'
    BY <1>1, <2>5, RetriesAssumption DEF LiveHaveCreators, Live, RoomsOK
  <2>7. OneCreator'
    BY <1>1, <2>5 DEF OneCreator, RoomsOK
  <2> QED  BY <2>1, <2>4, <2>6, <2>7 DEF RoomsOK
<1>8. ASSUME RefuseInit(ip) PROVE RequestsOK' /\ RoomsOK'
  BY <1>1, <1>4, <1>8, StageStep DEF RefuseInit
<1>9. ASSUME Collision(ip) PROVE RequestsOK' /\ RoomsOK'
  <2> DEFINE r == [request[ip] EXCEPT !.stage = "drawing", !.tries = @ + 1, !.code = NoCode]
  <2>1. request[ip].tries + 1 \in 0..MaxCodeRetries
    BY <1>1, <1>9, RetriesAssumption DEF Collision, RequestsOK, Request
  <2>2. r \in Request /\ r.stage = "drawing"
    BY <1>1, <2>1 DEF Request, InProgress
  <2>3. request' = [request EXCEPT ![ip] = r]
    BY <1>1, <1>9 DEF Collision, RequestsOK, Request
  <2>4. RoomsOK'
    BY <1>4, <1>9 DEF Collision
  <2> QED  BY <1>1, <2>2, <2>3, <2>4, RequestStep
<1> QED  BY <1>3, <1>5, <1>6, <1>7, <1>8, <1>9 DEF Advance, RouterInv

LEMMA RouterInvStep == RouterInv /\ [RouterNext]_allVars => RouterInv'
<1> SUFFICES ASSUME RouterInv, [RouterNext]_allVars PROVE RouterInv'
  OBVIOUS
<1>1. LimiterInv /\ RequestsOK /\ RoomsOK
  BY DEF RouterInv
<1>2. ASSUME NEW ip \in Ips, CreateRequest(ip) PROVE RouterInv'
  <2>1. LimiterInv'
    BY <1>1, <1>2, CheckStep DEF CreateRequest
  <2> DEFINE r == [NoRequest EXCEPT !.stage = IF verdict'[ip] = "limited" THEN "limited" ELSE "drawing"]
  <2>2. r \in Request /\ r.stage \in {"limited", "drawing"}
    BY RetriesAssumption DEF NoRequest, Request, Answers, InProgress
  <2>3. RequestsOK'
    BY <1>1, <1>2, <2>2, RequestStep DEF CreateRequest
  <2>4. RoomsOK'
    BY <1>1, <1>2 DEF CreateRequest, RoomsOK, LiveHaveCreators, OneCreator, Live
  <2> QED  BY <2>1, <2>3, <2>4 DEF RouterInv
<1>3. ASSUME NEW ip \in Ips, Advance(ip) PROVE RouterInv'
  BY <1>3, AdvanceStep
<1>4. CASE OtherRequest /\ UNCHANGED routerVars
  <2>1. LimiterInv'
    BY <1>1, <1>4, OtherRequestStep
  <2> QED  BY <1>1, <1>4, <2>1
           DEF routerVars, RouterInv, RequestsOK, RoomsOK, LiveHaveCreators, OneCreator, Live
<1>5. CASE RouterTick
  <2>1. LimiterInv'
    BY <1>1, <1>5, TickStep DEF RouterTick
  <2>2. expiresIn' \in [Codes -> 0..RoomTtl]
    BY <1>1, <1>5, RetriesAssumption DEF RouterTick, RoomsOK, Live
  <2>3. creators' \in [Codes -> SUBSET Ips] /\ OneCreator'
    BY <1>1, <1>5 DEF RouterTick, RoomsOK, OneCreator
  <2>4. LiveHaveCreators'
    BY <1>5 DEF RouterTick, LiveHaveCreators, Live
  <2>5. RequestsOK'
    BY <1>1, <1>5 DEF RouterTick, RequestsOK
  <2> QED  BY <2>1, <2>2, <2>3, <2>4, <2>5 DEF RouterInv, RoomsOK
<1>6. CASE UNCHANGED allVars
  BY <1>1, <1>6 DEF allVars, vars, routerVars, RouterInv, LimiterInv, TypeOK, CountedNow, Expired,
     RequestsOK, RoomsOK, LiveHaveCreators, OneCreator, Live
<1> QED  BY <1>2, <1>3, <1>4, <1>5, <1>6 DEF RouterNext

LEMMA RouterInvariant == RouterSpec => []RouterInv
  BY RouterInvInit, RouterInvStep, PTL DEF RouterSpec

\* Type correctness.  Among it: check() admits no more than the limit within an
\* instant, and handleCreateRoom makes no more than MAX_CODE_RETRIES attempts.
THEOREM TypeCorrect == RouterSpec => []RouterTypeOK
<1>1. RouterInv => RouterTypeOK
  BY DEF RouterInv, LimiterInv, RequestsOK, RoomsOK, RouterTypeOK
<1> QED  BY <1>1, RouterInvariant, PTL

\* Of any number of creations that draw one code, one initialises the room: handleInit
\* does not let go between its check and its INSERT, and answers the others 409.
THEOREM CodesAreUnique == RouterSpec => []OneCreator
<1>1. RouterInv => OneCreator
  BY DEF RouterInv, RoomsOK
<1> QED  BY <1>1, RouterInvariant, PTL

----------------------------------------------------------------------------

\* Whatever happens elsewhere in the router keeps the windows of the limiter.
LEMMA WindowsInvariant == RouterSpec => []LimiterWindows
<1>1. RouterInit => WindowsInv
  BY WindowsInit DEF RouterInit
<1>2. RouterInv /\ WindowsInv /\ [RouterNext]_allVars => WindowsInv'
  <2> SUFFICES ASSUME LimiterWindows, [RouterNext]_allVars PROVE WindowsInv'
    BY DEF LimiterWindows, RouterInv
  <2>1. ASSUME NEW ip \in Ips, CreateRequest(ip) PROVE WindowsInv'
    BY <2>1, WindowsCheck DEF CreateRequest
  <2>2. ASSUME UNCHANGED vars PROVE WindowsInv'
    <3>1. entries' = entries /\ admitted' = admitted /\ verdict' = verdict
      BY <2>2 DEF vars
    <3>2. WindowsInv
      BY DEF LimiterWindows
    <3> QED  BY <3>1, <3>2 DEF WindowsInv
  <2>3. ASSUME NEW ip \in Ips, Advance(ip) PROVE WindowsInv'
    <3>1. UNCHANGED vars
      BY <2>3 DEF Advance, DrawCode, OutOfAttempts, Collision, RespondRoom, InitFails
    <3> QED  BY <2>2, <3>1
  <2>4. CASE OtherRequest
    BY <2>4, WindowsOther
  <2>5. CASE RouterTick
    BY <2>5, WindowsTick DEF RouterTick
  <2>6. CASE UNCHANGED allVars
    BY <2>2, <2>6 DEF allVars
  <2> QED  BY <2>1, <2>3, <2>4, <2>5, <2>6 DEF RouterNext
<1>3. RouterInv /\ WindowsInv => LimiterWindows
  BY DEF RouterInv, LimiterWindows
<1> QED  BY <1>1, <1>2, <1>3, RouterInvariant, PTL DEF RouterSpec

\* check() admits no more than 2 * limit - 1 creations of an address in any interval as
\* long as a window, and the router's pruning does not change that.
THEOREM AdmissionIsBounded == RouterSpec => []AtMostTwoWindows
<1>1. LimiterWindows => AtMostTwoWindows
  BY WindowsBound
<1> QED  BY <1>1, WindowsInvariant, PTL

\* check() limits nobody who has not used up the limit within the last window.
THEOREM NobodyIsLimitedEarly == RouterSpec => []LimitedForCause
<1>1. LimiterWindows => LimitedForCause
  BY WindowsBound
<1> QED  BY <1>1, WindowsInvariant, PTL

=============================================================================
