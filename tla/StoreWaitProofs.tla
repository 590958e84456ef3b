-------------------------- MODULE StoreWaitProofs --------------------------
(***************************************************************************)
(* What a wait returns is genuine, both stores implement KeyWait, and no   *)
(* wait sleeps through a write, for any keys, values, waiters and number   *)
(* of writes.                                                              *)
(*                                                                         *)
(* A result passes through the watch's events, matched and result[0] on    *)
(* its way to the caller.  GenuineInv says of each of these places that it *)
(* holds nothing but what the store held since the wait began, or the      *)
(* empty value of a deletion, which no test but wait_for_key's lets        *)
(* through.  CountInv adds that what a wait gathers has one value per key, *)
(* so that sorted(matched)[:count] has count elements: PrefixCount, by the *)
(* least n for which it would not.  AwakeInv adds that whatever a sleeping *)
(* wait lacks is among its events.                                         *)
(***************************************************************************)
EXTENDS StoreWait, FiniteSetTheorems, SequenceTheorems, WellFoundedInduction,
        TLAPS

\* Most leaves are first-order: Zenon tries them before SMT.
USE ZenonT(3), SMTT(15)

\* What waiter w may come to return.
Good(w) == {p \in seen[w] : Hits(w, p)}

\* An event of waiter w is news of the store or of a deletion.
Credible(w, e) == e \in seen[w] \/ (e[2] = Empty /\ scenario.deletes)

WaiterInv(w) ==
  /\ watching[w] => Waiting(w)
  /\ ~watching[w] => events[w] = << >>
  /\ pc[w] \in {"watch", "check", "blocked"} => Etcd
  /\ pc[w] = "poll" => ~Etcd /\ ~watching[w]
  /\ pc[w] = "idle" => matched[w] = {} /\ result[w] = {} /\ answer[w] = {}
  /\ Waiting(w) => Pairs(Data) \subseteq seen[w]
  /\ \A i \in 1..Len(events[w]) : Credible(w, events[w][i])
  /\ matched[w] \subseteq Good(w)
  /\ result[w] \subseteq Good(w)
  /\ answer[w] \subseteq Good(w)

GenuineInv == TypeOK /\ \A w \in Waiters : WaiterInv(w)

\* The constants and what a wait asks for.
LEMMA CallType ==
  ASSUME TypeOK, NEW w \in Waiters
  PROVE  /\ Call(w) \in Wait
         /\ Missing \notin Values /\ Empty \notin Values
         /\ Call(w).kind # "key" => Call(w).value \in Values
         /\ Etcd /\ scenario.deletes => Call(w).kind # "key"
BY StoreAssumption, DeleteAssumption, SMT DEF TypeOK, Call, Wait, Etcd

\* A pair of the store that passes a wait's test is one that the caller sees.
LEMMA HitIsThere ==
  ASSUME TypeOK, NEW w \in Waiters, NEW k \in Keys, Hits(w, <<k, kv[k]>>)
  PROVE  <<k, kv[k]>> \in Pairs(Data)
<1>1. kv[k] # Missing /\ kv[k] # Empty
  BY CallType DEF Hits, TypeOK, Etcd
<1>2. Data[k] = kv[k]
  BY <1>1 DEF Data
<1> QED
  BY <1>1, <1>2 DEF Pairs

\* An event that passes a wait's test is news of the store.
LEMMA HitIsNews ==
  ASSUME TypeOK, NEW w \in Waiters, Etcd, NEW e, Hits(w, e), Credible(w, e)
  PROVE  e \in Good(w)
BY CallType DEF Hits, Credible, Good, TypeOK

\* sorted(S)[:count] is a part of S.
LEMMA FirstOfSubset ==
  ASSUME NEW w \in Waiters, NEW S
  PROVE  FirstOf(w, S) \subseteq S
BY DEF FirstOf

\* The contents of the store, as its callers see them, are pairs.
LEMMA PairsType ==
  ASSUME kv \in [Keys -> Stored]
  PROVE  Pairs(Data) \subseteq Pair
<1> SUFFICES ASSUME NEW p \in Pairs(Data)
             PROVE  p \in Pair
  OBVIOUS
<1>1. PICK k \in Keys : p = <<k, Data[k]>> /\ Data[k] # Missing
  BY DEF Pairs
<1>2. Data[k] = kv[k] /\ kv[k] \in Stored
  BY <1>1 DEF Data
<1> QED
  BY <1>1, <1>2 DEF Pair

\* Nothing is under way at first.
LEMMA GenuineInit ==
  ASSUME Init
  PROVE  GenuineInv
<1>1. TypeOK
  <2>1. events \in [Waiters -> Seq(Pair)]
    BY DEF Init
  <2>2. kv \in [Keys -> Stored] /\ \A k \in Keys : kv[k] # Empty
    BY StoreAssumption DEF Init, Stored
  <2>3. /\ pc \in [Waiters -> Places]
        /\ watching \in [Waiters -> BOOLEAN]
        /\ matched \in [Waiters -> SUBSET Pair]
        /\ result \in [Waiters -> SUBSET Pair]
        /\ poll \in [Waiters -> SUBSET Keys]
        /\ seen \in [Waiters -> SUBSET Pair]
        /\ answer \in [Waiters -> SUBSET Pair]
    BY DEF Init, Places
  <2> QED
    BY <2>1, <2>2, <2>3 DEF Init, TypeOK
<1>2. ASSUME NEW w \in Waiters
      PROVE  WaiterInv(w)
  BY <1>2 DEF Init, WaiterInv, Waiting
<1> QED
  BY <1>1, <1>2 DEF GenuineInv

\* A step that leaves a waiter and the server alone keeps what is known of it.
LEMMA Untouched ==
  ASSUME NEW x \in Waiters, WaiterInv(x), UNCHANGED <<scenario, kv>>,
         pc'[x] = pc[x], events'[x] = events[x], watching'[x] = watching[x],
         matched'[x] = matched[x], result'[x] = result[x], seen'[x] = seen[x],
         answer'[x] = answer[x]
  PROVE  WaiterInv(x)'
BY DEF WaiterInv, Waiting, Credible, Good, Hits, Call, Etcd, Data, Pairs

\* A write reaches every watch as news, and everyone who waits has seen it.
LEMMA WriteKeeps ==
  ASSUME GenuineInv, NEW ks \in Seq(Keys), NEW v \in Stored, Write(ks, v),
         v \in {Missing, Empty} => scenario.deletes,
         Etcd => v # Empty
  PROVE  GenuineInv'
<1> DEFINE sent == IF v = Missing THEN Empty ELSE v
           news == [i \in 1..Len(ks) |-> <<ks[i], sent>>]
<1>1. news \in Seq(Pair) /\ Len(news) = Len(ks)
  <2>1. sent \in Stored
    BY DEF Stored
  <2> QED
    BY <2>1 DEF Pair
<1>2. kv' \in [Keys -> Stored]
  BY DEF Write, GenuineInv, TypeOK
<1>3. Pairs(Data)' \subseteq Pair
  <2> SUFFICES ASSUME NEW p \in Pairs(Data)'
               PROVE  p \in Pair
    OBVIOUS
  <2>1. PICK k \in Keys : p = <<k, Data'[k]>> /\ Data'[k] # Missing
    BY DEF Pairs
  <2>2. Data'[k] = kv'[k] /\ kv'[k] \in Stored
    BY <1>2, <2>1 DEF Data
  <2> QED
    BY <2>1, <2>2 DEF Pair
<1>4. TypeOK'
  <2>1. events' \in [Waiters -> Seq(Pair)]
    <3> HIDE DEF news
    <3>1. events' = [w \in Waiters |-> IF watching[w] THEN events[w] \o news ELSE events[w]]
      BY DEF Write, news
    <3> QED
      BY <1>1, <3>1, SMT DEF GenuineInv, TypeOK
  <2>2. seen' \in [Waiters -> SUBSET Pair]
    BY <1>3 DEF Write, GenuineInv, TypeOK
  <2>3. Etcd' => \A k \in Keys : kv'[k] # Empty
    BY DEF Write, GenuineInv, TypeOK, Etcd
  <2> QED
    BY <1>2, <2>1, <2>2, <2>3 DEF Write, GenuineInv, TypeOK
<1>5. ASSUME NEW w \in Waiters
      PROVE  WaiterInv(w)'
  <2>1. /\ UNCHANGED <<scenario, pc, watching, matched, result, answer>>
        /\ WaiterInv(w)
    BY DEF Write, GenuineInv
  <2>2. seen[w] \subseteq seen'[w]
    BY DEF Write
  <2>3. Good(w) \subseteq Good(w)'
    BY <2>1, <2>2 DEF Good, Hits, Call, Etcd
  <2>4. Waiting(w)' => Pairs(Data)' \subseteq seen'[w]
    BY <2>1 DEF Write, Waiting
  <2>5. ASSUME NEW i \in 1..Len(events'[w])
        PROVE  Credible(w, events[w][i])'
    <3>1. CASE ~watching[w]
      <4>1. events'[w] = << >>
        BY <2>1, <3>1 DEF Write, WaiterInv
      <4> QED
        BY <2>5, <4>1
    <3>2. CASE watching[w]
      <4>0. events[w] \in Seq(Pair)
        BY DEF GenuineInv, TypeOK
      <4>1. events'[w] = events[w] \o news
        BY <3>2 DEF Write
      <4>2. CASE i \in 1..Len(events[w])
        <5>1. events'[w][i] = events[w][i]
          <6> HIDE DEF news
          <6> QED BY <1>1, <4>0, <4>1, <4>2
        <5>2. Credible(w, events[w][i])
          BY <2>1, <4>2 DEF WaiterInv
        <5> QED
          BY <2>1, <2>2, <5>1, <5>2 DEF Credible
      <4>3. CASE i \notin 1..Len(events[w])
        <5>1. PICK j \in 1..Len(ks) : events'[w][i] = news[j]
          <6> HIDE DEF news
          <6>1. i - Len(events[w]) \in 1..Len(news) /\ events'[w][i] = news[i - Len(events[w])]
            BY <1>1, <2>5, <4>0, <4>1, <4>3
          <6> QED
            BY <1>1, <6>1
        <5>2. events'[w][i] = <<ks[j], sent>> /\ ks[j] \in Keys
          BY <5>1
        <5>3. CASE v \in {Missing, Empty}
          BY <2>1, <5>2, <5>3, SMT DEF Credible
        <5>4. CASE v \notin {Missing, Empty}
          <6>1. kv'[ks[j]] = v /\ sent = v
            BY <5>2, <5>4 DEF Write
          <6>2. Data'[ks[j]] = v
            BY <5>2, <5>4, <6>1 DEF Data
          <6>3. <<ks[j], v>> \in Pairs(Data)'
            BY <5>2, <5>4, <6>2 DEF Pairs
          <6>4. Waiting(w)'
            BY <2>1, <3>2 DEF WaiterInv, Waiting
          <6> QED
            BY <2>4, <5>2, <6>1, <6>3, <6>4 DEF Credible
        <5> QED
          BY <5>3, <5>4
      <4> QED
        BY <4>2, <4>3
    <3> QED
      BY <3>1, <3>2
  <2>6. ~watching'[w] => events'[w] = << >>
    BY <2>1 DEF Write, WaiterInv
  <2> QED
    BY <2>1, <2>3, <2>4, <2>5, <2>6 DEF WaiterInv, Waiting, Etcd
<1> QED
  BY <1>4, <1>5 DEF GenuineInv
\* The steps of one waiter leave the store and the other waiters alone.
LEMMA OneWaiter ==
  ASSUME GenuineInv, UNCHANGED <<scenario, kv>>, NEW w \in Waiters, TypeOK',
         WaiterInv(w)',
         \A x \in Waiters \ {w} :
           /\ pc'[x] = pc[x] /\ events'[x] = events[x] /\ watching'[x] = watching[x]
           /\ matched'[x] = matched[x] /\ result'[x] = result[x]
           /\ seen'[x] = seen[x] /\ answer'[x] = answer[x]
  PROVE  GenuineInv'
<1>1. \A x \in Waiters : WaiterInv(x)'
  BY Untouched DEF GenuineInv
<1> QED
  BY <1>1 DEF GenuineInv

\* Beginning to wait: the store's contents are seen.
LEMMA BeginKeeps ==
  ASSUME GenuineInv, NEW w \in Waiters, Begin(w)
  PROVE  GenuineInv'
<1>1. Pairs(Data) \subseteq Pair
  BY PairsType DEF GenuineInv, TypeOK
<1>2. TypeOK'
  <2>1. Call(w).keys \subseteq Keys
    BY CallType DEF GenuineInv, Wait
  <2> QED
    BY <1>1, <2>1 DEF Begin, Go, Steps, GenuineInv, TypeOK, Places, Etcd
<1>3. WaiterInv(w)'
  <2>1. /\ pc[w] = "idle" /\ WaiterInv(w)
        /\ UNCHANGED <<scenario, kv, events, watching, matched, result, answer>>
        /\ seen'[w] = Pairs(Data)
        /\ pc'[w] = IF Etcd THEN "watch" ELSE "poll"
    BY DEF Begin, Go, Steps, GenuineInv, TypeOK
  <2>2. ~watching[w] /\ events[w] = << >> /\ matched[w] = {} /\ result[w] = {} /\ answer[w] = {}
    BY <2>1 DEF WaiterInv, Waiting
  <2>3. Pairs(Data)' = Pairs(Data)
    BY <2>1 DEF Pairs, Data
  <2> QED
    BY <2>1, <2>2, <2>3 DEF WaiterInv, Waiting, Etcd
<1> QED
  BY <1>2, <1>3, OneWaiter, Zenon DEF Begin, Go, GenuineInv, TypeOK

\* Setting the watch up.
LEMMA WatchKeeps ==
  ASSUME GenuineInv, NEW w \in Waiters, AddWatch(w)
  PROVE  GenuineInv'
<1>1. TypeOK'
  BY DEF AddWatch, Go, After, Steps, GenuineInv, TypeOK, Places, Etcd
<1>2. WaiterInv(w)'
  <2>1. /\ pc[w] = "watch" /\ WaiterInv(w)
        /\ UNCHANGED <<scenario, kv, events, matched, result, answer, seen>>
        /\ pc'[w] = "check" /\ watching'[w] = TRUE
    BY DEF AddWatch, Go, After, Steps, GenuineInv, TypeOK
  <2>2. Pairs(Data)' = Pairs(Data) /\ Good(w)' = Good(w) /\ (Etcd' <=> Etcd)
    BY <2>1 DEF Pairs, Data, Good, Hits, Call, Etcd
  <2>3. \A i \in 1..Len(events[w]) : Credible(w, events[w][i])' <=> Credible(w, events[w][i])
    BY <2>1 DEF Credible
  <2> QED
    BY <2>1, <2>2, <2>3 DEF WaiterInv, Waiting
<1> QED
  BY <1>1, <1>2, OneWaiter, Zenon DEF AddWatch, Go, GenuineInv, TypeOK

\* A wait that ends returns nothing but what is good.
LEMMA EndKeeps ==
  ASSUME GenuineInv, NEW w \in Waiters, NEW place \in {"returned", "timeout"},
         NEW S \in SUBSET Good(w), End(w, place, S), UNCHANGED <<result, seen>>,
         NEW T \in SUBSET Good(w), matched' = [matched EXCEPT ![w] = T],
         poll' \in [Waiters -> SUBSET Keys]
  PROVE  GenuineInv'
<1>1. Good(w) \subseteq Pair
  BY DEF Good, GenuineInv, TypeOK
<1>2. TypeOK'
  <2>1. events' \in [Waiters -> Seq(Pair)]
    BY SMT DEF End, GenuineInv, TypeOK
  <2> QED
    BY <1>1, <2>1 DEF End, Go, GenuineInv, TypeOK, Places, Etcd
<1>3. WaiterInv(w)'
  <2>1. /\ WaiterInv(w)
        /\ UNCHANGED <<scenario, kv, result, seen>>
        /\ pc'[w] = place /\ ~watching'[w] /\ events'[w] = << >>
        /\ answer'[w] = S /\ matched'[w] = T
    BY DEF End, Go, GenuineInv, TypeOK
  <2>2. Good(w)' = Good(w)
    BY <2>1 DEF Good, Hits, Call, Etcd
  <2> QED
    BY <2>1, <2>2, SMT DEF WaiterInv, Waiting
<1> QED
  BY <1>2, <1>3, OneWaiter, Zenon DEF End, Go, GenuineInv, TypeOK

\* The look at the store finds what is there.
LEMMA CheckKeeps ==
  ASSUME GenuineInv, NEW w \in Waiters, Check(w)
  PROVE  GenuineInv'
<1> DEFINE found == {p \in Pairs(kv) : Hits(w, p)}
           all == IF Call(w).kind = "keys" THEN matched[w] \cup found ELSE found
<1>1. /\ TypeOK /\ WaiterInv(w) /\ pc[w] = "check"
      /\ Pairs(Data) \subseteq seen[w]
  BY DEF Check, GenuineInv, WaiterInv, Waiting
<1>2. found \subseteq Good(w)
  <2> SUFFICES ASSUME NEW p \in Pairs(kv), Hits(w, p)
               PROVE  p \in Good(w)
    OBVIOUS
  <2>1. PICK k \in Keys : p = <<k, kv[k]>>
    BY DEF Pairs
  <2> QED
    BY <1>1, <2>1, HitIsThere DEF Good
<1>3. all \subseteq Good(w)
  BY <1>1, <1>2 DEF WaiterInv
<1>4. matched' = [matched EXCEPT ![w] = all] /\ UNCHANGED <<result, poll, seen>>
  BY DEF Check, End
<1> HIDE DEF all, found
<1>5. CASE Enough(w, all)
  <2>1. End(w, "returned", FirstOf(w, all))
    BY <1>5 DEF Check, all, found
  <2>2. FirstOf(w, all) \subseteq Good(w)
    BY <1>3, FirstOfSubset
  <2>3. poll' \in [Waiters -> SUBSET Keys]
    BY <1>1, <1>4 DEF TypeOK
  <2> QED
    BY <1>3, <1>4, <2>1, <2>2, <2>3, EndKeeps, Zenon
<1>6. CASE ~Enough(w, all)
  <2>1. /\ pc' = [pc EXCEPT ![w] = "blocked"]
        /\ UNCHANGED <<scenario, kv, events, watching, seen, answer>>
    BY <1>6 DEF Check, all, found, Go, After, Steps
  <2>2. Good(w) \subseteq Pair
    BY <1>1 DEF Good, TypeOK
  <2>3. TypeOK'
    BY <1>1, <1>3, <1>4, <2>1, <2>2 DEF TypeOK, Places, Etcd
  <2>4. WaiterInv(w)'
    <3>1. Pairs(Data)' = Pairs(Data) /\ Good(w)' = Good(w) /\ (Etcd' <=> Etcd)
      BY <1>4, <2>1 DEF Pairs, Data, Good, Hits, Call, Etcd
    <3>2. \A i \in 1..Len(events[w]) : Credible(w, events[w][i])' <=> Credible(w, events[w][i])
      BY <1>4, <2>1 DEF Credible
    <3>3. matched'[w] = all /\ pc'[w] = "blocked"
      BY <1>1, <1>4, <2>1 DEF TypeOK
    <3> QED
      BY <1>1, <1>3, <1>4, <2>1, <3>1, <3>2, <3>3 DEF WaiterInv, Waiting
  <2> QED
    BY <1>1, <1>4, <2>1, <2>3, <2>4, OneWaiter, Zenon DEF TypeOK
<1> QED
  BY <1>5, <1>6

\* An event that passes the test is good.
LEMMA CallbackKeeps ==
  ASSUME GenuineInv, NEW w \in Waiters, Callback(w)
  PROVE  GenuineInv'
<1> DEFINE e == Head(events[w])
           all == IF Call(w).kind = "keys" THEN matched[w] \cup {e} ELSE {e}
<1>1. /\ TypeOK /\ WaiterInv(w) /\ watching[w]
      /\ events[w] \in Seq(Pair) /\ events[w] # << >>
  BY DEF Callback, GenuineInv, TypeOK
<1>2. Etcd /\ Credible(w, e)
  <2>1. e = events[w][1] /\ 1 \in 1..Len(events[w])
    BY <1>1
  <2>2. Etcd
    BY <1>1 DEF WaiterInv, Waiting, TypeOK, Places
  <2> QED
    BY <1>1, <2>1, <2>2 DEF WaiterInv
<1>3. Hits(w, e) => all \subseteq Good(w)
  BY <1>1, <1>2, HitIsNews DEF WaiterInv
<1> HIDE DEF all, e
<1>4. /\ events' = [events EXCEPT ![w] = Tail(events[w])]
      /\ matched' = [matched EXCEPT ![w] = IF Hits(w, e) THEN all ELSE matched[w]]
      /\ result' = [result EXCEPT ![w] =
                      IF Hits(w, e) /\ Enough(w, all) THEN FirstOf(w, all) ELSE result[w]]
      /\ UNCHANGED <<scenario, kv, pc, watching, poll, seen, answer>>
  BY <1>1 DEF Callback, all, e, TypeOK
<1>5. /\ matched'[w] \subseteq Good(w)
      /\ result'[w] \subseteq Good(w)
  BY <1>1, <1>3, <1>4, FirstOfSubset DEF TypeOK, WaiterInv
<1>6. TypeOK'
  <2>1. Good(w) \subseteq Pair
    BY <1>1 DEF Good, TypeOK
  <2>2. events' \in [Waiters -> Seq(Pair)]
    BY <1>1, <1>4, SMT DEF TypeOK
  <2>3. matched' \in [Waiters -> SUBSET Pair] /\ result' \in [Waiters -> SUBSET Pair]
    BY <1>1, <1>4, <1>5, <2>1 DEF TypeOK
  <2> QED
    BY <1>1, <1>4, <2>2, <2>3 DEF TypeOK, Etcd
<1>7. WaiterInv(w)'
  <2>1. Pairs(Data)' = Pairs(Data) /\ Good(w)' = Good(w) /\ (Etcd' <=> Etcd)
    BY <1>4 DEF Pairs, Data, Good, Hits, Call, Etcd
  <2>2. ASSUME NEW i \in 1..Len(events'[w])
        PROVE  Credible(w, events[w][i])'
    <3>1. events'[w] = Tail(events[w])
      BY <1>1, <1>4 DEF TypeOK
    <3>2. i + 1 \in 1..Len(events[w]) /\ events'[w][i] = events[w][i + 1]
      BY <1>1, <2>2, <3>1
    <3>3. Credible(w, events[w][i + 1])
      BY <1>1, <3>2 DEF WaiterInv
    <3> QED
      BY <1>4, <3>2, <3>3 DEF Credible
  <2> QED
    BY <1>1, <1>4, <1>5, <2>1, <2>2, Zenon DEF WaiterInv, Waiting
<1> QED
  BY <1>1, <1>4, <1>6, <1>7, OneWaiter, Zenon DEF TypeOK

\* A polled pair that passes the test is good.
LEMMA PollKeeps ==
  ASSUME GenuineInv, NEW w \in Waiters, NEW k \in Keys, PollKey(w, k)
  PROVE  GenuineInv'
<1> DEFINE p == <<k, kv[k]>>
<1>1. TypeOK /\ WaiterInv(w) /\ Pairs(Data) \subseteq seen[w]
  BY DEF PollKey, GenuineInv, WaiterInv, Waiting
<1>2. Hits(w, p) => p \in Good(w)
  BY <1>1, HitIsThere DEF Good
<1> HIDE DEF p
<1>3. /\ matched' = [matched EXCEPT ![w] = IF Hits(w, p) THEN matched[w] \cup {p} ELSE matched[w]]
      /\ poll' = [poll EXCEPT ![w] = poll[w] \ {k}]
      /\ UNCHANGED <<scenario, kv, pc, events, watching, result, seen, answer>>
  BY <1>1 DEF PollKey, p, TypeOK
<1>4. matched'[w] \subseteq Good(w)
  BY <1>1, <1>2, <1>3 DEF TypeOK, WaiterInv
<1>5. TypeOK'
  <2>1. Good(w) \subseteq Pair
    BY <1>1 DEF Good, TypeOK
  <2> QED
    BY <1>1, <1>3, <1>4, <2>1 DEF TypeOK, Etcd
<1>6. WaiterInv(w)'
  <2>1. Pairs(Data)' = Pairs(Data) /\ Good(w)' = Good(w) /\ (Etcd' <=> Etcd)
    BY <1>3 DEF Pairs, Data, Good, Hits, Call, Etcd
  <2>2. \A i \in 1..Len(events[w]) : Credible(w, events[w][i])' <=> Credible(w, events[w][i])
    BY <1>3 DEF Credible
  <2>3. /\ pc'[w] = pc[w] /\ events'[w] = events[w] /\ watching'[w] = watching[w]
        /\ result'[w] = result[w] /\ seen'[w] = seen[w] /\ answer'[w] = answer[w]
        /\ pc[w] # "idle"
    BY <1>3 DEF PollKey
  <2> QED
    BY <1>1, <1>4, <2>1, <2>2, <2>3 DEF WaiterInv, Waiting
<1> QED
  BY <1>1, <1>3, <1>5, <1>6, OneWaiter, Zenon DEF TypeOK

\* The ends of a wait, and of a pass without one.
LEMMA FinishKeeps ==
  ASSUME GenuineInv, NEW w \in Waiters, Wake(w) \/ Timeout(w) \/ EndPass(w)
  PROVE  GenuineInv'
<1>1. TypeOK /\ WaiterInv(w)
  BY DEF GenuineInv
<1>2. matched[w] \subseteq Good(w) /\ result[w] \subseteq Good(w)
  BY <1>1 DEF WaiterInv
<1>3. UNCHANGED matched /\ matched = [matched EXCEPT ![w] = matched[w]]
  BY <1>1 DEF Wake, Timeout, EndPass, TypeOK
<1>4. UNCHANGED <<scenario, kv, result, seen>>
  BY DEF Wake, Timeout, EndPass, End
<1>5. CASE Wake(w)
  <2>1. End(w, "returned", result[w]) /\ poll' = poll
    BY <1>5, Zenon DEF Wake
  <2>2. result[w] \in SUBSET Good(w) /\ matched[w] \in SUBSET Good(w)
    BY <1>2, Zenon
  <2>3. UNCHANGED <<result, seen>> /\ poll' \in [Waiters -> SUBSET Keys]
    BY <1>1, <1>4, <2>1, Zenon DEF TypeOK
  <2> QED
    BY <1>3, <2>1, <2>2, <2>3, EndKeeps, Zenon
<1>6. CASE Timeout(w)
  <2>1. End(w, "timeout", {}) /\ poll' = poll
    BY <1>6, Zenon DEF Timeout
  <2>2. {} \in SUBSET Good(w) /\ matched[w] \in SUBSET Good(w)
    BY <1>2, Zenon
  <2>3. UNCHANGED <<result, seen>> /\ poll' \in [Waiters -> SUBSET Keys]
    BY <1>1, <1>4, <2>1, Zenon DEF TypeOK
  <2> QED
    BY <1>3, <2>1, <2>2, <2>3, EndKeeps, Zenon
<1>7. CASE EndPass(w) /\ Enough(w, matched[w])
  <2>1. FirstOf(w, matched[w]) \subseteq Good(w)
    BY <1>2, FirstOfSubset
  <2>2. End(w, "returned", FirstOf(w, matched[w])) /\ UNCHANGED poll
    BY <1>7 DEF EndPass
  <2> QED
    BY <1>1, <1>2, <1>3, <1>4, <2>1, <2>2, EndKeeps, Zenon DEF TypeOK
<1>8. CASE EndPass(w) /\ ~Enough(w, matched[w])
  <2>1. /\ UNCHANGED <<pc, events, watching, answer>>
        /\ poll' = [poll EXCEPT ![w] = Call(w).keys \ {p[1] : p \in matched[w]}]
    BY <1>8 DEF EndPass
  <2>2. Call(w).keys \subseteq Keys
    BY <1>1, CallType DEF Wait
  <2>3. poll' \in [Waiters -> SUBSET Keys]
    BY <1>1, <2>1, <2>2 DEF TypeOK
  <2>4. TypeOK'
    BY <1>1, <1>3, <1>4, <2>1, <2>3 DEF TypeOK, Etcd
  <2>5. WaiterInv(w)'
    BY <1>1, <1>3, <1>4, <2>1, Untouched
  <2> QED
    BY <1>3, <1>4, <2>1, <2>4, <2>5, OneWaiter
<1> QED
  BY <1>5, <1>6, <1>7, <1>8

\* A clean-up is a write of several keys.
LEMMA CleanupWrites ==
  ASSUME Cleanup
  PROVE  \E ks \in Seq(Keys) : Write(ks, Missing)
<1> DEFINE there == {k \in Keys : kv[k] # Missing}
<1>1. PICK ks \in [1..Cardinality(there) -> there] : Write(ks, Missing)
  BY Zenon DEF Cleanup
<1>2. IsFiniteSet(there)
  BY StoreAssumption, FS_Subset
<1>3. Cardinality(there) \in Nat /\ ks \in [1..Cardinality(there) -> Keys]
  BY <1>1, <1>2, FS_CardinalityType
<1> HIDE DEF there
<1>4. ks \in Seq(Keys)
  BY <1>3, SeqDef
<1> QED
  BY <1>1, <1>4

\* The server's steps keep the invariant.
LEMMA ServerKeeps ==
  ASSUME GenuineInv,
         \/ \E k \in Keys : Delete(k) \/ \E v \in Values : Set(k, v)
         \/ Cleanup
  PROVE  GenuineInv'
<1>1. {Missing, Empty} \cap Values = {} /\ Missing # Empty
  BY StoreAssumption
<1>2. ASSUME NEW k \in Keys, NEW v \in Values, Set(k, v)
      PROVE  GenuineInv'
  <2>1. <<k>> \in Seq(Keys) /\ v \in Stored /\ v \notin {Missing, Empty}
    BY <1>1, <1>2 DEF Stored
  <2>2. Write(<<k>>, v)
    BY <1>2 DEF Set
  <2> QED
    BY <2>1, <2>2, WriteKeeps
<1>3. ASSUME NEW k \in Keys, Delete(k)
      PROVE  GenuineInv'
  <2> DEFINE v == IF Etcd THEN Missing ELSE Empty
  <2>1. <<k>> \in Seq(Keys) /\ v \in Stored /\ (Etcd => v # Empty)
    BY <1>1 DEF Stored
  <2>2. Write(<<k>>, v) /\ scenario.deletes
    BY <1>3 DEF Delete
  <2> HIDE DEF v
  <2> QED
    BY <2>1, <2>2, WriteKeeps, Zenon
<1>4. CASE Cleanup
  <2>0. Missing \in Stored /\ scenario.deletes
    BY <1>4 DEF Cleanup, Stored
  <2>1. PICK ks \in Seq(Keys) : Write(ks, Missing)
    BY <1>4, CleanupWrites
  <2> QED
    BY <1>1, <2>0, <2>1, WriteKeeps
<1> QED
  BY <1>2, <1>3, <1>4

\* Every step keeps the invariant.
LEMMA GenuineStep ==
  ASSUME GenuineInv, [Next]_vars
  PROVE  GenuineInv'
<1>1. CASE \/ \E k \in Keys : Delete(k) \/ \E v \in Values : Set(k, v)
           \/ Cleanup
  BY <1>1, ServerKeeps
<1>2. ASSUME NEW w \in Waiters,
             Begin(w) \/ Step(w) \/ Callback(w) \/ Timeout(w)
      PROVE  GenuineInv'
  BY <1>2, BeginKeeps, WatchKeeps, CheckKeeps, CallbackKeeps, PollKeeps, FinishKeeps
     DEF Step
<1>3. CASE UNCHANGED vars
  <2>1. UNCHANGED <<scenario, kv, pc, events, watching, matched, result, poll, seen, answer>>
    BY <1>3 DEF vars, local
  <2>2. TypeOK'
    BY <2>1 DEF GenuineInv, TypeOK, Etcd
  <2>3. \A w \in Waiters : WaiterInv(w)'
    BY <2>1, Untouched DEF GenuineInv
  <2> QED
    BY <2>2, <2>3 DEF GenuineInv
<1> QED
  BY <1>1, <1>2, <1>3 DEF Next

\* The initial states satisfy the invariant and every step keeps it.
LEMMA GenuineAlways == Spec => []GenuineInv
<1>1. Init => GenuineInv
  BY GenuineInit
<1>2. GenuineInv /\ [Next]_vars => GenuineInv'
  BY GenuineStep
<1> QED
  BY <1>1, <1>2, PTL DEF Spec

\* The stores and their waits keep their types, whatever is waited for and written;
\* an etcd server never holds the empty string that TCPStore's delete leaves.
THEOREM TypeCorrect == Spec => []TypeOK
<1>1. GenuineInv => TypeOK
  BY DEF GenuineInv
<1> QED
  BY <1>1, GenuineAlways, PTL

-----------------------------------------------------------------------------
\* At most one value per key.
Distinct(S) == \A p, q \in S : p[1] = q[1] => p = q

\* The pairs of S with a smaller key than p.
Before(S, p) == {q \in S : q[1] < p[1]}

\* sorted(S)[:n]
Prefix(S, n) == {p \in S : Cardinality(Before(S, p)) < n}

-----------------------------------------------------------------------------
(* Sorting and cutting off *)

\* A set of numbers has a least element.
LEMMA LeastNumber ==
  ASSUME NEW T \in SUBSET Nat, T # {}
  PROVE  \E x \in T : \A y \in T : x <= y
<1>1. PICK x \in T : \A y \in T : ~(<<y, x>> \in OpToRel(<, Nat))
  BY WFMin, NatLessThanWellFounded, Zenon
<1>2. ASSUME NEW y \in T
      PROVE  x <= y
  <2>1. ~(y < x)
    BY <1>1, Zenon DEF OpToRel
  <2> QED
    BY <2>1
<1> QED
  BY <1>2

\* A set of pairs has one with the least key.
LEMMA LeastPair ==
  ASSUME NEW S \in SUBSET Pair, S # {}
  PROVE  \E m \in S : \A q \in S : m[1] <= q[1]
<1> DEFINE T == {p[1] : p \in S}
<1>1. T \in SUBSET Nat /\ T # {}
  BY StoreAssumption, Zenon DEF Pair
<1>2. PICK x \in T : \A y \in T : x <= y
  BY <1>1, LeastNumber, Zenon
<1> QED
  BY <1>2

\* A set of pairs with one value per key is finite, as Keys is.
LEMMA DistinctFinite ==
  ASSUME NEW S \in SUBSET Pair, Distinct(S)
  PROVE  IsFiniteSet(S)
<1> DEFINE f == [p \in S |-> p[1]]
<1>1. f \in Injection(S, Keys)
  BY DEF Injection, IsInjective, Pair, Distinct
<1> QED
  BY <1>1, StoreAssumption, FS_Injection

\* One more place takes in exactly the least pair left out so far.
LEMMA PrefixGrows ==
  ASSUME NEW S \in SUBSET Pair, Distinct(S), NEW n \in Nat, n < Cardinality(S),
         Cardinality(Prefix(S, n)) = n
  PROVE  Cardinality(Prefix(S, n + 1)) = n + 1
<1>1. IsFiniteSet(S) /\ Cardinality(S) \in Nat
  BY DistinctFinite, FS_CardinalityType
<1>2. Prefix(S, n) \subseteq S /\ IsFiniteSet(Prefix(S, n))
  BY <1>1, FS_Subset DEF Prefix
<1>3. ASSUME NEW p \in S
      PROVE  /\ Before(S, p) \subseteq S /\ IsFiniteSet(Before(S, p))
             /\ Cardinality(Before(S, p)) \in Nat
  <2>1. Before(S, p) \subseteq S
    BY DEF Before
  <2> QED
    BY <1>1, <2>1, FS_Subset, FS_CardinalityType
<1>4. S \ Prefix(S, n) # {}
  BY <1>1, <1>2
<1>5. PICK m \in S \ Prefix(S, n) : \A q \in S \ Prefix(S, n) : m[1] <= q[1]
  <2>1. S \ Prefix(S, n) \in SUBSET Pair
    OBVIOUS
  <2> QED
    BY <1>4, <2>1, LeastPair, Zenon
<1>6. \A q \in S : q[1] \in Nat
  BY StoreAssumption, Zenon DEF Pair
<1>7. Before(S, m) \subseteq Prefix(S, n)
  BY <1>5, <1>6 DEF Before
<1>8. Cardinality(Before(S, m)) = n
  <2>1. Cardinality(Before(S, m)) <= n
    BY <1>2, <1>7, FS_Subset
  <2>2. ~(Cardinality(Before(S, m)) < n)
    BY <1>5 DEF Prefix
  <2> QED
    BY <1>3, <1>5, <2>1, <2>2
<1>9. ASSUME NEW p \in S \ Prefix(S, n), p # m
      PROVE  ~(Cardinality(Before(S, p)) < n + 1)
  <2>1. m[1] < p[1]
    BY <1>5, <1>6, <1>9, SMT DEF Distinct
  <2>2. Before(S, m) \cup {m} \subseteq Before(S, p)
    BY <1>5, <1>6, <2>1, SMT DEF Before
  <2>3. Cardinality(Before(S, m) \cup {m}) = n + 1
    <3>1. m \notin Before(S, m)
      BY <1>5, <1>6 DEF Before
    <3> QED
      BY <1>3, <1>5, <1>8, <3>1, FS_AddElement, Zenon
  <2>4. n + 1 <= Cardinality(Before(S, p))
    BY <1>3, <2>2, <2>3, FS_Subset, SMT
  <2> QED
    BY <1>3, <2>4
<1>10. Prefix(S, n + 1) = Prefix(S, n) \cup {m}
  <2>1. \A p \in S : Cardinality(Before(S, p)) < n => Cardinality(Before(S, p)) < n + 1
    BY <1>3
  <2> QED
    BY <1>5, <1>8, <1>9, <2>1, SMTT(20) DEF Prefix
<1> QED
  BY <1>2, <1>5, <1>10, FS_AddElement

\* sorted(S)[:n] has n elements if there are that many: by the least n for which
\* it had not.
LEMMA PrefixCount ==
  ASSUME NEW S \in SUBSET Pair, Distinct(S), NEW n \in Nat, n <= Cardinality(S)
  PROVE  Cardinality(Prefix(S, n)) = n
<1>0. IsFiniteSet(S) /\ Cardinality(S) \in Nat
  BY DistinctFinite, FS_CardinalityType
<1> DEFINE T == {i \in Nat : i <= Cardinality(S) /\ Cardinality(Prefix(S, i)) # i}
<1> SUFFICES ASSUME T # {}
             PROVE  FALSE
  OBVIOUS
<1>1. PICK x \in T : \A y \in T : x <= y
  <2>1. T \in SUBSET Nat
    OBVIOUS
  <2> QED
    BY <2>1, LeastNumber, Zenon
<1>2. x # 0
  <2>1. Prefix(S, 0) = {}
    <3>1. \A p \in S : Cardinality(Before(S, p)) \in Nat
      BY <1>0, FS_Subset, FS_CardinalityType DEF Before
    <3> QED
      BY <3>1 DEF Prefix
  <2> QED
    BY <1>1, <2>1, FS_EmptySet
<1>3. x - 1 \in Nat /\ x - 1 \notin T
  BY <1>1, <1>2
<1>4. x - 1 < Cardinality(S) /\ Cardinality(Prefix(S, x - 1)) = x - 1
  BY <1>0, <1>1, <1>3
<1>5. Cardinality(Prefix(S, (x - 1) + 1)) = (x - 1) + 1
  BY <1>3, <1>4, PrefixGrows
<1> QED
  BY <1>1, <1>3, <1>5, SMT

-----------------------------------------------------------------------------
(* What a wait has gathered *)

\* A wait that is under way has answered nothing; what it gathered has one value
\* per key, and a result has as many keys as were asked for.
CountInv(w) ==
  /\ Waiting(w) => answer[w] = {}
  /\ Distinct(matched[w])
  /\ pc[w] = "poll" => \A p \in matched[w] : p[1] \notin poll[w]
  /\ result[w] # {} => Distinct(result[w]) /\ Cardinality(result[w]) = Call(w).count

RefInv == GenuineInv /\ \A w \in Waiters : CountInv(w)

\* What a wait's test lets through holds one value, but for wait_for_key.
LEMMA HitsDistinct ==
  ASSUME NEW w \in Waiters, NEW S \in SUBSET Pair, Call(w).kind # "key",
         \A p \in S : Hits(w, p)
  PROVE  Distinct(S)
<1>1. ASSUME NEW p \in S, NEW q \in S, p[1] = q[1]
      PROVE  p = q
  <2>1. p[2] = q[2]
    BY <1>1 DEF Hits
  <2>2. p = <<p[1], p[2]>> /\ q = <<q[1], q[2]>>
    BY DEF Pair
  <2> QED
    BY <1>1, <2>1, <2>2
<1> QED
  BY <1>1 DEF Distinct

\* The contents of the store have one value per key.
LEMMA PairsDistinct ==
  ASSUME NEW d, NEW S \in SUBSET Pairs(d)
  PROVE  Distinct(S)
BY SMT DEF Pairs, Distinct

\* sorted(S)[:count] is an answer.
LEMMA CutOff ==
  ASSUME TypeOK, NEW w \in Waiters, NEW S \in SUBSET Pair, Distinct(S), Enough(w, S)
  PROVE  /\ Distinct(FirstOf(w, S))
         /\ Cardinality(FirstOf(w, S)) = Call(w).count
<1>1. Call(w).count \in Nat
  BY CallType DEF Wait
<1>2. Cardinality(S) \in Nat
  BY DistinctFinite, FS_CardinalityType
<1>3. FirstOf(w, S) = Prefix(S, Call(w).count)
  BY DEF FirstOf, Prefix, Before
<1>4. Cardinality(Prefix(S, Call(w).count)) = Call(w).count
  BY <1>1, <1>2, PrefixCount DEF Enough
<1>5. FirstOf(w, S) \subseteq S
  BY FirstOfSubset
<1> QED
  BY <1>3, <1>4, <1>5 DEF Distinct

\* Nothing is gathered at first.
LEMMA RefInit ==
  ASSUME Init
  PROVE  RefInv
BY GenuineInit DEF RefInv, Init, CountInv, Distinct, Waiting

\* A step that leaves a waiter alone keeps what it has gathered.
LEMMA CountUntouched ==
  ASSUME NEW x \in Waiters, CountInv(x), UNCHANGED scenario,
         pc'[x] = pc[x], matched'[x] = matched[x], result'[x] = result[x],
         poll'[x] = poll[x], answer'[x] = answer[x]
  PROVE  CountInv(x)'
BY DEF CountInv, Waiting, Call

\* The look at the store finds one value per key.
LEMMA CheckCounts ==
  ASSUME RefInv, NEW w \in Waiters, Check(w)
  PROVE  CountInv(w)'
<1> DEFINE found == {p \in Pairs(kv) : Hits(w, p)}
           all == IF Call(w).kind = "keys" THEN matched[w] \cup found ELSE found
<1>1. TypeOK /\ WaiterInv(w) /\ CountInv(w) /\ pc[w] = "check"
  BY DEF Check, RefInv, GenuineInv
<1>2. found \subseteq Pair
  BY <1>1, SMT DEF Pairs, Pair, TypeOK
<1>3. Distinct(all)
  <2>1. CASE Call(w).kind = "keys"
    <3>1. \A p \in all : Hits(w, p)
      BY <1>1 DEF WaiterInv, Good
    <3>2. all \subseteq Pair
      BY <1>1, <1>2 DEF TypeOK
    <3> HIDE DEF all
    <3> QED
      BY <2>1, <3>1, <3>2, HitsDistinct
  <2>2. CASE Call(w).kind # "keys"
    <3>1. all = found /\ found \subseteq Pairs(kv)
      BY <2>2
    <3> QED
      BY <3>1, PairsDistinct
  <2> QED
    BY <2>1, <2>2
<1> HIDE DEF all, found
<1>4. matched'[w] = all /\ UNCHANGED <<scenario, result>>
      /\ pc'[w] \in {"returned", "blocked"} /\ (pc'[w] = "blocked" => UNCHANGED answer)
  BY <1>1 DEF Check, End, Go, After, Steps, all, found, TypeOK
<1> QED
  BY <1>1, <1>3, <1>4 DEF CountInv, Waiting, Call

\* An event adds a key to what is gathered, or replaces it; a result is cut off.
LEMMA CallbackCounts ==
  ASSUME RefInv, NEW w \in Waiters, Callback(w)
  PROVE  CountInv(w)'
<1> DEFINE e == Head(events[w])
           all == IF Call(w).kind = "keys" THEN matched[w] \cup {e} ELSE {e}
<1>1. /\ TypeOK /\ WaiterInv(w) /\ CountInv(w)
      /\ watching[w] /\ events[w] # << >> /\ events[w] \in Seq(Pair)
  BY DEF Callback, RefInv, GenuineInv, TypeOK
<1>2. e \in Pair
  BY <1>1
<1>3. Hits(w, e) => Distinct(all)
  <2> SUFFICES ASSUME Hits(w, e)
               PROVE  Distinct(all)
    OBVIOUS
  <2>1. CASE Call(w).kind = "keys"
    <3>1. \A p \in all : Hits(w, p)
      BY <1>1 DEF WaiterInv, Good
    <3>2. all \subseteq Pair
      BY <1>1, <1>2 DEF TypeOK
    <3> HIDE DEF all
    <3> QED
      BY <2>1, <3>1, <3>2, HitsDistinct
  <2>2. CASE Call(w).kind # "keys"
    BY <2>2 DEF Distinct
  <2> QED
    BY <2>1, <2>2
<1>4. all \subseteq Pair
  BY <1>1, <1>2 DEF TypeOK
<1> HIDE DEF all, e
<1>5. /\ matched'[w] = IF Hits(w, e) THEN all ELSE matched[w]
      /\ result'[w] = IF Hits(w, e) /\ Enough(w, all) THEN FirstOf(w, all) ELSE result[w]
      /\ UNCHANGED <<scenario, pc, poll, answer>>
  BY <1>1 DEF Callback, all, e, TypeOK
<1>6. pc[w] # "poll"
  BY <1>1 DEF WaiterInv
<1>7. result'[w] # {} => Distinct(result'[w]) /\ Cardinality(result'[w]) = Call(w).count
  BY <1>1, <1>3, <1>4, <1>5, CutOff DEF CountInv
<1> QED
  BY <1>1, <1>3, <1>5, <1>6, <1>7 DEF CountInv, Waiting, Call

\* A polled key is not among the matched ones.
LEMMA PollCounts ==
  ASSUME RefInv, NEW w \in Waiters, NEW k \in Keys, PollKey(w, k)
  PROVE  CountInv(w)'
<1>1. TypeOK /\ CountInv(w)
  BY DEF RefInv, GenuineInv
<1> DEFINE p == <<k, kv[k]>>
<1>2. /\ matched'[w] = IF Hits(w, p) THEN matched[w] \cup {p} ELSE matched[w]
      /\ poll'[w] = poll[w] \ {k} /\ k \in poll[w] /\ pc[w] = "poll"
      /\ UNCHANGED <<scenario, pc, result, answer>>
  BY <1>1 DEF PollKey, TypeOK
<1>3. p[1] = k
  OBVIOUS
<1> HIDE DEF p
<1>4. Distinct(matched'[w]) /\ \A q \in matched'[w] : q[1] \notin poll'[w]
  BY <1>1, <1>2, <1>3, SMTT(20) DEF CountInv, Distinct
<1> QED
  BY <1>1, <1>2, <1>4 DEF CountInv, Waiting, Call

\* The remaining steps of a waiter gather nothing.
LEMMA OthersCount ==
  ASSUME RefInv, NEW w \in Waiters,
         Begin(w) \/ AddWatch(w) \/ Wake(w) \/ Timeout(w) \/ EndPass(w)
  PROVE  CountInv(w)'
<1>1. TypeOK /\ WaiterInv(w) /\ CountInv(w)
  BY DEF RefInv, GenuineInv
<1>2. CASE Begin(w)
  <2>1. /\ pc[w] = "idle" /\ UNCHANGED <<scenario, matched, result, answer>>
    BY <1>2 DEF Begin
  <2> QED
    BY <1>1, <2>1 DEF CountInv, WaiterInv, Call
<1>3. CASE AddWatch(w)
  <2>1. /\ pc[w] = "watch" /\ pc'[w] = "check"
        /\ UNCHANGED <<scenario, matched, result, poll, answer>>
    BY <1>1, <1>3 DEF AddWatch, Go, After, Steps, TypeOK
  <2> QED
    BY <1>1, <2>1 DEF CountInv, Waiting, Call
<1>4. CASE Wake(w) \/ Timeout(w) \/ (EndPass(w) /\ Enough(w, matched[w]))
  <2>1. pc'[w] \in {"returned", "timeout"} /\ UNCHANGED <<scenario, matched, result>>
    BY <1>1, <1>4 DEF Wake, Timeout, EndPass, End, Go, TypeOK
  <2> QED
    BY <1>1, <2>1 DEF CountInv, Waiting, Call
<1>5. CASE EndPass(w) /\ ~Enough(w, matched[w])
  <2>1. /\ UNCHANGED <<scenario, pc, matched, result, answer>>
        /\ poll'[w] = Call(w).keys \ {p[1] : p \in matched[w]}
    BY <1>1, <1>5 DEF EndPass, TypeOK
  <2>2. \A p \in matched[w] : p[1] \notin poll'[w]
    BY <2>1
  <2> QED
    BY <1>1, <2>1, <2>2 DEF CountInv, Waiting, Call
<1> QED
  BY <1>2, <1>3, <1>4, <1>5

\* The steps of one waiter leave what the others gathered alone.
LEMMA OneCounts ==
  ASSUME RefInv, NEW w \in Waiters, Begin(w) \/ Step(w) \/ Callback(w) \/ Timeout(w),
         NEW x \in Waiters \ {w}
  PROVE  /\ UNCHANGED scenario
         /\ pc'[x] = pc[x] /\ matched'[x] = matched[x] /\ result'[x] = result[x]
         /\ poll'[x] = poll[x] /\ answer'[x] = answer[x]
<1>1. TypeOK
  BY DEF RefInv, GenuineInv
<1>2. CASE Begin(w) \/ AddWatch(w) \/ Callback(w)
  BY <1>1, <1>2 DEF Begin, AddWatch, Callback, Go, TypeOK
<1>3. CASE Check(w)
  BY <1>1, <1>3, SMTT(20) DEF Check, End, Go, TypeOK
<1>4. CASE Wake(w) \/ Timeout(w) \/ EndPass(w)
  BY <1>1, <1>4, SMTT(20) DEF Wake, Timeout, EndPass, End, Go, TypeOK
<1>5. CASE \E k \in Keys : PollKey(w, k)
  BY <1>1, <1>5 DEF PollKey, TypeOK
<1> QED
  BY <1>2, <1>3, <1>4, <1>5 DEF Step

\* The server's steps leave all of it alone.
LEMMA ServerCounts ==
  ASSUME \/ \E k \in Keys : Delete(k) \/ \E v \in Values : Set(k, v)
         \/ Cleanup
  PROVE  UNCHANGED <<scenario, pc, watching, matched, result, poll, answer>>
BY Zenon DEF Delete, Set, Cleanup, Write

\* Every step keeps one value per key.
LEMMA RefStep ==
  ASSUME RefInv, [Next]_vars
  PROVE  RefInv'
<1>1. GenuineInv'
  BY GenuineStep DEF RefInv
<1>2. ASSUME NEW x \in Waiters
      PROVE  CountInv(x)'
  <2>0. CountInv(x)
    BY DEF RefInv
  <2>1. CASE \/ \E k \in Keys : Delete(k) \/ \E v \in Values : Set(k, v)
             \/ Cleanup
    BY <2>0, <2>1, ServerCounts, CountUntouched
  <2>2. ASSUME NEW w \in Waiters, Begin(w) \/ Step(w) \/ Callback(w) \/ Timeout(w)
        PROVE  CountInv(x)'
    <3>1. CASE x = w
      BY <2>2, <3>1, CheckCounts, CallbackCounts, PollCounts, OthersCount DEF Step
    <3>2. CASE x # w
      BY <2>0, <2>2, <3>2, OneCounts, CountUntouched
    <3> QED
      BY <3>1, <3>2
  <2>3. CASE UNCHANGED vars
    BY <2>0, <2>3, CountUntouched DEF vars, local
  <2> QED
    BY <2>1, <2>2, <2>3 DEF Next
<1> QED
  BY <1>1, <1>2 DEF RefInv

\* The two invariants hold throughout.
LEMMA RefAlways == Spec => []RefInv
<1>1. Init => RefInv
  BY RefInit
<1>2. RefInv /\ [Next]_vars => RefInv'
  BY RefStep
<1> QED
  BY <1>1, <1>2, PTL DEF Spec

-----------------------------------------------------------------------------
(* The refinement *)

Status == [w \in Waiters |-> IF Waiting(w) THEN "waiting" ELSE pc[w]]

\* A write is a change of the abstract store that everyone who waits may see.
LEMMA WriteRefines ==
  ASSUME RefInv, NEW ks \in Seq(Keys), NEW v \in Stored, Write(ks, v)
  PROVE  Promise!Change
<1>1. kv' \in [Keys -> Stored]
  BY DEF Write, RefInv, GenuineInv, TypeOK
<1>2. Data' \in [Keys -> Values \cup {Missing}]
  BY <1>1 DEF Data, Stored
<1>3. UNCHANGED <<scenario, pc, answer>>
  BY DEF Write
<1>4. Status' = Status
  BY <1>3 DEF Status, Waiting
<1>5. \A w \in Waiters : Status[w] = "waiting" <=> Waiting(w)
  BY DEF Status, Waiting
<1>6. Pairs(Data)' = Promise!Present(Data')
  BY DEF Pairs, Promise!Present
<1>7. seen' = [w \in Waiters |-> IF Status[w] = "waiting" THEN seen[w] \cup Promise!Present(Data')
                                                          ELSE seen[w]]
  BY <1>5, <1>6 DEF Write
<1> QED
  BY <1>2, <1>3, <1>4, <1>7 DEF Promise!Change, Status

\* Beginning to wait.
LEMMA BeginRefines ==
  ASSUME RefInv, NEW w \in Waiters, Begin(w)
  PROVE  Promise!Begin(w)
<1>1. /\ pc[w] = "idle" /\ pc' = [pc EXCEPT ![w] = IF Etcd THEN "watch" ELSE "poll"]
      /\ UNCHANGED <<scenario, kv, answer>> /\ seen' = [seen EXCEPT ![w] = Pairs(Data)]
  BY DEF Begin, Go, Steps
<1>2. pc \in [Waiters -> Places]
  BY DEF RefInv, GenuineInv, TypeOK
<1>3. Status[w] = "idle" /\ Status' = [Status EXCEPT ![w] = "waiting"]
  BY <1>1, <1>2, Zenon DEF Status, Waiting
<1>4. Data' = Data /\ Pairs(Data) = Promise!Present(Data)
  BY <1>1 DEF Data, Pairs, Promise!Present
<1> QED
  BY <1>1, <1>3, <1>4 DEF Promise!Begin, Status

\* What passed a wait's test was wanted.
LEMMA HitIsWanted ==
  ASSUME TypeOK, NEW w \in Waiters, NEW p, Hits(w, p)
  PROVE  Promise!Wanted(w, p)
<1>1. Call(w).kind = "key" <=> Call(w).value = AnyValue
  BY StoreAssumption DEF TypeOK, Call
<1> QED
  BY <1>1 DEF Hits, Promise!Wanted, Call

\* A wait that ends with good pairs, one per key and as many as were asked for,
\* returns in the abstract specification.
LEMMA EndRefines ==
  ASSUME RefInv, NEW w \in Waiters, Waiting(w), NEW S \in SUBSET Good(w), Distinct(S),
         Cardinality(S) = Call(w).count, End(w, "returned", S)
  PROVE  Promise!Return(w)
<1>1. /\ pc' = [pc EXCEPT ![w] = "returned"] /\ answer' = [answer EXCEPT ![w] = S]
      /\ UNCHANGED <<scenario, kv, seen>> /\ pc \in [Waiters -> Places] /\ TypeOK
  BY DEF End, Go, RefInv, GenuineInv, TypeOK
<1>2. Status[w] = "waiting" /\ Status' = [Status EXCEPT ![w] = "returned"]
  BY <1>1, Zenon DEF Status, Waiting
<1>3. Data' = Data
  BY <1>1 DEF Data
<1>4. S \in Promise!Answers(w)
  <2>1. Promise!Cardinality(S) = Cardinality(S)
    BY DEF Promise!Cardinality, Cardinality
  <2> QED
    BY <1>1, <2>1, HitIsWanted DEF Promise!Answers, Good, Distinct, Call
<1> QED
  BY <1>1, <1>2, <1>3, <1>4, Zenon DEF Promise!Return, Status

\* A wait that times out has answered nothing.
LEMMA TimeoutRefines ==
  ASSUME RefInv, NEW w \in Waiters, Timeout(w)
  PROVE  Promise!Expire(w)
<1>1. /\ pc[w] \in {"blocked", "poll"} /\ pc' = [pc EXCEPT ![w] = "timeout"]
      /\ answer' = [answer EXCEPT ![w] = {}] /\ UNCHANGED <<scenario, kv, seen>>
  BY DEF Timeout, End, Go
<1>2. TypeOK /\ CountInv(w)
  BY DEF RefInv, GenuineInv
<1>3. answer' = answer
  BY <1>1, <1>2 DEF CountInv, Waiting, TypeOK
<1>4. Status[w] = "waiting" /\ Status' = [Status EXCEPT ![w] = "timeout"]
  BY <1>1, <1>2, Zenon DEF Status, Waiting, TypeOK
<1>5. Data' = Data
  BY <1>1 DEF Data
<1> QED
  BY <1>1, <1>3, <1>4, <1>5 DEF Promise!Expire, Status

\* A look at the store returns an answer or is a stuttering step.
LEMMA CheckRefines ==
  ASSUME RefInv, NEW w \in Waiters, Check(w)
  PROVE  [Promise!Next]_(Promise!waitVars)
<1> DEFINE found == {p \in Pairs(kv) : Hits(w, p)}
           all == IF Call(w).kind = "keys" THEN matched[w] \cup found ELSE found
<1>1. TypeOK /\ WaiterInv(w) /\ pc[w] = "check"
  BY DEF Check, RefInv, GenuineInv
<1>2. GenuineInv' /\ CountInv(w)'
  BY GenuineStep, CheckCounts DEF RefInv, Next, Step
<1>3. matched'[w] = all /\ UNCHANGED <<scenario, kv, seen>>
  BY <1>1 DEF Check, End, TypeOK
<1> HIDE DEF all, found
<1>4. Good(w)' = Good(w)
  BY <1>3 DEF Good, Hits, Call, Etcd
<1>5. all \subseteq Good(w) /\ all \subseteq Pair /\ Distinct(all)
  BY <1>2, <1>3, <1>4 DEF GenuineInv, WaiterInv, CountInv, TypeOK
<1>6. CASE Enough(w, all)
  <2>1. End(w, "returned", FirstOf(w, all))
    BY <1>6 DEF Check, all, found
  <2>2. /\ FirstOf(w, all) \subseteq Good(w) /\ Distinct(FirstOf(w, all))
        /\ Cardinality(FirstOf(w, all)) = Call(w).count
    BY <1>1, <1>5, <1>6, CutOff, FirstOfSubset
  <2>3. Waiting(w)
    BY <1>1 DEF Waiting
  <2>4. Promise!Return(w)
    BY <2>1, <2>2, <2>3, EndRefines
  <2> QED
    BY <2>4 DEF Promise!Next
<1>7. CASE ~Enough(w, all)
  <2>1. pc' = [pc EXCEPT ![w] = "blocked"] /\ UNCHANGED answer
    BY <1>7 DEF Check, all, found, Go, After, Steps
  <2>2. Status' = Status
    BY <1>1, <2>1 DEF Status, Waiting, TypeOK
  <2>3. Data' = Data
    BY <1>3 DEF Data
  <2> QED
    BY <1>3, <2>1, <2>2, <2>3 DEF Promise!waitVars, Status
<1> QED
  BY <1>6, <1>7

\* The other two ways to return: a result of the callback, the end of a pass.
LEMMA FinishRefines ==
  ASSUME RefInv, NEW w \in Waiters, Wake(w) \/ EndPass(w)
  PROVE  [Promise!Next]_(Promise!waitVars)
<1>1. TypeOK /\ WaiterInv(w) /\ CountInv(w)
  BY DEF RefInv, GenuineInv
<1>2. Waiting(w)
  BY DEF Wake, EndPass, Waiting
<1>3. matched[w] \subseteq Pair
  BY <1>1 DEF TypeOK
<1>4. CASE Wake(w)
  <2>1. End(w, "returned", result[w]) /\ result[w] # {}
    BY <1>4 DEF Wake
  <2>2. Promise!Return(w)
    BY <1>1, <1>2, <2>1, EndRefines DEF WaiterInv, CountInv
  <2> QED
    BY <2>2 DEF Promise!Next
<1>5. CASE EndPass(w) /\ Enough(w, matched[w])
  <2>1. End(w, "returned", FirstOf(w, matched[w]))
    BY <1>5 DEF EndPass
  <2>2. /\ Distinct(FirstOf(w, matched[w])) /\ FirstOf(w, matched[w]) \subseteq Good(w)
        /\ Cardinality(FirstOf(w, matched[w])) = Call(w).count
    BY <1>1, <1>3, <1>5, CutOff, FirstOfSubset DEF WaiterInv, CountInv
  <2>3. Promise!Return(w)
    BY <1>2, <2>1, <2>2, EndRefines
  <2> QED
    BY <2>3 DEF Promise!Next
<1>6. CASE EndPass(w) /\ ~Enough(w, matched[w])
  <2>1. UNCHANGED <<scenario, kv, pc, seen, answer>>
    BY <1>6 DEF EndPass
  <2> QED
    BY <2>1 DEF Promise!waitVars, Data, Waiting
<1> QED
  BY <1>4, <1>5, <1>6

\* The server's steps are changes of the abstract store.
LEMMA ServerRefines ==
  ASSUME RefInv,
         \/ \E k \in Keys : Delete(k) \/ \E v \in Values : Set(k, v)
         \/ Cleanup
  PROVE  Promise!Change
<1>1. ASSUME NEW k \in Keys, NEW v \in Values, Set(k, v)
      PROVE  Promise!Change
  <2>1. <<k>> \in Seq(Keys) /\ v \in Stored
    BY DEF Stored
  <2> QED
    BY <1>1, <2>1, WriteRefines, Zenon DEF Set
<1>2. ASSUME NEW k \in Keys, Delete(k)
      PROVE  Promise!Change
  <2> DEFINE v == IF Etcd THEN Missing ELSE Empty
  <2>1. <<k>> \in Seq(Keys) /\ v \in Stored
    BY DEF Stored
  <2>2. Write(<<k>>, v)
    BY <1>2 DEF Delete
  <2> HIDE DEF v
  <2> QED
    BY <2>1, <2>2, WriteRefines, Zenon
<1>3. CASE Cleanup
  <2>1. PICK ks \in Seq(Keys) : Write(ks, Missing)
    BY <1>3, CleanupWrites
  <2>2. Missing \in Stored
    BY DEF Stored
  <2> QED
    BY <2>1, <2>2, WriteRefines
<1> QED
  BY <1>1, <1>2, <1>3

\* Every step is one of the abstract specification or stutters.
LEMMA StepRefines ==
  ASSUME RefInv, [Next]_vars
  PROVE  [Promise!Next]_(Promise!waitVars)
<1>1. CASE \/ \E k \in Keys : Delete(k) \/ \E v \in Values : Set(k, v)
           \/ Cleanup
  BY <1>1, ServerRefines DEF Promise!Next
<1>2. ASSUME NEW w \in Waiters, Begin(w)
      PROVE  Promise!Next
  BY <1>2, BeginRefines DEF Promise!Next
<1>3. ASSUME NEW w \in Waiters, Timeout(w)
      PROVE  Promise!Next
  BY <1>3, TimeoutRefines DEF Promise!Next
<1>4. ASSUME NEW w \in Waiters,
             AddWatch(w) \/ Callback(w) \/ \E k \in Keys : PollKey(w, k)
      PROVE  UNCHANGED Promise!waitVars
  <2>1. UNCHANGED <<scenario, kv, seen, answer>> /\ TypeOK
    BY <1>4, Zenon DEF AddWatch, Callback, PollKey, RefInv, GenuineInv
  <2>2. \A x \in Waiters : (Waiting(x)' <=> Waiting(x)) /\ (~Waiting(x) => pc'[x] = pc[x])
    BY <1>4, <2>1, Zenon DEF AddWatch, Callback, PollKey, Go, After, Steps, Waiting, TypeOK
  <2> QED
    BY <2>1, <2>2 DEF Promise!waitVars, Data
<1>5. CASE UNCHANGED vars
  BY <1>5 DEF vars, local, Promise!waitVars, Data, Waiting
<1> QED
  BY <1>1, <1>2, <1>3, <1>4, <1>5, CheckRefines, FinishRefines DEF Next, Step

\* Both stores implement KeyWait, for any keys, values, waits and number of writes:
\* what wait_for_key, wait_for_keys and wait_for_value return was waited for, was in
\* the store since the wait began, and is one entry per key and as many as were
\* asked for (EtcdStore._wait_with_watch, TorchTCPStore's polling loops).
THEOREM StoresKeepPromise == Spec => KeepsPromise
<1>1. Init => Promise!Init
  BY DEF Init, Promise!Init, Data, Waiting
<1>2. RefInv /\ [Next]_vars => [Promise!Next]_(Promise!waitVars)
  BY StepRefines
<1> QED
  BY <1>1, <1>2, RefAlways, PTL DEF Spec, KeepsPromise, Promise!Spec

-----------------------------------------------------------------------------
(* No wait sleeps through a write *)

Pending(w, p) == \E i \in 1..Len(events[w]) : events[w][i] = p

\* What a sleeping wait lacks, its events bring.
AwakeInv(w) ==
  /\ pc[w] \in {"check", "blocked"} => watching[w]
  /\ pc[w] = "blocked" /\ result[w] = {} =>
       /\ \A p \in Satisfied(w) : p \in matched[w] \/ Pending(w, p)
       /\ ~Enough(w, matched[w])

NewsInv == RefInv /\ \A w \in Waiters : AwakeInv(w)

\* A write is news for every watch.
LEMMA WriteNews ==
  ASSUME NewsInv, NEW ks \in Seq(Keys), NEW v \in Stored, Write(ks, v), NEW w \in Waiters
  PROVE  AwakeInv(w)'
<1> DEFINE sent == IF v = Missing THEN Empty ELSE v
           news == [i \in 1..Len(ks) |-> <<ks[i], sent>>]
<1>1. /\ UNCHANGED <<scenario, pc, watching, matched, result>>
      /\ AwakeInv(w) /\ TypeOK
  BY Zenon DEF Write, NewsInv, RefInv, GenuineInv
<1>2. ASSUME pc[w] = "blocked", result[w] = {}, NEW p \in Satisfied(w)'
      PROVE  p \in matched[w] \/ Pending(w, p)'
  <2>1. PICK k \in Keys : p = <<k, Data'[k]>> /\ Data'[k] # Missing
    BY DEF Satisfied, Pairs
  <2>2. kv'[k] = Data'[k] /\ kv'[k] # Missing /\ kv'[k] # Empty
    BY <2>1 DEF Data
  <2>3. Hits(w, p)
    BY <1>1 DEF Satisfied, Hits, Call, Etcd
  <2>4. events[w] \in Seq(Pair) /\ events'[w] = events[w] \o news
    BY <1>1, <1>2 DEF Write, AwakeInv, TypeOK
  <2>5. news \in Seq(Pair) /\ Len(news) = Len(ks)
    <3>1. sent \in Stored
      BY DEF Stored
    <3> QED
      BY <3>1 DEF Pair
  <2>6. CASE \E i \in 1..Len(ks) : ks[i] = k
    <3>1. PICK j \in 1..Len(ks) : ks[j] = k
      BY <2>6
    <3>2. kv'[k] = v
      BY <2>6 DEF Write
    <3>3. news[j] = p
      BY <2>1, <2>2, <3>1, <3>2
    <3> HIDE DEF news
    <3>4. Len(events[w]) + j \in 1..Len(events'[w]) /\ events'[w][Len(events[w]) + j] = news[j]
      <4>1. Len(events[w]) \in Nat /\ j \in 1..Len(news) /\ Len(news) \in Nat
        BY <2>4, <2>5, <3>1, LenProperties
      <4>2. Len(events'[w]) = Len(events[w]) + Len(news)
        BY <2>4, <2>5, ConcatProperties, Zenon
      <4>3. \A i \in 1..(Len(events[w]) + Len(news)) :
              (events[w] \o news)[i] = IF i <= Len(events[w]) THEN events[w][i]
                                                              ELSE news[i - Len(events[w])]
        BY <2>4, <2>5, ConcatProperties, SMTT(20)
      <4>4. Len(events[w]) + j \in 1..(Len(events[w]) + Len(news)) /\ ~(Len(events[w]) + j <= Len(events[w]))
            /\ (Len(events[w]) + j) - Len(events[w]) = j
        BY <4>1
      <4> QED
        BY <2>4, <4>2, <4>3, <4>4
    <3> QED
      BY <3>3, <3>4 DEF Pending
  <2>7. CASE ~\E i \in 1..Len(ks) : ks[i] = k
    <3>1. kv'[k] = kv[k]
      BY <2>7 DEF Write
    <3>2. Data[k] = Data'[k]
      BY <2>2, <3>1 DEF Data
    <3>3. p \in Satisfied(w)
      BY <2>1, <2>3, <3>2 DEF Satisfied, Pairs
    <3>4. CASE Pending(w, p)
      <4>1. PICK i \in 1..Len(events[w]) : events[w][i] = p
        BY <3>4 DEF Pending
      <4> HIDE DEF news
      <4>2. i \in 1..Len(events'[w]) /\ events'[w][i] = p
        BY <2>4, <2>5, <4>1
      <4> QED
        BY <4>2 DEF Pending
    <3> QED
      BY <1>1, <1>2, <3>3, <3>4 DEF AwakeInv
  <2> QED
    BY <2>6, <2>7
<1> QED
  BY <1>1, <1>2 DEF AwakeInv, Enough, Call

\* After the look at the store, whatever is there has been matched.
LEMMA CheckNews ==
  ASSUME NewsInv, NEW w \in Waiters, Check(w)
  PROVE  AwakeInv(w)'
<1> DEFINE found == {p \in Pairs(kv) : Hits(w, p)}
           all == IF Call(w).kind = "keys" THEN matched[w] \cup found ELSE found
<1>1. TypeOK /\ WaiterInv(w) /\ AwakeInv(w) /\ pc[w] = "check" /\ Etcd /\ watching[w]
  BY Zenon DEF Check, NewsInv, RefInv, GenuineInv, WaiterInv, AwakeInv
<1>2. matched'[w] = all /\ UNCHANGED <<scenario, kv>>
  BY <1>1 DEF Check, End, TypeOK
<1>3. Satisfied(w)' \subseteq all
  <2>1. Data' = kv
    BY <1>1, <1>2, Zenon DEF Data, TypeOK
  <2>2. \A p : Hits(w, p)' <=> Hits(w, p)
    BY <1>2 DEF Hits, Call, Etcd
  <2> QED
    BY <2>1, <2>2 DEF Satisfied
<1> HIDE DEF all, found
<1>4. CASE Enough(w, all)
  <2>1. pc'[w] = "returned"
    BY <1>1, <1>4 DEF Check, End, Go, all, found, TypeOK
  <2> QED
    BY <2>1 DEF AwakeInv
<1>5. CASE ~Enough(w, all)
  <2>1. UNCHANGED watching
    BY <1>5 DEF Check, all, found
  <2>2. ~Enough(w, matched[w])'
    BY <1>2, <1>5 DEF Enough, Call
  <2> QED
    BY <1>1, <1>2, <1>3, <2>1, <2>2, Zenon DEF AwakeInv
<1> QED
  BY <1>4, <1>5

\* An event that the callback takes off the watch is matched, or not what it waits
\* for; enough of them are a result.
LEMMA CallbackNews ==
  ASSUME NewsInv, NEW w \in Waiters, Callback(w)
  PROVE  AwakeInv(w)'
<1> DEFINE e == Head(events[w])
           all == IF Call(w).kind = "keys" THEN matched[w] \cup {e} ELSE {e}
<1>1. /\ TypeOK /\ WaiterInv(w) /\ CountInv(w) /\ AwakeInv(w)
      /\ events[w] # << >> /\ events[w] \in Seq(Pair)
  BY DEF Callback, NewsInv, RefInv, GenuineInv, TypeOK
<1>2. RefInv'
  BY RefStep DEF NewsInv, Next
<1>3. /\ events'[w] = Tail(events[w])
      /\ matched'[w] = IF Hits(w, e) THEN all ELSE matched[w]
      /\ result'[w] = IF Hits(w, e) /\ Enough(w, all) THEN FirstOf(w, all) ELSE result[w]
      /\ UNCHANGED <<scenario, kv, pc, watching>>
  BY <1>1 DEF Callback, TypeOK
<1>4. Call(w).count \in Nat \ {0} /\ (Call(w).kind # "keys" => Call(w).count = 1)
  BY <1>1, CallType, StoreAssumption DEF Wait, TypeOK, Call
<1>5. Call(w).kind # "keys" => Enough(w, all)
  <2>1. Call(w).kind # "keys" => all = {e} /\ Cardinality(all) = 1
    BY FS_Singleton, Zenon
  <2> HIDE DEF all
  <2> QED
    BY <1>4, <2>1 DEF Enough
<1>6. Hits(w, e) /\ Enough(w, all) => result'[w] # {}
  <2> SUFFICES ASSUME Hits(w, e), Enough(w, all)
               PROVE  result'[w] # {}
    OBVIOUS
  <2>1. matched'[w] = all /\ result'[w] = FirstOf(w, all)
    BY <1>3
  <2>2. all \in SUBSET Pair /\ Distinct(all)
    BY <1>2, <2>1, Zenon DEF RefInv, GenuineInv, TypeOK, CountInv
  <2> HIDE DEF all
  <2>3. Cardinality(FirstOf(w, all)) = Call(w).count
    BY <1>1, <2>2, CutOff
  <2> QED
    BY <1>4, <2>1, <2>3, FS_EmptySet
<1>7. Satisfied(w)' = Satisfied(w) /\ \A p \in Satisfied(w) : Hits(w, p)
  BY <1>3 DEF Satisfied, Pairs, Data, Hits, Call, Etcd
<1>8. ASSUME pc[w] = "blocked", result'[w] = {}, NEW p \in Satisfied(w)
      PROVE  p \in matched'[w] \/ Pending(w, p)'
  <2>1. p \in matched[w] \/ Pending(w, p)
    BY <1>1, <1>3, <1>6, <1>8, Zenon DEF AwakeInv
  <2>2. CASE p \in matched[w]
    BY <1>3, <1>5, <1>6, <1>8, <2>2, Zenon
  <2>3. CASE Pending(w, p)
    <3>1. PICK i \in 1..Len(events[w]) : events[w][i] = p
      BY <2>3 DEF Pending
    <3>2. CASE i = 1
      <4>1. e = p
        BY <1>1, <3>1, <3>2
      <4> QED
        BY <1>3, <1>7, <4>1
    <3>3. CASE i # 1
      <4>1. i - 1 \in 1..Len(events'[w]) /\ events'[w][i - 1] = p
        BY <1>1, <1>3, <3>1, <3>3
      <4> QED
        BY <4>1 DEF Pending
    <3> QED
      BY <3>2, <3>3
  <2> QED
    BY <2>1, <2>2, <2>3
<1>9. pc[w] = "blocked" /\ result'[w] = {} => ~Enough(w, matched'[w])
  BY <1>1, <1>3, <1>6, Zenon DEF AwakeInv
<1> QED
  BY <1>1, <1>3, <1>7, <1>8, <1>9, Zenon DEF AwakeInv, Enough, Call

\* The remaining steps put nobody to sleep.
LEMMA OthersNews ==
  ASSUME NewsInv, NEW w \in Waiters,
         \/ Begin(w) \/ AddWatch(w) \/ Wake(w) \/ Timeout(w) \/ EndPass(w)
         \/ \E k \in Keys : PollKey(w, k)
  PROVE  AwakeInv(w)'
<1>1. TypeOK
  BY DEF NewsInv, RefInv, GenuineInv
<1>2. CASE Begin(w)
  <2>1. pc'[w] \notin {"check", "blocked"}
    BY <1>1, <1>2, Zenon DEF Begin, Go, Steps, TypeOK
  <2> QED
    BY <2>1 DEF AwakeInv
<1>3. CASE AddWatch(w)
  <2>1. pc'[w] = "check" /\ watching'[w]
    BY <1>1, <1>3 DEF AddWatch, Go, After, Steps, TypeOK
  <2> QED
    BY <2>1 DEF AwakeInv
<1>4. CASE Wake(w) \/ Timeout(w) \/ EndPass(w) \/ \E k \in Keys : PollKey(w, k)
  <2>1. pc'[w] \notin {"check", "blocked"}
    BY <1>1, <1>4, Zenon DEF Wake, Timeout, EndPass, PollKey, End, Go, TypeOK
  <2> QED
    BY <2>1 DEF AwakeInv
<1> QED
  BY <1>2, <1>3, <1>4

\* A step that leaves a waiter and the server alone wakes nobody and puts nobody to sleep.
LEMMA NewsUntouched ==
  ASSUME NEW x \in Waiters, AwakeInv(x), UNCHANGED <<scenario, kv>>,
         pc'[x] = pc[x], events'[x] = events[x], watching'[x] = watching[x],
         matched'[x] = matched[x], result'[x] = result[x]
  PROVE  AwakeInv(x)'
<1>1. Satisfied(x)' = Satisfied(x)
  BY Zenon DEF Satisfied, Pairs, Data, Hits, Call, Etcd
<1>2. (\A p : Pending(x, p)' <=> Pending(x, p)) /\ (Enough(x, matched[x])' <=> Enough(x, matched[x]))
  BY Zenon DEF Pending, Enough, Call
<1> QED
  BY <1>1, <1>2, Zenon DEF AwakeInv

\* The steps of one waiter leave the watches of the others alone.
LEMMA OneSleeps ==
  ASSUME NewsInv, NEW w \in Waiters, Begin(w) \/ Step(w) \/ Callback(w) \/ Timeout(w),
         NEW x \in Waiters \ {w}
  PROVE  UNCHANGED <<scenario, kv>> /\ events'[x] = events[x] /\ watching'[x] = watching[x]
<1>1. TypeOK
  BY DEF NewsInv, RefInv, GenuineInv
<1>2. CASE Begin(w) \/ AddWatch(w) \/ Callback(w)
  BY <1>1, <1>2, Zenon DEF Begin, AddWatch, Callback, TypeOK
<1>3. CASE Check(w)
  BY <1>1, <1>3 DEF Check, End, TypeOK
<1>4. CASE Wake(w) \/ Timeout(w) \/ EndPass(w)
  BY <1>1, <1>4, Zenon DEF Wake, Timeout, EndPass, End, TypeOK
<1>5. CASE \E k \in Keys : PollKey(w, k)
  BY <1>5, Zenon DEF PollKey
<1> QED
  BY <1>2, <1>3, <1>4, <1>5, Zenon DEF Step

\* The server's steps are news.
LEMMA ServerNews ==
  ASSUME NewsInv, NEW w \in Waiters,
         \/ \E k \in Keys : Delete(k) \/ \E v \in Values : Set(k, v)
         \/ Cleanup
  PROVE  AwakeInv(w)'
<1>1. ASSUME NEW k \in Keys, NEW v \in Values, Set(k, v)
      PROVE  AwakeInv(w)'
  <2>1. <<k>> \in Seq(Keys) /\ v \in Stored
    BY DEF Stored
  <2> QED
    BY <1>1, <2>1, WriteNews, Zenon DEF Set
<1>2. ASSUME NEW k \in Keys, Delete(k)
      PROVE  AwakeInv(w)'
  <2> DEFINE v == IF Etcd THEN Missing ELSE Empty
  <2>1. <<k>> \in Seq(Keys) /\ v \in Stored
    BY DEF Stored
  <2>2. Write(<<k>>, v)
    BY <1>2 DEF Delete
  <2> HIDE DEF v
  <2> QED
    BY <2>1, <2>2, WriteNews, Zenon
<1>3. CASE Cleanup
  <2>1. PICK ks \in Seq(Keys) : Write(ks, Missing)
    BY <1>3, CleanupWrites
  <2>2. Missing \in Stored
    BY DEF Stored
  <2> QED
    BY <2>1, <2>2, WriteNews
<1> QED
  BY <1>1, <1>2, <1>3

\* Every step keeps the events a sleeping wait needs.
LEMMA NewsStep ==
  ASSUME NewsInv, [Next]_vars
  PROVE  NewsInv'
<1>1. RefInv'
  BY RefStep DEF NewsInv
<1>2. ASSUME NEW x \in Waiters
      PROVE  AwakeInv(x)'
  <2>0. AwakeInv(x) /\ RefInv
    BY DEF NewsInv
  <2>1. CASE \/ \E k \in Keys : Delete(k) \/ \E v \in Values : Set(k, v)
             \/ Cleanup
    BY <2>1, ServerNews
  <2>2. ASSUME NEW w \in Waiters, Begin(w) \/ Step(w) \/ Callback(w) \/ Timeout(w)
        PROVE  AwakeInv(x)'
    <3>1. CASE x = w
      BY <2>2, <3>1, CheckNews, CallbackNews, OthersNews DEF Step
    <3>2. CASE x # w
      BY <2>0, <2>2, <3>2, OneCounts, OneSleeps, NewsUntouched, SMTT(20)
    <3> QED
      BY <3>1, <3>2
  <2>3. CASE UNCHANGED vars
    BY <2>0, <2>3, NewsUntouched DEF vars, local
  <2> QED
    BY <2>1, <2>2, <2>3 DEF Next
<1> QED
  BY <1>1, <1>2 DEF NewsInv

\* A wait of an EtcdStore never sleeps on a condition that holds with no event
\* under way and no result to look at, whatever is written, deleted or cleaned up
\* while it sets its watch up, looks at the store and goes to sleep
\* (_wait_with_watch).
THEOREM NoSleepingThrough == Spec => []NewsPending
<1>1. Init => NewsInv
  BY RefInit DEF NewsInv, AwakeInv, Init
<1>2. NewsInv /\ [Next]_vars => NewsInv'
  BY NewsStep
<1>3. NewsInv => NewsPending
  <2> SUFFICES ASSUME NewsInv, NEW w \in Waiters, pc[w] = "blocked", Enough(w, Satisfied(w)),
                      events[w] = << >>, result[w] = {}
               PROVE  FALSE
    BY DEF NewsPending
  <2>1. TypeOK /\ CountInv(w) /\ AwakeInv(w)
    BY DEF NewsInv, RefInv, GenuineInv
  <2>2. Satisfied(w) \subseteq matched[w] /\ ~Enough(w, matched[w])
    BY <2>1, SMT DEF AwakeInv, Pending
  <2>3. IsFiniteSet(matched[w])
    BY <2>1, DistinctFinite DEF CountInv, TypeOK
  <2>4. /\ Cardinality(Satisfied(w)) <= Cardinality(matched[w])
        /\ Cardinality(Satisfied(w)) \in Nat /\ Cardinality(matched[w]) \in Nat
    BY <2>2, <2>3, FS_Subset, FS_CardinalityType
  <2>5. Call(w).count \in Nat
    BY <2>1, CallType DEF Wait
  <2> QED
    BY <2>2, <2>4, <2>5 DEF Enough
<1> QED
  BY <1>1, <1>2, <1>3, PTL DEF Spec
=============================================================================
