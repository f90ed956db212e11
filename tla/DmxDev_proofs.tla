-------------------------- MODULE DmxDev_proofs ---------------------------
(*************************************************************************)
(* What the properties of DmxDev claim for every number of filters,      *)
(* feeds and section filters, for all PIDs and for every interleaving of *)
(* ioctls, callbacks and timers.                                         *)
(*                                                                       *)
(* The inductive invariant IInv says what Good says of the state between *)
(* two ioctls. In the middle of an ioctl it does not hold:               *)
(* dvb_dmxdev_feed_stop halts a feed that other filters are using, and   *)
(* only dvb_dmxdev_feed_restart makes up for it. So Good(s, h) is about  *)
(* any state s that a function of the ioctl passes on, and h is the      *)
(* section feed that is halted in it, or NULL. For each function there   *)
(* are two lemmas: one says what it returns, the other how it takes      *)
(* Good(s, h) to Good(t, h') for its result t. The actions are           *)
(* compositions of the functions, and so are their proofs.               *)
(*                                                                       *)
(* Nothing is claimed after a TS feed was refused or a timeout handler   *)
(* that came late has marked a stopped filter (Sound); README.md tells   *)
(* what goes wrong then.                                                 *)
(*************************************************************************)
EXTENDS DmxDev, TLAPS, FiniteSetTheorems, WellFoundedInduction

---------------------------------------------------------------------------
(* The state as a record of records                                      *)

(* The state as a record of records.                                       *)
Flag == BOOLEAN
States == FREE .. TIMEDOUT
Entry == [pid : Pids, ts : Feeds \cup {NULL}]
Lists == {l \in Seq(Entry) : Len(l) <= MaxPids}
FilterRec == [state : States, type : {"none", "sec", "pes"}, pid : Pids \cup {NoPid}, oneshot : Flag,
              timeout : Flag, multi : Flag, sec : Feeds \cup {NULL}, secfilter : DmxFilters \cup {NULL},
              ts : Lists]
FeedRec == [state : {"free", "allocated", "ready", "go"}, type : {"none", "sec", "ts"}, pid : Pids \cup {NoPid},
            priv : Filters \cup {NULL}, filters : SUBSET DmxFilters]
DmxRec == [free : Flag, feed : Feeds \cup {NULL}, priv : Filters \cup {NULL}]
TimerRec == [pending : Flag, running : Flag]
AdapterRec == [feeds : Int, dma : Flag]
Sys == [filter : [Filters -> FilterRec], feed : [Feeds -> FeedRec], dmxfilter : [DmxFilters -> DmxRec],
        timer : [Filters -> TimerRec], error : [Filters -> Flag],
        adapter : AdapterRec, refused : Flag, oops : Flag]

(* What the constants stand for.                                           *)
LEMMA FlagIs == TRUE \in Flag /\ FALSE \in Flag
BY DEF Flag

(* The states of a filter and their order.                               *)
LEMMA StateIs ==
    /\ {FREE, ALLOCATED, SET, GO, DONE, TIMEDOUT} = States
    /\ \A x \in States : (x >= GO <=> x \in {GO, DONE, TIMEDOUT}) /\ (x < GO <=> x \notin {GO, DONE, TIMEDOUT})
                        /\ (x < SET <=> x \in {FREE, ALLOCATED}) /\ (x >= SET <=> x \notin {FREE, ALLOCATED})
    /\ SET \notin {GO, DONE, TIMEDOUT} /\ ALLOCATED \notin {GO, DONE, TIMEDOUT} /\ FREE \notin {GO, DONE, TIMEDOUT}
    /\ SET \notin {FREE, ALLOCATED}
BY DEF States, FREE, ALLOCATED, SET, GO, DONE, TIMEDOUT

(* The three pools are finite sets of numbers, and NULL is in none.      *)
LEMMA PoolsAre ==
    /\ NULL \notin Feeds /\ NULL \notin DmxFilters /\ NULL \notin Filters
    /\ Feeds \in SUBSET Nat /\ DmxFilters \in SUBSET Nat /\ Filters \in SUBSET Nat
    /\ IsFiniteSet(Feeds) /\ IsFiniteSet(DmxFilters)
    /\ Cardinality(Feeds) = FeedNum /\ FeedNum \in Nat
BY PoolsAssumption, FS_Interval DEF Feeds, DmxFilters, Filters, NULL

(* Every set of natural numbers that is not empty has a lowest member.     *)
LEMMA LowestIs ==
    ASSUME NEW S \in SUBSET Nat, S # {}
    PROVE  Lowest(S) \in S /\ \A y \in S : Lowest(S) <= y
<1>1. PICK x \in S : \A y \in S : ~(<<y, x>> \in OpToRel(<, Nat))
  BY WFMin, NatLessThanWellFounded
<1>2. \A y \in S : x <= y
  <2> SUFFICES ASSUME NEW y \in S PROVE x <= y
    OBVIOUS
  <2>1. <<y, x>> \in Nat \X Nat /\ <<y, x>>[1] = y /\ <<y, x>>[2] = x
    OBVIOUS
  <2>2. y < x => <<y, x>> \in OpToRel(<, Nat)
    BY <2>1 DEF OpToRel
  <2>3. ~(y < x)
    BY <2>2, <1>1, Zenon
  <2> QED
    BY <2>3
<1> QED
  BY <1>2, Zenon DEF Lowest

Sorts(a, S) ==
    /\ a \in [1 .. Cardinality(S) -> S]
    /\ S = {a[k] : k \in DOMAIN a}
    /\ \A k, l \in DOMAIN a : k < l => a[k] < a[l]

(* A finite set of numbers can be put in order, by induction on its size.  *)
LEMMA SortExists ==
    ASSUME NEW S \in SUBSET Nat, IsFiniteSet(S)
    PROVE  \E a : Sorts(a, S)
<1> DEFINE Sortable(n) == \A T \in SUBSET Nat :
                            IsFiniteSet(T) /\ Cardinality(T) = n => \E a : Sorts(a, T)
           Bad == {n \in Nat : ~Sortable(n)}
<1>1. ASSUME Bad # {} PROVE FALSE
  <2> DEFINE n == Lowest(Bad)
  <2>1. n \in Bad /\ \A m \in Bad : n <= m
    BY <1>1, LowestIs
  <2>2. n \in Nat /\ ~Sortable(n)
    BY <2>1
  <2>3. PICK T \in SUBSET Nat : IsFiniteSet(T) /\ Cardinality(T) = n /\ ~\E a : Sorts(a, T)
    BY <2>2
  <2> HIDE DEF n
  <2>4. CASE T = {}
    <3>1. n = 0
      BY <2>3, <2>4, FS_EmptySet
    <3>2. 1 .. n = {}
      BY <3>1
    <3> DEFINE e == [k \in 1 .. n |-> k]
    <3>3. Sorts(e, T)
      BY <2>3, <2>4, <3>2 DEF Sorts
    <3> QED
      BY <3>3, <2>3
  <2>5. CASE T # {}
    <3> DEFINE x == Lowest(T)
               U == T \ {x}
    <3>1. x \in T /\ x \in Nat /\ \A y \in T : x <= y
      BY <2>5, LowestIs
    <3> HIDE DEF x
    <3>2. U \in SUBSET Nat /\ IsFiniteSet(U) /\ Cardinality(U) = n - 1 /\ n - 1 \in Nat
      <4>1. IsFiniteSet(U) /\ Cardinality(U) = n - 1
        BY <2>3, <3>1, FS_RemoveElement
      <4>2. Cardinality(U) \in Nat
        BY <4>1, FS_CardinalityType
      <4> QED
        BY <4>1, <4>2
    <3>3. Sortable(n - 1)
      <4>1. n - 1 \notin Bad
        <5> HIDE DEF Bad
        <5> QED BY <2>1, <2>2, <3>2
      <4> HIDE DEF Sortable
      <4> QED
        BY <4>1, <3>2
    <3>4. PICK b : Sorts(b, U)
      BY <3>2, <3>3
    <3> DEFINE c == [k \in 1 .. n |-> IF k = 1 THEN x ELSE b[k - 1]]
    <3>5. /\ b \in [1 .. n - 1 -> U] /\ U = {b[k] : k \in 1 .. n - 1}
          /\ \A k, l \in 1 .. n - 1 : k < l => b[k] < b[l]
      BY <3>2, <3>4 DEF Sorts
    <3>6. c \in [1 .. n -> T]
      BY <3>1, <3>2, <3>5, <2>2
    <3>7. T = {c[k] : k \in 1 .. n}
      <4>1. \A y \in T : \E k \in 1 .. n : c[k] = y
        <5> SUFFICES ASSUME NEW y \in T PROVE \E k \in 1 .. n : c[k] = y
          OBVIOUS
        <5>1. CASE y = x
          <6>1. 1 \in 1 .. n /\ c[1] = x
            BY <3>2, <2>2
          <6> QED
            BY <6>1, <5>1
        <5>2. CASE y # x
          <6>1. PICK k \in 1 .. n - 1 : b[k] = y
            BY <5>2, <3>5
          <6>2. k + 1 \in 1 .. n /\ c[k + 1] = y
            BY <6>1, <2>2
          <6> QED
            BY <6>2
        <5> QED
          BY <5>1, <5>2
      <4> QED
        BY <4>1, <3>6, ZenonT(30)
    <3>8. ASSUME NEW k \in 1 .. n, NEW l \in 1 .. n, k < l PROVE c[k] < c[l]
      <4>1. l # 1 /\ l - 1 \in 1 .. n - 1 /\ c[l] = b[l - 1]
        BY <3>8, <2>2
      <4>2. b[l - 1] \in T /\ b[l - 1] # x /\ b[l - 1] \in Nat
        BY <4>1, <3>5
      <4>3. CASE k = 1
        BY <4>1, <4>2, <4>3, <3>1
      <4>4. CASE k # 1
        <5>1. k - 1 \in 1 .. n - 1 /\ c[k] = b[k - 1] /\ k - 1 < l - 1
          BY <4>4, <3>8, <2>2
        <5> QED
          BY <5>1, <4>1, <3>5
      <4> QED
        BY <4>3, <4>4
    <3>9. Sorts(c, T)
      <4>1. DOMAIN c = 1 .. n
        OBVIOUS
      <4> HIDE DEF c
      <4> QED
        BY <3>6, <3>7, <3>8, <4>1, <2>3 DEF Sorts
    <3> QED
      BY <3>9, <2>3
  <2> QED
    BY <2>4, <2>5
<1>2. Cardinality(S) \in Nat /\ Cardinality(S) \notin Bad
  BY <1>1, FS_CardinalityType
<1>3. Sortable(Cardinality(S))
  <2> HIDE DEF Sortable
  <2> QED
    BY <1>2
<1> QED
  BY <1>3

(* Ascending puts it in order.                                             *)
LEMMA AscendingIs ==
    ASSUME NEW S \in SUBSET Nat, IsFiniteSet(S)
    PROVE  /\ Ascending(S) \in [1 .. Cardinality(S) -> S]
           /\ \A x \in S : \E k \in 1 .. Cardinality(S) : Ascending(S)[k] = x
           /\ \A k, l \in 1 .. Cardinality(S) : Ascending(S)[k] = Ascending(S)[l] => k = l
<1>1. Sorts(Ascending(S), S)
  <2> DEFINE A(a) == S = {a[k] : k \in DOMAIN a} /\ \A k, l \in DOMAIN a : k < l => a[k] < a[l]
             B == CHOOSE a \in [1 .. Cardinality(S) -> S] : A(a)
  <2>1. \E a \in [1 .. Cardinality(S) -> S] : A(a)
    BY SortExists, Zenon DEF Sorts
  <2>2. B \in [1 .. Cardinality(S) -> S] /\ A(B)
    <3> HIDE DEF A
    <3> QED
      BY <2>1, Zenon
  <2> QED
    BY <2>2, Zenon DEF Sorts, Ascending
<1>2. DOMAIN Ascending(S) = 1 .. Cardinality(S)
  BY <1>1 DEF Sorts
<1>3. ASSUME NEW k \in 1 .. Cardinality(S), NEW l \in 1 .. Cardinality(S),
             Ascending(S)[k] = Ascending(S)[l]
      PROVE  k = l
  <2>1. Ascending(S)[k] \in Nat /\ Ascending(S)[l] \in Nat
    BY <1>1 DEF Sorts
  <2>2. k < l => Ascending(S)[k] < Ascending(S)[l]
    BY <1>1, <1>2 DEF Sorts
  <2>3. l < k => Ascending(S)[l] < Ascending(S)[k]
    BY <1>1, <1>2 DEF Sorts
  <2>4. k \in Int /\ l \in Int
    OBVIOUS
  <2> QED
    BY <2>1, <2>2, <2>3, <2>4, <1>3
<1> QED
  BY <1>1, <1>2, <1>3 DEF Sorts

(* One part of the state is exchanged.                                     *)
LEMMA SysWith ==
    ASSUME NEW s \in Sys
    PROVE  /\ \A v \in [Filters -> FilterRec] : [s EXCEPT !.filter = v] \in Sys
           /\ \A v \in [Feeds -> FeedRec] : [s EXCEPT !.feed = v] \in Sys
           /\ \A v \in [DmxFilters -> DmxRec] : [s EXCEPT !.dmxfilter = v] \in Sys
           /\ \A v \in [Filters -> TimerRec] : [s EXCEPT !.timer = v] \in Sys
           /\ \A v \in [Filters -> Flag] : [s EXCEPT !.error = v] \in Sys
           /\ \A v \in AdapterRec : [s EXCEPT !.adapter = v] \in Sys
           /\ \A v \in Flag : [s EXCEPT !.refused = v] \in Sys /\ [s EXCEPT !.oops = v] \in Sys
BY DEF Sys

(* The parts of the state have their types.                              *)
LEMMA SysParts ==
    ASSUME NEW s \in Sys
    PROVE  /\ s.filter \in [Filters -> FilterRec] /\ s.feed \in [Feeds -> FeedRec]
           /\ s.dmxfilter \in [DmxFilters -> DmxRec] /\ s.timer \in [Filters -> TimerRec]
           /\ s.error \in [Filters -> Flag] /\ s.adapter \in AdapterRec
           /\ s.refused \in Flag /\ s.oops \in Flag
BY DEF Sys

(* A filter with one field exchanged is a filter.                        *)
LEMMA FilterWith ==
    ASSUME NEW r \in FilterRec
    PROVE  /\ \A v \in States : [r EXCEPT !.state = v] \in FilterRec
           /\ \A v \in Feeds \cup {NULL} : [r EXCEPT !.sec = v] \in FilterRec
           /\ \A v \in DmxFilters \cup {NULL} : [r EXCEPT !.secfilter = v] \in FilterRec
           /\ \A v \in Lists : [r EXCEPT !.ts = v] \in FilterRec
BY DEF FilterRec

(* A feed with one field exchanged is a feed.                            *)
LEMMA FeedWith ==
    ASSUME NEW r \in FeedRec
    PROVE  /\ \A v \in {"free", "allocated", "ready", "go"} : [r EXCEPT !.state = v] \in FeedRec
           /\ \A v \in SUBSET DmxFilters : [r EXCEPT !.filters = v] \in FeedRec
BY DEF FeedRec

(* The records that stand for what is not in use.                        *)
LEMMA FreshAre ==
    /\ FreeFeed \in FeedRec /\ FreeDmxFilter \in DmxRec
    /\ [FreshFilter EXCEPT !.state = ALLOCATED] \in FilterRec /\ FreshFilter \in FilterRec
    /\ <<>> \in Lists
<1>1. <<>> \in Lists
  BY PoolsAssumption DEF Lists
<1>2. [FreshFilter EXCEPT !.state = ALLOCATED] \in FilterRec /\ FreshFilter \in FilterRec
  <2> FREE \in States /\ ALLOCATED \in States
    BY StateIs
  <2> QED
    BY <1>1, FlagIs DEF FreshFilter, FilterRec
<1> QED
  BY <1>1, <1>2, FlagIs DEF FreeFeed, FreeDmxFilter, FeedRec, DmxRec

(* start_feed and stop_feed change the adapter alone.                      *)
More(a, b, n) ==
    /\ b.feeds = a.feeds + n
    /\ b.dma = IF a.feeds <= 0 /\ a.feeds + n > 0 THEN TRUE ELSE a.dma
Fewer(a, b, n) ==
    /\ b.feeds = a.feeds - n
    /\ b.dma = IF a.feeds > 0 /\ a.feeds - n <= 0 THEN FALSE ELSE a.dma

(* start_feed adds n to the counter, and nothing else but the DMA        *)
(* changes.                                                              *)
LEMMA StartFeedIs ==
    ASSUME NEW s \in Sys, NEW n \in Int
    PROVE  /\ start_feed(s, n) \in Sys
           /\ More(s.adapter, start_feed(s, n).adapter, n)
           /\ start_feed(s, n).filter = s.filter /\ start_feed(s, n).feed = s.feed
           /\ start_feed(s, n).dmxfilter = s.dmxfilter
           /\ start_feed(s, n).refused = s.refused /\ start_feed(s, n).oops = s.oops
<1> DEFINE a == [feeds |-> s.adapter.feeds + n,
                 dma |-> IF s.adapter.feeds <= 0 /\ s.adapter.feeds + n > 0 THEN TRUE ELSE s.adapter.dma]
<1>1. start_feed(s, n) = [s EXCEPT !.adapter = a]
  BY DEF start_feed
<1>2. s.adapter \in AdapterRec
  BY SysParts
<1>3. s.adapter.feeds + n \in Int /\ s.adapter.dma \in Flag
  BY <1>2 DEF AdapterRec
<1>4. a \in AdapterRec /\ More(s.adapter, a, n)
  BY <1>3, FlagIs DEF AdapterRec, More
<1> HIDE DEF a
<1>5. [s EXCEPT !.adapter = a] \in Sys
  BY <1>4, SysWith
<1> QED
  BY <1>1, <1>4, <1>5 DEF Sys

(* stop_feed takes n from it.                                            *)
LEMMA StopFeedIs ==
    ASSUME NEW s \in Sys, NEW n \in Int
    PROVE  /\ stop_feed(s, n) \in Sys
           /\ Fewer(s.adapter, stop_feed(s, n).adapter, n)
           /\ stop_feed(s, n).filter = s.filter /\ stop_feed(s, n).feed = s.feed
           /\ stop_feed(s, n).dmxfilter = s.dmxfilter
           /\ stop_feed(s, n).refused = s.refused /\ stop_feed(s, n).oops = s.oops
<1> DEFINE a == [feeds |-> s.adapter.feeds - n,
                 dma |-> IF s.adapter.feeds > 0 /\ s.adapter.feeds - n <= 0 THEN FALSE ELSE s.adapter.dma]
<1>1. stop_feed(s, n) = [s EXCEPT !.adapter = a]
  BY DEF stop_feed
<1>2. s.adapter \in AdapterRec
  BY SysParts
<1>3. s.adapter.feeds - n \in Int /\ s.adapter.dma \in Flag
  BY <1>2 DEF AdapterRec
<1>4. a \in AdapterRec /\ Fewer(s.adapter, a, n)
  BY <1>3, FlagIs DEF AdapterRec, Fewer
<1> HIDE DEF a
<1>5. [s EXCEPT !.adapter = a] \in Sys
  BY <1>4, SysWith
<1> QED
  BY <1>1, <1>4, <1>5 DEF Sys

(* The parts of the state that the functions on feeds leave alone.         *)
Rest(s, t) == t.filter = s.filter /\ t.refused = s.refused /\ t.oops = s.oops

(* SectionStopFiltering: the feed is ready, one less runs.               *)
LEMMA HaltIs ==
    ASSUME NEW s \in Sys, NEW i \in Feeds, NEW t, t = SectionStopFiltering(s, i)
    PROVE  /\ t \in Sys /\ Rest(s, t) /\ t.dmxfilter = s.dmxfilter
           /\ t.feed = [s.feed EXCEPT ![i].state = "ready"]
           /\ Fewer(s.adapter, t.adapter, 1)
<1> DEFINE u == [s EXCEPT !.feed[i].state = "ready"]
<1>1. s.feed \in [Feeds -> FeedRec] /\ s.feed[i] \in FeedRec
  BY SysParts
<1>2. [s.feed[i] EXCEPT !.state = "ready"] \in FeedRec
  BY <1>1, FeedWith
<1>3. [s.feed EXCEPT ![i].state = "ready"] \in [Feeds -> FeedRec]
  BY <1>1, <1>2
<1>4. u \in Sys
  BY <1>3, SysWith
<1>5. Rest(s, u) /\ u.dmxfilter = s.dmxfilter /\ u.feed = [s.feed EXCEPT ![i].state = "ready"]
      /\ u.adapter = s.adapter
  BY DEF Rest, Sys
<1>6. t = stop_feed(u, 1)
  BY DEF SectionStopFiltering
<1> HIDE DEF u
<1>7. 1 \in Int
  OBVIOUS
<1>8. /\ t \in Sys /\ Fewer(u.adapter, t.adapter, 1)
      /\ t.filter = u.filter /\ t.feed = u.feed /\ t.dmxfilter = u.dmxfilter
      /\ t.refused = u.refused /\ t.oops = u.oops
  BY <1>4, <1>6, <1>7, StopFeedIs
<1> QED
  BY <1>5, <1>8, Zenon DEF Rest

(* SectionStartFiltering: the feed runs unless it has no section filter. *)
LEMMA RunIs ==
    ASSUME NEW s \in Sys, NEW i \in Feeds, NEW t, t = SectionStartFiltering(s, i)
    PROVE  /\ t \in Sys /\ Rest(s, t) /\ t.dmxfilter = s.dmxfilter
           /\ s.feed[i].state = "go" \/ s.feed[i].filters = {} => t = s
           /\ s.feed[i].state # "go" /\ s.feed[i].filters # {} =>
                /\ t.feed = [s.feed EXCEPT ![i].state = "go"]
                /\ More(s.adapter, t.adapter, 1)
<1> DEFINE u == [s EXCEPT !.feed[i].state = "go"]
<1>1. s.feed \in [Feeds -> FeedRec] /\ s.feed[i] \in FeedRec
  BY SysParts
<1>2. [s.feed[i] EXCEPT !.state = "go"] \in FeedRec
  BY <1>1, FeedWith
<1>3. [s.feed EXCEPT ![i].state = "go"] \in [Feeds -> FeedRec]
  BY <1>1, <1>2
<1>4. u \in Sys
  BY <1>3, SysWith
<1>5. Rest(s, u) /\ u.dmxfilter = s.dmxfilter /\ u.feed = [s.feed EXCEPT ![i].state = "go"]
      /\ u.adapter = s.adapter
  BY DEF Rest, Sys
<1>6. t = IF s.feed[i].state = "go" \/ s.feed[i].filters = {} THEN s ELSE start_feed(u, 1)
  BY DEF SectionStartFiltering
<1> HIDE DEF u
<1>7. CASE s.feed[i].state = "go" \/ s.feed[i].filters = {}
  BY <1>6, <1>7 DEF Rest
<1>8. CASE ~(s.feed[i].state = "go" \/ s.feed[i].filters = {})
  <2>1. t = start_feed(u, 1)
    BY <1>6, <1>8
  <2>2. 1 \in Int
    OBVIOUS
  <2>3. /\ t \in Sys /\ More(u.adapter, t.adapter, 1)
        /\ t.filter = u.filter /\ t.feed = u.feed /\ t.dmxfilter = u.dmxfilter
        /\ t.refused = u.refused /\ t.oops = u.oops
    BY <1>4, <2>1, <2>2, StartFeedIs
  <2> QED
    BY <1>5, <1>8, <2>3, Zenon DEF Rest
<1> QED
  BY <1>7, <1>8

(* ReleaseFilter on a halted feed: its section filter is free, the feed  *)
(* stays halted.                                                         *)
LEMMA ReleaseFilterIs ==
    ASSUME NEW s \in Sys, NEW i \in Feeds, NEW j \in DmxFilters, NEW t, t = ReleaseFilter(s, i, j)
    PROVE  /\ t \in Sys /\ Rest(s, t)
           /\ s.dmxfilter[j].feed = i /\ s.feed[i].state # "go" =>
                /\ t.feed = [s.feed EXCEPT ![i].filters = @ \ {j}]
                /\ t.dmxfilter = [s.dmxfilter EXCEPT ![j] = FreeDmxFilter]
                /\ t.adapter = s.adapter
<1> DEFINE u == IF s.feed[i].state = "go" THEN SectionStopFiltering(s, i) ELSE s
           v == [u EXCEPT !.feed[i].filters = @ \ {j}, !.dmxfilter[j] = FreeDmxFilter]
<1>1. u \in Sys /\ Rest(s, u)
  <2>1. CASE s.feed[i].state = "go"
    BY <2>1, HaltIs, Zenon
  <2>2. CASE s.feed[i].state # "go"
    BY <2>2, Zenon DEF Rest
  <2> QED
    BY <2>1, <2>2
<1>2. s.feed[i].state # "go" => u = s
  OBVIOUS
<1>3. t = IF s.dmxfilter[j].feed # i THEN s ELSE v
  BY DEF ReleaseFilter
<1> HIDE DEF u
<1>4. u.feed \in [Feeds -> FeedRec] /\ u.feed[i] \in FeedRec /\ u.dmxfilter \in [DmxFilters -> DmxRec]
  BY <1>1, SysParts
<1>5. u.feed[i].filters \ {j} \in SUBSET DmxFilters
  BY <1>4 DEF FeedRec
<1>6. [u.feed[i] EXCEPT !.filters = @ \ {j}] \in FeedRec
  BY <1>4, <1>5, FeedWith
<1>7. [u.feed EXCEPT ![i].filters = @ \ {j}] \in [Feeds -> FeedRec]
  BY <1>4, <1>6
<1>8. [u.dmxfilter EXCEPT ![j] = FreeDmxFilter] \in [DmxFilters -> DmxRec]
  BY <1>4, FreshAre
<1> DEFINE w == [u EXCEPT !.feed = [u.feed EXCEPT ![i].filters = @ \ {j}]]
<1>9. w \in Sys
  BY <1>1, <1>7, SysWith
<1>10. v = [w EXCEPT !.dmxfilter = [u.dmxfilter EXCEPT ![j] = FreeDmxFilter]]
  BY <1>1 DEF Sys
<1> HIDE DEF w
<1>11. v \in Sys
  BY <1>8, <1>9, <1>10, SysWith
<1>12. Rest(u, v) /\ v.feed = [u.feed EXCEPT ![i].filters = @ \ {j}]
       /\ v.dmxfilter = [u.dmxfilter EXCEPT ![j] = FreeDmxFilter] /\ v.adapter = u.adapter
  BY <1>1 DEF Rest, Sys
<1> HIDE DEF v
<1> QED
  BY <1>1, <1>2, <1>3, <1>11, <1>12 DEF Rest

(* ReleaseSectionFeed: the feed is free.                                 *)
LEMMA ReleaseFeedIs ==
    ASSUME NEW s \in Sys, NEW i \in Feeds, NEW t, t = ReleaseSectionFeed(s, i)
    PROVE  /\ t \in Sys /\ Rest(s, t) /\ t.dmxfilter = s.dmxfilter /\ t.adapter = s.adapter
           /\ s.feed[i].state # "free" => t.feed = [s.feed EXCEPT ![i] = FreeFeed]
<1> DEFINE v == [s EXCEPT !.feed[i] = FreeFeed]
<1>1. s.feed \in [Feeds -> FeedRec]
  BY SysParts
<1>2. [s.feed EXCEPT ![i] = FreeFeed] \in [Feeds -> FeedRec]
  BY <1>1, FreshAre
<1>3. v \in Sys
  BY <1>2, SysWith
<1>4. Rest(s, v) /\ v.feed = [s.feed EXCEPT ![i] = FreeFeed] /\ v.dmxfilter = s.dmxfilter
      /\ v.adapter = s.adapter
  BY DEF Rest, Sys
<1>5. t = IF s.feed[i].state = "free" THEN s ELSE v
  BY DEF ReleaseSectionFeed
<1> HIDE DEF v
<1> QED
  BY <1>3, <1>4, <1>5 DEF Rest

(* AllocateSectionFeed: the feed has a PID and no section filter.        *)
LEMMA AllocateIs ==
    ASSUME NEW s \in Sys, NEW i \in Feeds, NEW pid \in Pids \cup {NoPid},
           NEW t, t = AllocateSectionFeed(s, i, pid)
    PROVE  /\ t \in Sys /\ Rest(s, t) /\ t.dmxfilter = s.dmxfilter /\ t.adapter = s.adapter
           /\ t.feed = [s.feed EXCEPT ![i] = [state |-> "ready", type |-> "sec", pid |-> pid,
                                             priv |-> NULL, filters |-> {}]]
<1> DEFINE n == [state |-> "ready", type |-> "sec", pid |-> pid, priv |-> NULL, filters |-> {}]
<1>1. s.feed \in [Feeds -> FeedRec] /\ n \in FeedRec
  BY SysParts DEF FeedRec
<1>2. t = [s EXCEPT !.feed[i] = n]
  BY DEF AllocateSectionFeed
<1> HIDE DEF n
<1>3. [s.feed EXCEPT ![i] = n] \in [Feeds -> FeedRec]
  BY <1>1
<1>4. t \in Sys
  BY <1>2, <1>3, SysWith, Zenon
<1>5. Rest(s, t) /\ t.dmxfilter = s.dmxfilter /\ t.adapter = s.adapter /\ t.feed = [s.feed EXCEPT ![i] = n]
  BY <1>2 DEF Rest, Sys
<1> QED
  BY <1>4, <1>5 DEF n

(* AllocateFilter: the section filter belongs to the feed.               *)
LEMMA AllocateFilterIs ==
    ASSUME NEW s \in Sys, NEW i \in Feeds, NEW j \in DmxFilters, NEW f \in Filters,
           NEW t, t = AllocateFilter(s, i, j, f)
    PROVE  /\ t \in Sys /\ Rest(s, t) /\ t.adapter = s.adapter
           /\ t.feed = [s.feed EXCEPT ![i].filters = @ \cup {j}]
           /\ t.dmxfilter = [s.dmxfilter EXCEPT ![j] = [free |-> FALSE, feed |-> i, priv |-> f]]
<1> DEFINE d == [free |-> FALSE, feed |-> i, priv |-> f]
<1>1. /\ s.feed \in [Feeds -> FeedRec] /\ s.feed[i] \in FeedRec
      /\ s.dmxfilter \in [DmxFilters -> DmxRec] /\ d \in DmxRec
  BY SysParts, FlagIs DEF DmxRec
<1>2. s.feed[i].filters \cup {j} \in SUBSET DmxFilters
  BY <1>1 DEF FeedRec
<1>3. [s.feed[i] EXCEPT !.filters = @ \cup {j}] \in FeedRec
  BY <1>1, <1>2, FeedWith
<1>4. [s.feed EXCEPT ![i].filters = @ \cup {j}] \in [Feeds -> FeedRec]
  BY <1>1, <1>3
<1>5. t = [s EXCEPT !.dmxfilter[j] = d, !.feed[i].filters = @ \cup {j}]
  BY DEF AllocateFilter
<1> HIDE DEF d
<1>6. [s.dmxfilter EXCEPT ![j] = d] \in [DmxFilters -> DmxRec]
  BY <1>1
<1> DEFINE w == [s EXCEPT !.dmxfilter = [s.dmxfilter EXCEPT ![j] = d]]
<1>7. w \in Sys
  BY <1>6, SysWith
<1>8. t = [w EXCEPT !.feed = [s.feed EXCEPT ![i].filters = @ \cup {j}]]
  BY <1>5 DEF Sys
<1> HIDE DEF w
<1>9. t \in Sys
  BY <1>4, <1>7, <1>8, SysWith
<1>10. Rest(s, t) /\ t.adapter = s.adapter /\ t.feed = [s.feed EXCEPT ![i].filters = @ \cup {j}]
       /\ t.dmxfilter = [s.dmxfilter EXCEPT ![j] = d]
  BY <1>5 DEF Rest, Sys
<1> QED
  BY <1>9, <1>10 DEF d

---------------------------------------------------------------------------
(* The inductive invariant                                               *)

(* A filter is on from GO to TIMEDOUT.                                     *)
On(r) == r.state >= GO
SecOn(s, f) == On(s.filter[f]) /\ s.filter[f].type = "sec"
PesOn(s, f) == On(s.filter[f]) /\ s.filter[f].type = "pes"

Kinds(s) == \A f \in Filters : On(s.filter[f]) => s.filter[f].type \in {"sec", "pes"}

(* The list of a TS filter names feeds only while it is on.                *)
Quiet(s) ==
    \A f \in Filters : ~PesOn(s, f) =>
        \A k \in DOMAIN s.filter[f].ts : s.filter[f].ts[k].ts = NULL

(* h is a section feed that the ioctl has halted, or NULL.                 *)
Sections(s, h) ==
    \A f \in Filters : SecOn(s, f) =>
      LET i == s.filter[f].sec
          j == s.filter[f].secfilter
      IN  /\ i \in Feeds /\ j \in DmxFilters
          /\ s.feed[i].state = IF i = h THEN "ready" ELSE "go"
          /\ s.feed[i].type = "sec" /\ s.feed[i].pid = s.filter[f].pid
          /\ j \in s.feed[i].filters /\ s.dmxfilter[j].priv = f

Shares(s) ==
    \A f, g \in Filters : SecOn(s, f) /\ SecOn(s, g) /\ s.filter[f].pid = s.filter[g].pid =>
        s.filter[f].sec = s.filter[g].sec

(* The feeds of a list run for the filter f, and each is there once.       *)
Serves(feeds, ts, f) ==
    /\ \A k \in DOMAIN ts :
         /\ ts[k].ts \in Feeds /\ feeds[ts[k].ts].state = "go" /\ feeds[ts[k].ts].type = "ts"
         /\ feeds[ts[k].ts].priv = f /\ feeds[ts[k].ts].filters # {}
    /\ \A k, l \in DOMAIN ts : ts[k].ts = ts[l].ts => k = l

Streams(s) == \A f \in Filters : PesOn(s, f) => Serves(s.feed, s.filter[f].ts, f)

(* A feed in use is halted or has an owner that is on.                     *)
SecOwned(s, i) == \E f \in Filters : SecOn(s, f) /\ s.filter[f].sec = i
Names(ts, i) == \E k \in DOMAIN ts : ts[k].ts = i
TsOwned(s, i) ==
    LET f == s.feed[i].priv
    IN  f \in Filters /\ PesOn(s, f) /\ Names(s.filter[f].ts, i)

Owned(s, i) ==
    /\ s.feed[i].state = "go"
    /\ \/ s.feed[i].type = "sec" /\ SecOwned(s, i)
       \/ s.feed[i].type = "ts" /\ TsOwned(s, i)

Owners(s, h) == \A i \in Feeds : s.feed[i].state # "free" => i = h \/ Owned(s, i)

Halted(s, h) == h \in Feeds => s.feed[h].state = "ready" /\ s.feed[h].type = "sec"

Hooks(s) ==
    /\ \A i \in Feeds : s.feed[i].state = "free" => s.feed[i].filters = {}
    /\ \A i \in Feeds : \A j \in s.feed[i].filters : ~s.dmxfilter[j].free /\ s.dmxfilter[j].feed = i
    /\ \A j \in DmxFilters : ~s.dmxfilter[j].free =>
         /\ s.dmxfilter[j].feed \in Feeds /\ j \in s.feed[s.dmxfilter[j].feed].filters
         /\ s.feed[s.dmxfilter[j].feed].type = "sec" =>
              /\ s.dmxfilter[j].priv \in Filters /\ SecOn(s, s.dmxfilter[j].priv)
              /\ s.filter[s.dmxfilter[j].priv].secfilter = j

Going(s) == {i \in Feeds : s.feed[i].state = "go"}

Counted(s) ==
    /\ s.adapter.feeds = Cardinality(Going(s))
    /\ s.adapter.dma <=> s.adapter.feeds > 0

Good(s, h) ==
    /\ Kinds(s) /\ Quiet(s) /\ Sections(s, h) /\ Shares(s) /\ Streams(s)
    /\ Owners(s, h) /\ Halted(s, h) /\ Hooks(s) /\ Counted(s) /\ ~s.oops

(* The counter stays exact when one more feed runs ...                   *)
LEMMA CountMore ==
    ASSUME NEW s \in Sys, NEW t \in Sys, Counted(s), NEW K, K \subseteq Feeds, K \cap Going(s) = {},
           Going(t) = Going(s) \cup K, More(s.adapter, t.adapter, Cardinality(K))
    PROVE  Counted(t)
<1>1. IsFiniteSet(K) /\ IsFiniteSet(Going(s))
  BY PoolsAre, FS_Subset DEF Going
<1>2. Cardinality(K) \in Nat /\ Cardinality(Going(s)) \in Nat
  BY <1>1, FS_CardinalityType
<1>3. Cardinality(Going(t)) = Cardinality(Going(s)) + Cardinality(K)
  <2>1. Cardinality(Going(s) \cap K) = 0
    BY FS_EmptySet
  <2>2. Cardinality(Going(s) \cup K) = Cardinality(Going(s)) + Cardinality(K) - Cardinality(Going(s) \cap K)
    BY <1>1, FS_Union
  <2> QED
    BY <1>2, <2>1, <2>2
<1>4. t.adapter.feeds = Cardinality(Going(t))
  BY <1>3 DEF Counted, More
<1>5. t.adapter.dma <=> t.adapter.feeds > 0
  <2>1. CASE s.adapter.feeds > 0
    <3>1. ~(s.adapter.feeds <= 0) /\ t.adapter.feeds > 0
      BY <2>1, <1>2, <1>3, <1>4 DEF Counted
    <3> QED
      BY <2>1, <3>1, Zenon DEF Counted, More
  <2>2. CASE ~(s.adapter.feeds > 0) /\ t.adapter.feeds > 0
    <3>1. s.adapter.feeds <= 0 /\ s.adapter.feeds + Cardinality(K) > 0
      BY <2>2, <1>2, <1>3, <1>4 DEF Counted
    <3> QED
      BY <2>2, <3>1, Zenon DEF Counted, More
  <2>3. CASE ~(s.adapter.feeds > 0) /\ ~(t.adapter.feeds > 0)
    <3>1. ~(s.adapter.feeds + Cardinality(K) > 0)
      BY <2>3, <1>2, <1>3, <1>4 DEF Counted
    <3> QED
      BY <2>3, <3>1, Zenon DEF Counted, More
  <2> QED
    BY <2>1, <2>2, <2>3
<1> QED
  BY <1>4, <1>5 DEF Counted

(* ... when one less runs ...                                            *)
LEMMA CountFewer ==
    ASSUME NEW s \in Sys, NEW t \in Sys, Counted(s), NEW K, K \subseteq Going(s),
           Going(t) = Going(s) \ K, Fewer(s.adapter, t.adapter, Cardinality(K))
    PROVE  Counted(t)
<1>1. IsFiniteSet(K) /\ IsFiniteSet(Going(s))
  <2>1. IsFiniteSet(Going(s))
    BY PoolsAre, FS_Subset DEF Going
  <2> QED
    BY <2>1, FS_Subset
<1>2. Cardinality(K) \in Nat /\ Cardinality(Going(s)) \in Nat
  BY <1>1, FS_CardinalityType
<1>3. Cardinality(Going(t)) = Cardinality(Going(s)) - Cardinality(K) /\ Cardinality(Going(t)) \in Nat
  <2>1. Going(s) \cap K = K
    OBVIOUS
  <2>2. IsFiniteSet(Going(t)) /\ Cardinality(Going(s) \ K) = Cardinality(Going(s)) - Cardinality(Going(s) \cap K)
    BY <1>1, FS_Difference
  <2> QED
    BY <1>2, <2>1, <2>2, FS_CardinalityType
<1>4. t.adapter.feeds = Cardinality(Going(t))
  BY <1>3 DEF Counted, Fewer
<1>5. t.adapter.dma <=> t.adapter.feeds > 0
  <2>1. CASE t.adapter.feeds > 0
    <3>1. ~(s.adapter.feeds - Cardinality(K) <= 0) /\ s.adapter.feeds > 0
      BY <2>1, <1>2, <1>3, <1>4 DEF Counted
    <3> QED
      BY <2>1, <3>1, Zenon DEF Counted, Fewer
  <2>2. CASE s.adapter.feeds > 0 /\ ~(t.adapter.feeds > 0)
    <3>1. s.adapter.feeds - Cardinality(K) <= 0
      BY <2>2, <1>2, <1>3, <1>4 DEF Counted
    <3> QED
      BY <2>2, <3>1, Zenon DEF Counted, Fewer
  <2>3. CASE ~(s.adapter.feeds > 0) /\ ~(t.adapter.feeds > 0)
    BY <2>3, Zenon DEF Counted, Fewer
  <2> QED
    BY <2>1, <2>2, <2>3
<1> QED
  BY <1>4, <1>5 DEF Counted

(* ... and when the running feeds are the same.                          *)
LEMMA CountSame ==
    ASSUME NEW s, NEW t, Counted(s), Going(t) = Going(s), t.adapter = s.adapter
    PROVE  Counted(t)
BY DEF Counted

(* A list depends on nothing but the feeds it names.                     *)
LEMMA ServesSame ==
    ASSUME NEW a, NEW b, NEW ts, NEW f, Serves(a, ts, f),
           \A x \in Feeds : a[x].state = "go" /\ a[x].type = "ts" => b[x] = a[x]
    PROVE  Serves(b, ts, f)
<1>1. \A k \in DOMAIN ts :
        /\ ts[k].ts \in Feeds /\ a[ts[k].ts].state = "go" /\ a[ts[k].ts].type = "ts"
        /\ a[ts[k].ts].priv = f /\ a[ts[k].ts].filters # {}
  BY DEF Serves
<1>2. \A k \in DOMAIN ts : b[ts[k].ts] = a[ts[k].ts]
  BY <1>1
<1>3. \A k, l \in DOMAIN ts : ts[k].ts = ts[l].ts => k = l
  BY DEF Serves
<1> QED
  BY <1>1, <1>2, <1>3, Zenon DEF Serves

(* The TS feeds and the filters are the same.                              *)
LEMMA StreamsSame ==
    ASSUME NEW s, NEW t, Streams(s), \A f \in Filters : PesOn(t, f) => PesOn(s, f),
           \A f \in Filters : PesOn(t, f) => t.filter[f].ts = s.filter[f].ts,
           \A x \in Feeds : s.feed[x].state = "go" /\ s.feed[x].type = "ts" => t.feed[x] = s.feed[x]
    PROVE  Streams(t)
<1> SUFFICES ASSUME NEW f \in Filters, PesOn(t, f) PROVE Serves(t.feed, t.filter[f].ts, f)
  BY Zenon DEF Streams
<1>1. Serves(s.feed, s.filter[f].ts, f)
  BY Zenon DEF Streams
<1>2. Serves(t.feed, s.filter[f].ts, f)
  BY <1>1, ServesSame
<1> QED
  BY <1>2

(* A feed keeps its owner when the filters that are on keep theirs.      *)
LEMMA OwnedSame ==
    ASSUME NEW s, NEW t, t.filter = s.filter, NEW x, t.feed[x] = s.feed[x]
    PROVE  Owned(t, x) <=> Owned(s, x)
<1>1. SecOwned(t, x) <=> SecOwned(s, x)
  BY Zenon DEF SecOwned, SecOn
<1>2. TsOwned(t, x) <=> TsOwned(s, x)
  BY Zenon DEF TsOwned, PesOn
<1> QED
  BY <1>1, <1>2 DEF Owned

(* A filter may be edited as long as it is off, and marked as long as it   *)
(* is on.                                                                  *)
LEMMA EditKeeps ==
    ASSUME NEW s \in Sys, NEW t \in Sys, NEW h, Good(s, h),
           t.feed = s.feed, t.dmxfilter = s.dmxfilter, t.adapter = s.adapter, t.oops = s.oops,
           \A f \in Filters :
             /\ On(t.filter[f]) <=> On(s.filter[f])
             /\ On(s.filter[f]) =>
                  /\ t.filter[f].type = s.filter[f].type /\ t.filter[f].pid = s.filter[f].pid
                  /\ t.filter[f].sec = s.filter[f].sec /\ t.filter[f].secfilter = s.filter[f].secfilter
                  /\ t.filter[f].ts = s.filter[f].ts
             /\ ~On(s.filter[f]) => \A k \in DOMAIN t.filter[f].ts : t.filter[f].ts[k].ts = NULL
    PROVE  Good(t, h)
<1>1. \A f \in Filters : (SecOn(t, f) <=> SecOn(s, f)) /\ (PesOn(t, f) <=> PesOn(s, f))
  BY DEF SecOn, PesOn
<1>2. \A f \in Filters : SecOn(s, f) =>
        /\ t.filter[f].pid = s.filter[f].pid /\ t.filter[f].sec = s.filter[f].sec
        /\ t.filter[f].secfilter = s.filter[f].secfilter
  BY DEF SecOn
<1>3. \A f \in Filters : PesOn(s, f) => t.filter[f].ts = s.filter[f].ts
  BY DEF PesOn
<1>4. Kinds(t)
  BY DEF Good, Kinds
<1>5. Quiet(t)
  BY <1>1 DEF Good, Quiet, PesOn
<1>6. Sections(t, h)
  BY <1>1, <1>2 DEF Good, Sections
<1>7. Shares(t)
  BY <1>1, <1>2 DEF Good, Shares
<1>8. Streams(t)
  BY <1>1, <1>3 DEF Good, Streams
<1>9. Owners(t, h)
  <2>1. \A i \in Feeds : SecOwned(s, i) => SecOwned(t, i)
    BY <1>1, <1>2 DEF SecOwned
  <2>2. \A i \in Feeds : TsOwned(s, i) => TsOwned(t, i)
    BY <1>1, <1>3 DEF TsOwned
  <2> QED
    BY <2>1, <2>2 DEF Good, Owners, Owned
<1>10. Halted(t, h)
  BY DEF Good, Halted
<1>11. Hooks(t)
  BY <1>1, <1>2 DEF Good, Hooks
<1>12. Counted(t)
  BY CountSame DEF Good, Going
<1> QED
  BY <1>4, <1>5, <1>6, <1>7, <1>8, <1>9, <1>10, <1>11, <1>12 DEF Good

---------------------------------------------------------------------------
(* Section feeds                                                         *)

(* A filter and a feed whose state only is exchanged.                      *)
LEMMA FeedChange ==
    ASSUME NEW s \in Sys, NEW t \in Sys, NEW i \in Feeds, NEW r, t.feed = [s.feed EXCEPT ![i] = r]
    PROVE  t.feed[i] = r /\ \A x \in Feeds : x # i => t.feed[x] = s.feed[x]
BY SysParts

(* Only the feed i is not what it was.                                     *)
LEMMA StreamsStay ==
    ASSUME NEW s, NEW t, NEW i \in Feeds, Streams(s),
           t.filter = s.filter, \A x \in Feeds : x # i => t.feed[x] = s.feed[x],
           s.feed[i].state # "go" \/ s.feed[i].type # "ts"
    PROVE  Streams(t)
<1>1. \A f \in Filters : (PesOn(t, f) => PesOn(s, f)) /\ t.filter[f].ts = s.filter[f].ts
  BY DEF PesOn
<1>2. \A x \in Feeds : s.feed[x].state = "go" /\ s.feed[x].type = "ts" => t.feed[x] = s.feed[x]
  OBVIOUS
<1> QED
  BY <1>1, <1>2, StreamsSame

(* A halted feed that nobody uses is released.                             *)
LEMMA FreedGood ==
    ASSUME NEW s \in Sys, NEW t \in Sys, NEW i \in Feeds, Good(s, i),
           \A g \in Filters : SecOn(s, g) => s.filter[g].sec # i,
           t.feed = [s.feed EXCEPT ![i] = FreeFeed], t.filter = s.filter,
           t.dmxfilter = s.dmxfilter, t.adapter = s.adapter, t.oops = s.oops
    PROVE  Good(t, NULL)
<1>1. /\ t.feed[i].state = "free" /\ t.feed[i].filters = {}
      /\ \A x \in Feeds : x # i => t.feed[x] = s.feed[x]
  BY FeedChange DEF FreeFeed
<1>2. \A f \in Filters : (SecOn(t, f) <=> SecOn(s, f)) /\ (PesOn(t, f) <=> PesOn(s, f))
  BY DEF SecOn, PesOn
<1>3. s.feed[i].state = "ready" /\ s.feed[i].type = "sec"
  BY DEF Good, Halted
<1>4. s.feed[i].filters = {}
  <2> SUFFICES ASSUME NEW j \in s.feed[i].filters PROVE FALSE
    OBVIOUS
  <2>1. j \in DmxFilters
    BY SysParts DEF FeedRec
  <2>2. ~s.dmxfilter[j].free /\ s.dmxfilter[j].feed = i
    BY DEF Good, Hooks
  <2> DEFINE g == s.dmxfilter[j].priv
  <2>3. g \in Filters /\ SecOn(s, g) /\ s.filter[g].secfilter = j
    BY <1>3, <2>1, <2>2 DEF Good, Hooks
  <2>4. j \in s.feed[s.filter[g].sec].filters /\ s.filter[g].sec \in Feeds
    BY <2>3 DEF Good, Sections
  <2>5. s.filter[g].sec = i
    <3>1. \A x \in Feeds : \A l \in s.feed[x].filters : s.dmxfilter[l].feed = x
      BY DEF Good, Hooks
    <3> QED
      BY ONLY <2>2, <2>4, <3>1
  <2> QED
    BY <2>3, <2>5
<1>5. Kinds(t) /\ Quiet(t) /\ Shares(t)
  BY <1>2 DEF Good, Kinds, Quiet, Shares
<1>6. Sections(t, NULL)
  BY <1>1, <1>2, PoolsAre DEF Good, Sections
<1>7. Streams(t)
  BY <1>1, <1>3, StreamsStay DEF Good
<1>8. Owners(t, NULL)
  <2>1. \A x \in Feeds : x # i => (Owned(t, x) <=> Owned(s, x))
    BY <1>1, OwnedSame
  <2> QED
    BY <1>1, <2>1 DEF Good, Owners
<1>9. Halted(t, NULL)
  BY PoolsAre DEF Halted
<1>10. Hooks(t)
  BY <1>1, <1>2, <1>3, <1>4 DEF Good, Hooks
<1>11. Counted(t)
  <2>1. Going(t) = Going(s)
    BY <1>1, <1>3 DEF Going
  <2> QED
    BY <2>1, CountSame DEF Good
<1> QED
  BY <1>5, <1>6, <1>7, <1>8, <1>9, <1>10, <1>11 DEF Good

(* A halted feed that a filter uses runs again.                            *)
LEMMA RunGood ==
    ASSUME NEW s \in Sys, NEW t \in Sys, NEW i \in Feeds, Good(s, i),
           NEW g \in Filters, SecOn(s, g), s.filter[g].sec = i,
           t.feed = [s.feed EXCEPT ![i].state = "go"], t.filter = s.filter,
           t.dmxfilter = s.dmxfilter, More(s.adapter, t.adapter, 1), t.oops = s.oops
    PROVE  Good(t, NULL)
<1>1. /\ t.feed[i].state = "go" /\ t.feed[i].type = s.feed[i].type /\ t.feed[i].pid = s.feed[i].pid
      /\ t.feed[i].filters = s.feed[i].filters /\ t.feed[i].priv = s.feed[i].priv
      /\ \A x \in Feeds : x # i => t.feed[x] = s.feed[x]
  <2>1. s.feed[i] \in FeedRec
    BY SysParts
  <2> QED
    BY <2>1, FeedChange DEF FeedRec
<1>2. \A f \in Filters : (SecOn(t, f) <=> SecOn(s, f)) /\ (PesOn(t, f) <=> PesOn(s, f))
  BY DEF SecOn, PesOn
<1>3. s.feed[i].state = "ready" /\ s.feed[i].type = "sec"
  BY DEF Good, Halted
<1>4. Kinds(t) /\ Quiet(t) /\ Shares(t)
  BY <1>2 DEF Good, Kinds, Quiet, Shares
<1>5. Sections(t, NULL)
  BY <1>1, <1>2, PoolsAre DEF Good, Sections
<1>6. Streams(t)
  BY <1>1, <1>3, StreamsStay DEF Good
<1>7. Owners(t, NULL)
  <2>1. \A x \in Feeds : x # i => (Owned(t, x) <=> Owned(s, x))
    BY <1>1, OwnedSame
  <2>2. SecOwned(t, i)
    BY <1>2 DEF SecOwned
  <2>3. t.feed[i].state = "go" /\ t.feed[i].type = "sec"
    BY <1>1, <1>3
  <2>4. Owned(t, i)
    BY <2>2, <2>3, Zenon DEF Owned
  <2> QED
    BY <2>1, <2>4 DEF Good, Owners
<1>8. Halted(t, NULL)
  BY PoolsAre DEF Halted
<1>9. Hooks(t)
  BY <1>1, <1>2, <1>3 DEF Good, Hooks
<1>10. Counted(t)
  <2>1. Going(t) = Going(s) \cup {i} /\ {i} \cap Going(s) = {}
    BY <1>1, <1>3 DEF Going
  <2>2. Cardinality({i}) = 1
    BY FS_Singleton
  <2> QED
    BY <2>1, <2>2, CountMore DEF Good
<1> QED
  BY <1>4, <1>5, <1>6, <1>7, <1>8, <1>9, <1>10 DEF Good

(* A running section feed is halted.                                       *)
LEMMA HaltGood ==
    ASSUME NEW s \in Sys, NEW t \in Sys, NEW i \in Feeds, Good(s, NULL),
           s.feed[i].state = "go", s.feed[i].type = "sec",
           t.feed = [s.feed EXCEPT ![i].state = "ready"], t.filter = s.filter,
           t.dmxfilter = s.dmxfilter, Fewer(s.adapter, t.adapter, 1), t.oops = s.oops
    PROVE  Good(t, i)
<1>1. /\ t.feed[i].state = "ready" /\ t.feed[i].type = s.feed[i].type /\ t.feed[i].pid = s.feed[i].pid
      /\ t.feed[i].filters = s.feed[i].filters /\ t.feed[i].priv = s.feed[i].priv
      /\ \A x \in Feeds : x # i => t.feed[x] = s.feed[x]
  <2>1. s.feed[i] \in FeedRec
    BY SysParts
  <2> QED
    BY <2>1, FeedChange DEF FeedRec
<1>2. \A f \in Filters : (SecOn(t, f) <=> SecOn(s, f)) /\ (PesOn(t, f) <=> PesOn(s, f))
  BY DEF SecOn, PesOn
<1>4. Kinds(t) /\ Quiet(t) /\ Shares(t)
  BY <1>2 DEF Good, Kinds, Quiet, Shares
<1>5. Sections(t, i)
  BY <1>1, <1>2, PoolsAre DEF Good, Sections
<1>6. Streams(t)
  BY <1>1, StreamsStay DEF Good
<1>7. Owners(t, i)
  <2>1. \A x \in Feeds : x # i => (Owned(t, x) <=> Owned(s, x))
    BY <1>1, OwnedSame
  <2> QED
    BY <1>1, <2>1, PoolsAre DEF Good, Owners
<1>8. Halted(t, i)
  BY <1>1 DEF Halted
<1>9. Hooks(t)
  BY SMTT(20), <1>1, <1>2 DEF Good, Hooks
<1>10. Counted(t)
  <2>1. Going(t) = Going(s) \ {i} /\ {i} \subseteq Going(s)
    BY <1>1 DEF Going
  <2>2. Cardinality({i}) = 1
    BY FS_Singleton
  <2> QED
    BY <2>1, <2>2, CountFewer DEF Good
<1> QED
  BY <1>4, <1>5, <1>6, <1>7, <1>8, <1>9, <1>10 DEF Good

(* A free feed is allocated for sections; it has no filter yet.            *)
LEMMA NewGood ==
    ASSUME NEW s \in Sys, NEW t \in Sys, NEW i \in Feeds, Good(s, NULL), s.feed[i].state = "free",
           NEW pid,
           t.feed = [s.feed EXCEPT ![i] = [state |-> "ready", type |-> "sec", pid |-> pid,
                                           priv |-> NULL, filters |-> {}]],
           t.filter = s.filter, t.dmxfilter = s.dmxfilter, t.adapter = s.adapter, t.oops = s.oops
    PROVE  Good(t, i) /\ \A g \in Filters : SecOn(t, g) => t.filter[g].sec # i
<1>1. /\ t.feed[i].state = "ready" /\ t.feed[i].type = "sec" /\ t.feed[i].filters = {}
      /\ \A x \in Feeds : x # i => t.feed[x] = s.feed[x]
  BY FeedChange
<1>2. \A f \in Filters : (SecOn(t, f) <=> SecOn(s, f)) /\ (PesOn(t, f) <=> PesOn(s, f))
  BY DEF SecOn, PesOn
<1>3. \A g \in Filters : SecOn(s, g) => s.filter[g].sec # i
  BY PoolsAre DEF Good, Sections
<1>4. Kinds(t) /\ Quiet(t) /\ Shares(t)
  BY <1>2 DEF Good, Kinds, Quiet, Shares
<1>5. Sections(t, i)
  BY <1>1, <1>2, <1>3, PoolsAre DEF Good, Sections
<1>6. Streams(t)
  BY <1>1, StreamsStay DEF Good
<1>7. Owners(t, i)
  <2>1. \A x \in Feeds : x # i => (Owned(t, x) <=> Owned(s, x))
    BY <1>1, OwnedSame
  <2> QED
    BY <1>1, <2>1, PoolsAre DEF Good, Owners
<1>8. Halted(t, i)
  BY <1>1 DEF Halted
<1>9. Hooks(t)
  BY <1>1, <1>2 DEF Good, Hooks
<1>10. Counted(t)
  <2>1. Going(t) = Going(s)
    BY <1>1 DEF Going
  <2> QED
    BY <2>1, CountSame DEF Good
<1> QED
  BY <1>2, <1>3, <1>4, <1>5, <1>6, <1>7, <1>8, <1>9, <1>10 DEF Good

(* A filter stops and gives its section filter back to its halted feed.    *)
LEMMA UnhookGood ==
    ASSUME NEW s \in Sys, NEW t \in Sys, NEW i \in Feeds, Good(s, i),
           NEW f \in Filters, SecOn(s, f), s.filter[f].sec = i,
           NEW j \in DmxFilters, j = s.filter[f].secfilter,
           \A g \in Filters : g # f => t.filter[g] = s.filter[g],
           ~On(t.filter[f]), t.filter[f].ts = s.filter[f].ts,
           t.feed = [s.feed EXCEPT ![i].filters = @ \ {j}],
           t.dmxfilter = [s.dmxfilter EXCEPT ![j] = FreeDmxFilter],
           t.adapter = s.adapter, t.oops = s.oops
    PROVE  Good(t, i)
<1>1. /\ t.feed[i].state = s.feed[i].state /\ t.feed[i].type = s.feed[i].type /\ t.feed[i].pid = s.feed[i].pid
      /\ t.feed[i].filters = s.feed[i].filters \ {j}
      /\ \A x \in Feeds : x # i => t.feed[x] = s.feed[x]
  <2>1. s.feed[i] \in FeedRec
    BY SysParts
  <2>2. t.feed[i] = [s.feed[i] EXCEPT !.filters = @ \ {j}] /\ \A x \in Feeds : x # i => t.feed[x] = s.feed[x]
    BY SysParts
  <2> QED
    BY <2>1, <2>2 DEF FeedRec
<1>2. t.dmxfilter[j].free /\ \A k \in DmxFilters : k # j => t.dmxfilter[k] = s.dmxfilter[k]
  BY SysParts DEF FreeDmxFilter
<1>3. s.feed[i].state = "ready" /\ s.feed[i].type = "sec"
  BY DEF Good, Halted
<1>4. ~SecOn(t, f) /\ ~PesOn(t, f) /\ ~PesOn(s, f)
  BY DEF SecOn, PesOn
<1>5. \A g \in Filters : g # f => (SecOn(t, g) <=> SecOn(s, g)) /\ (PesOn(t, g) <=> PesOn(s, g))
  BY DEF SecOn, PesOn
<1>6. s.dmxfilter[j].priv = f
  BY DEF Good, Sections
<1>7. \A g \in Filters : SecOn(s, g) /\ g # f => s.filter[g].secfilter # j
  BY <1>6 DEF Good, Sections
<1>8. Kinds(t)
  BY DEF Good, Kinds
<1>9. Quiet(t)
  <2> SUFFICES ASSUME NEW g \in Filters, ~PesOn(t, g)
               PROVE  \A k \in DOMAIN t.filter[g].ts : t.filter[g].ts[k].ts = NULL
    BY DEF Quiet
  <2>1. ~PesOn(s, g) /\ t.filter[g].ts = s.filter[g].ts
    BY <1>4, <1>5
  <2> QED
    BY <2>1 DEF Good, Quiet
<1>10. Sections(t, i)
  <2> SUFFICES ASSUME NEW g \in Filters, SecOn(t, g)
               PROVE  LET a == t.filter[g].sec
                          b == t.filter[g].secfilter
                      IN  /\ a \in Feeds /\ b \in DmxFilters
                          /\ t.feed[a].state = IF a = i THEN "ready" ELSE "go"
                          /\ t.feed[a].type = "sec" /\ t.feed[a].pid = t.filter[g].pid
                          /\ b \in t.feed[a].filters /\ t.dmxfilter[b].priv = g
    BY DEF Sections
  <2>1. g # f /\ SecOn(s, g) /\ t.filter[g] = s.filter[g]
    BY <1>4, <1>5
  <2> DEFINE a == s.filter[g].sec
             b == s.filter[g].secfilter
  <2>2. /\ a \in Feeds /\ b \in DmxFilters
        /\ s.feed[a].state = IF a = i THEN "ready" ELSE "go"
        /\ s.feed[a].type = "sec" /\ s.feed[a].pid = s.filter[g].pid
        /\ b \in s.feed[a].filters /\ s.dmxfilter[b].priv = g
    BY <2>1 DEF Good, Sections
  <2>3. b # j
    BY <1>7, <2>1
  <2> HIDE DEF a, b
  <2>4. CASE a = i
    BY <1>1, <1>2, <2>1, <2>2, <2>3, <2>4 DEF a, b
  <2>5. CASE a # i
    BY <1>1, <1>2, <2>1, <2>2, <2>3, <2>5 DEF a, b
  <2> QED
    BY <2>4, <2>5
<1>11. Shares(t)
  BY <1>4, <1>5 DEF Good, Shares
<1>12. Streams(t)
  <2>1. \A g \in Filters : PesOn(t, g) => PesOn(s, g) /\ t.filter[g].ts = s.filter[g].ts
    BY <1>4, <1>5
  <2>2. \A x \in Feeds : s.feed[x].state = "go" /\ s.feed[x].type = "ts" => t.feed[x] = s.feed[x]
    BY <1>1, <1>3
  <2>3. Streams(s)
    BY DEF Good
  <2> QED
    BY <2>1, <2>2, <2>3, StreamsSame
<1>13. Owners(t, i)
  <2> SUFFICES ASSUME NEW x \in Feeds, x # i, s.feed[x].state # "free" PROVE Owned(t, x)
    BY <1>1 DEF Owners
  <2>1. t.feed[x] = s.feed[x] /\ Owned(s, x)
    BY <1>1 DEF Good, Owners
  <2>2. SecOwned(s, x) => SecOwned(t, x)
    BY <1>5 DEF SecOwned
  <2>3. TsOwned(s, x) => TsOwned(t, x)
    BY <1>4, <1>5, <2>1 DEF TsOwned
  <2> QED
    BY <2>1, <2>2, <2>3 DEF Owned
<1>14. Halted(t, i)
  BY <1>1, <1>3 DEF Halted
<1>15. Hooks(t)
  <2>1. \A x \in Feeds : t.feed[x].state = "free" => t.feed[x].filters = {}
    BY <1>1, <1>3 DEF Good, Hooks
  <2>2. ASSUME NEW x \in Feeds, NEW k \in t.feed[x].filters
        PROVE  ~t.dmxfilter[k].free /\ t.dmxfilter[k].feed = x
    <3>1. k \in s.feed[x].filters
      BY <1>1, <2>2
    <3>2. k \in DmxFilters
      BY <3>1, SysParts DEF FeedRec
    <3>3. ~s.dmxfilter[k].free /\ s.dmxfilter[k].feed = x
      BY <3>1 DEF Good, Hooks
    <3>4. k # j
      <4>1. j \in s.feed[i].filters
        BY DEF Good, Sections
      <4>2. s.dmxfilter[j].feed = i
        BY <4>1 DEF Good, Hooks
      <4> QED
        BY <1>1, <2>2, <3>3, <4>2
    <3> QED
      BY <1>2, <3>2, <3>3, <3>4
  <2>3. ASSUME NEW k \in DmxFilters, ~t.dmxfilter[k].free
        PROVE  /\ t.dmxfilter[k].feed \in Feeds /\ k \in t.feed[t.dmxfilter[k].feed].filters
               /\ t.feed[t.dmxfilter[k].feed].type = "sec" =>
                    /\ t.dmxfilter[k].priv \in Filters /\ SecOn(t, t.dmxfilter[k].priv)
                    /\ t.filter[t.dmxfilter[k].priv].secfilter = k
    <3>1. k # j /\ t.dmxfilter[k] = s.dmxfilter[k]
      BY <1>2, <2>3
    <3> DEFINE x == s.dmxfilter[k].feed
               g == s.dmxfilter[k].priv
    <3>2. /\ x \in Feeds /\ k \in s.feed[x].filters
          /\ s.feed[x].type = "sec" => g \in Filters /\ SecOn(s, g) /\ s.filter[g].secfilter = k
      BY <2>3, <3>1 DEF Good, Hooks
    <3>3. t.feed[x].type = s.feed[x].type /\ k \in t.feed[x].filters
      <4> HIDE DEF x
      <4> QED
        BY <1>1, <3>1, <3>2
    <3>4. s.feed[x].type = "sec" => g # f /\ SecOn(t, g) /\ t.filter[g] = s.filter[g]
      BY <1>5, <3>1, <3>2
    <3> QED
      BY <3>1, <3>2, <3>3, <3>4
  <2> QED
    BY <2>1, <2>2, <2>3 DEF Hooks
<1>16. Counted(t)
  <2>1. Going(t) = Going(s)
    BY <1>1 DEF Going
  <2> QED
    BY <2>1, CountSame DEF Good
<1>17. ~t.oops
  BY DEF Good
<1> QED
  BY <1>8, <1>9, <1>10, <1>11, <1>12, <1>13, <1>14, <1>15, <1>16, <1>17 DEF Good

(* An idle filter starts with a free section filter on a halted feed.      *)
LEMMA HookGood ==
    ASSUME NEW s \in Sys, NEW t \in Sys, NEW i \in Feeds, Good(s, i),
           NEW f \in Filters, ~On(s.filter[f]),
           NEW j \in DmxFilters, s.dmxfilter[j].free,
           \A g \in Filters : g # f => t.filter[g] = s.filter[g],
           On(t.filter[f]), t.filter[f].type = "sec", t.filter[f].sec = i, t.filter[f].secfilter = j,
           t.filter[f].ts = s.filter[f].ts, t.filter[f].pid = s.feed[i].pid,
           \A g \in Filters : SecOn(s, g) => (s.filter[g].pid = s.feed[i].pid <=> s.filter[g].sec = i),
           t.feed = [s.feed EXCEPT ![i].filters = @ \cup {j}],
           t.dmxfilter = [s.dmxfilter EXCEPT ![j] = [free |-> FALSE, feed |-> i, priv |-> f]],
           t.adapter = s.adapter, t.oops = s.oops
    PROVE  Good(t, i)
<1>1. /\ t.feed[i].state = s.feed[i].state /\ t.feed[i].type = s.feed[i].type /\ t.feed[i].pid = s.feed[i].pid
      /\ t.feed[i].filters = s.feed[i].filters \cup {j}
      /\ \A x \in Feeds : x # i => t.feed[x] = s.feed[x]
  <2>1. s.feed[i] \in FeedRec
    BY SysParts
  <2>2. t.feed[i] = [s.feed[i] EXCEPT !.filters = @ \cup {j}] /\ \A x \in Feeds : x # i => t.feed[x] = s.feed[x]
    BY SysParts
  <2> QED
    BY <2>1, <2>2 DEF FeedRec
<1>2. /\ ~t.dmxfilter[j].free /\ t.dmxfilter[j].feed = i /\ t.dmxfilter[j].priv = f
      /\ \A k \in DmxFilters : k # j => t.dmxfilter[k] = s.dmxfilter[k]
  BY SysParts
<1>3. s.feed[i].state = "ready" /\ s.feed[i].type = "sec"
  BY DEF Good, Halted
<1>4. SecOn(t, f) /\ ~PesOn(t, f) /\ ~PesOn(s, f) /\ ~SecOn(s, f)
  BY DEF SecOn, PesOn
<1>5. \A g \in Filters : g # f => (SecOn(t, g) <=> SecOn(s, g)) /\ (PesOn(t, g) <=> PesOn(s, g))
  BY DEF SecOn, PesOn
<1>6. \A x \in Feeds : j \notin s.feed[x].filters
  BY DEF Good, Hooks
<1>8. Kinds(t)
  BY DEF Good, Kinds
<1>9. Quiet(t)
  <2> SUFFICES ASSUME NEW g \in Filters, ~PesOn(t, g)
               PROVE  \A k \in DOMAIN t.filter[g].ts : t.filter[g].ts[k].ts = NULL
    BY DEF Quiet
  <2>1. ~PesOn(s, g) /\ t.filter[g].ts = s.filter[g].ts
    BY <1>4, <1>5
  <2> QED
    BY <2>1 DEF Good, Quiet
<1>10. Sections(t, i)
  <2> SUFFICES ASSUME NEW g \in Filters, SecOn(t, g)
               PROVE  LET a == t.filter[g].sec
                          b == t.filter[g].secfilter
                      IN  /\ a \in Feeds /\ b \in DmxFilters
                          /\ t.feed[a].state = IF a = i THEN "ready" ELSE "go"
                          /\ t.feed[a].type = "sec" /\ t.feed[a].pid = t.filter[g].pid
                          /\ b \in t.feed[a].filters /\ t.dmxfilter[b].priv = g
    BY DEF Sections
  <2>1. CASE g = f
    BY <1>1, <1>2, <1>3, <2>1
  <2>2. CASE g # f
    <3>1. SecOn(s, g) /\ t.filter[g] = s.filter[g]
      BY <1>5, <2>2
    <3> DEFINE a == s.filter[g].sec
               b == s.filter[g].secfilter
    <3>2. /\ a \in Feeds /\ b \in DmxFilters
          /\ s.feed[a].state = IF a = i THEN "ready" ELSE "go"
          /\ s.feed[a].type = "sec" /\ s.feed[a].pid = s.filter[g].pid
          /\ b \in s.feed[a].filters /\ s.dmxfilter[b].priv = g
      BY <3>1 DEF Good, Sections
    <3>3. b # j
      BY <1>6, <3>2
    <3> HIDE DEF a, b
    <3>4. CASE a = i
      BY <1>1, <1>2, <3>1, <3>2, <3>3, <3>4 DEF a, b
    <3>5. CASE a # i
      BY <1>1, <1>2, <3>1, <3>2, <3>3, <3>5 DEF a, b
    <3> QED
      BY <3>4, <3>5
  <2> QED
    BY <2>1, <2>2
<1>11. Shares(t)
  <2> SUFFICES ASSUME NEW g \in Filters, NEW h \in Filters, SecOn(t, g), SecOn(t, h),
                      t.filter[g].pid = t.filter[h].pid
               PROVE  t.filter[g].sec = t.filter[h].sec
    BY DEF Shares
  <2>1. CASE g # f /\ h # f
    BY <2>1, <1>5 DEF Good, Shares
  <2>2. CASE g = f \/ h = f
    BY <2>2, <1>5
  <2> QED
    BY <2>1, <2>2
<1>12. Streams(t)
  <2>1. \A g \in Filters : PesOn(t, g) => PesOn(s, g)
    BY <1>4, <1>5
  <2>4. \A g \in Filters : PesOn(t, g) => t.filter[g].ts = s.filter[g].ts
    BY <1>4, <1>5
  <2>2. \A x \in Feeds : s.feed[x].state = "go" /\ s.feed[x].type = "ts" => t.feed[x] = s.feed[x]
    BY <1>1, <1>3
  <2>3. Streams(s)
    BY DEF Good
  <2> QED
    BY <2>1, <2>2, <2>3, <2>4, StreamsSame, Zenon
<1>13. Owners(t, i)
  <2> SUFFICES ASSUME NEW x \in Feeds, x # i, s.feed[x].state # "free" PROVE Owned(t, x)
    BY <1>1 DEF Owners
  <2>1. t.feed[x] = s.feed[x] /\ Owned(s, x)
    BY <1>1 DEF Good, Owners
  <2>2. SecOwned(s, x) => SecOwned(t, x)
    BY <1>4, <1>5 DEF SecOwned
  <2>3. TsOwned(s, x) => TsOwned(t, x)
    BY <1>4, <1>5, <2>1 DEF TsOwned
  <2> QED
    BY <2>1, <2>2, <2>3 DEF Owned
<1>14. Halted(t, i)
  BY <1>1, <1>3 DEF Halted
<1>15. Hooks(t)
  <2>1. \A x \in Feeds : t.feed[x].state = "free" => t.feed[x].filters = {}
    BY <1>1, <1>3 DEF Good, Hooks
  <2>2. ASSUME NEW x \in Feeds, NEW k \in t.feed[x].filters
        PROVE  ~t.dmxfilter[k].free /\ t.dmxfilter[k].feed = x
    <3>1. CASE k = j
      BY <1>1, <1>2, <1>6, <2>2, <3>1
    <3>2. CASE k # j
      <4>1. k \in s.feed[x].filters
        BY <1>1, <2>2, <3>2
      <4>2. k \in DmxFilters
        BY <4>1, SysParts DEF FeedRec
      <4>3. ~s.dmxfilter[k].free /\ s.dmxfilter[k].feed = x
        BY <4>1 DEF Good, Hooks
      <4> QED
        BY <1>2, <3>2, <4>2, <4>3
    <3> QED
      BY <3>1, <3>2
  <2>3. ASSUME NEW k \in DmxFilters, ~t.dmxfilter[k].free
        PROVE  /\ t.dmxfilter[k].feed \in Feeds /\ k \in t.feed[t.dmxfilter[k].feed].filters
               /\ t.feed[t.dmxfilter[k].feed].type = "sec" =>
                    /\ t.dmxfilter[k].priv \in Filters /\ SecOn(t, t.dmxfilter[k].priv)
                    /\ t.filter[t.dmxfilter[k].priv].secfilter = k
    <3>1. CASE k = j
      BY <1>1, <1>2, <1>4, <3>1
    <3>2. CASE k # j
      <4>1. t.dmxfilter[k] = s.dmxfilter[k]
        BY <1>2, <3>2
      <4> DEFINE x == s.dmxfilter[k].feed
                 g == s.dmxfilter[k].priv
      <4>2. /\ x \in Feeds /\ k \in s.feed[x].filters
            /\ s.feed[x].type = "sec" => g \in Filters /\ SecOn(s, g) /\ s.filter[g].secfilter = k
        BY <2>3, <4>1 DEF Good, Hooks
      <4>3. t.feed[x].type = s.feed[x].type /\ k \in t.feed[x].filters
        <5> HIDE DEF x
        <5> QED
          BY <1>1, <3>2, <4>2
      <4>4. s.feed[x].type = "sec" => g # f /\ SecOn(t, g) /\ t.filter[g] = s.filter[g]
        BY <1>4, <1>5, <4>2
      <4> QED
        BY <4>1, <4>2, <4>3, <4>4
    <3> QED
      BY <3>1, <3>2
  <2> QED
    BY <2>1, <2>2, <2>3 DEF Hooks
<1>16. Counted(t)
  <2>1. Going(t) = Going(s)
    BY <1>1 DEF Going
  <2> QED
    BY <2>1, CountSame DEF Good
<1>17. ~t.oops
  BY DEF Good
<1> QED
  BY <1>8, <1>9, <1>10, <1>11, <1>12, <1>13, <1>14, <1>15, <1>16, <1>17 DEF Good

---------------------------------------------------------------------------
(* Filters                                                               *)

Same(s, t) ==
    /\ t.feed = s.feed /\ t.dmxfilter = s.dmxfilter /\ t.adapter = s.adapter
    /\ t.refused = s.refused /\ t.oops = s.oops

(* One filter is exchanged, or its state.                                  *)
With(s, g, r) == [s EXCEPT !.filter[g] = r]
Mark(s, g, v) == [s EXCEPT !.filter[g].state = v]

(* The fields of the state after one filter is exchanged.                *)
LEMMA SetIs ==
    ASSUME NEW s \in Sys, NEW g \in Filters, NEW r \in FilterRec, NEW t, t = With(s, g, r)
    PROVE  /\ t \in Sys /\ Same(s, t)
           /\ t.filter[g] = r /\ \A x \in Filters : x # g => t.filter[x] = s.filter[x]
<1>1. s.filter \in [Filters -> FilterRec]
  BY SysParts
<1>2. [s.filter EXCEPT ![g] = r] \in [Filters -> FilterRec]
  BY <1>1
<1>3. t = [s EXCEPT !.filter = [s.filter EXCEPT ![g] = r]]
  BY DEF With
<1>4. t \in Sys
  BY <1>2, <1>3, SysWith, Zenon
<1>5. Same(s, t) /\ t.filter = [s.filter EXCEPT ![g] = r]
  BY <1>3 DEF Same, Sys
<1> QED
  BY <1>1, <1>4, <1>5

(* A filter gets another state.                                            *)
LEMMA MarkIs ==
    ASSUME NEW s \in Sys, NEW g \in Filters, NEW v \in States, NEW t, t = Mark(s, g, v)
    PROVE  /\ t \in Sys /\ Same(s, t)
           /\ t.filter[g].state = v /\ t.filter[g].type = s.filter[g].type /\ t.filter[g].pid = s.filter[g].pid
           /\ t.filter[g].sec = s.filter[g].sec /\ t.filter[g].secfilter = s.filter[g].secfilter
           /\ t.filter[g].ts = s.filter[g].ts
           /\ \A x \in Filters : x # g => t.filter[x] = s.filter[x]
<1> DEFINE r == [s.filter[g] EXCEPT !.state = v]
<1>1. s.filter[g] \in FilterRec
  BY SysParts
<1>2. r \in FilterRec
  BY <1>1, FilterWith
<1>3. /\ r.state = v /\ r.type = s.filter[g].type /\ r.pid = s.filter[g].pid
      /\ r.sec = s.filter[g].sec /\ r.secfilter = s.filter[g].secfilter /\ r.ts = s.filter[g].ts
  BY <1>1 DEF FilterRec
<1>4. t = With(s, g, r)
  BY DEF With, Mark
<1> HIDE DEF r
<1>5. /\ t \in Sys /\ Same(s, t)
      /\ t.filter[g] = r /\ \A x \in Filters : x # g => t.filter[x] = s.filter[x]
  BY <1>2, <1>4, SetIs
<1> QED
  BY <1>3, <1>5

(* The filters are what they were, but for the states of those that are on. *)
Kept(s, t) ==
    \A g \in Filters :
        /\ On(t.filter[g]) <=> On(s.filter[g])
        /\ ~On(s.filter[g]) => t.filter[g].state = s.filter[g].state
        /\ t.filter[g].type = s.filter[g].type /\ t.filter[g].pid = s.filter[g].pid
        /\ t.filter[g].sec = s.filter[g].sec /\ t.filter[g].secfilter = s.filter[g].secfilter
        /\ t.filter[g].ts = s.filter[g].ts

(* Filters that are the same but for their states, while on, use the     *)
(* same feeds.                                                           *)
LEMMA ActiveIs ==
    ASSUME NEW s, NEW pid, Active(s, pid) # {}
    PROVE  /\ Lowest(Active(s, pid)) \in Filters /\ SecOn(s, Lowest(Active(s, pid)))
           /\ s.filter[Lowest(Active(s, pid))].pid = pid
<1>1. Active(s, pid) \in SUBSET Nat
  BY PoolsAre DEF Active
<1>2. Lowest(Active(s, pid)) \in Active(s, pid)
  BY <1>1, LowestIs
<1> QED
  BY <1>2 DEF Active, SecOn, On

(* A filter that is on may be marked again, as dvb_dmxdev_feed_restart   *)
(* and _feed_stop do.                                                    *)
LEMMA MarkKeeps ==
    ASSUME NEW s \in Sys, NEW g \in Filters, On(s.filter[g]), NEW t, t = Mark(s, g, GO)
    PROVE  t \in Sys /\ Same(s, t) /\ Kept(s, t)
<1>1. GO \in States /\ GO >= GO
  BY StateIs DEF GO
<1>2. /\ t \in Sys /\ Same(s, t)
      /\ t.filter[g].state = GO /\ t.filter[g].type = s.filter[g].type /\ t.filter[g].pid = s.filter[g].pid
      /\ t.filter[g].sec = s.filter[g].sec /\ t.filter[g].secfilter = s.filter[g].secfilter
      /\ t.filter[g].ts = s.filter[g].ts
      /\ \A x \in Filters : x # g => t.filter[x] = s.filter[x]
  BY <1>1, MarkIs
<1>3. On(t.filter[g])
  BY <1>1, <1>2 DEF On
<1>4. Kept(s, t)
  <2> SUFFICES ASSUME NEW x \in Filters
               PROVE  /\ On(t.filter[x]) <=> On(s.filter[x])
                      /\ ~On(s.filter[x]) => t.filter[x].state = s.filter[x].state
                      /\ t.filter[x].type = s.filter[x].type /\ t.filter[x].pid = s.filter[x].pid
                      /\ t.filter[x].sec = s.filter[x].sec /\ t.filter[x].secfilter = s.filter[x].secfilter
                      /\ t.filter[x].ts = s.filter[x].ts
    BY Zenon DEF Kept
  <2>1. CASE x = g
    BY <1>2, <1>3, <2>1
  <2>2. CASE x # g
    BY <1>2, <2>2
  <2> QED
    BY <2>1, <2>2
<1> QED
  BY <1>2, <1>4

(* dvb_dmxdev_feed_restart: it runs the halted feed for the other        *)
(* filters on it, or releases it.                                        *)
LEMMA RestartIs ==
    ASSUME NEW s \in Sys, NEW f \in Filters, s.filter[f].sec \in Feeds, NEW t, t = FeedRestart(s, f)
    PROVE  t \in Sys /\ Kept(s, t) /\ t.refused = s.refused
<1> DEFINE pid == s.filter[f].pid
           g == Lowest(Active(s, pid))
           u == Mark(s, g, GO)
<1>1. CASE Active(s, pid) = {}
  <2>1. t = ReleaseSectionFeed(s, s.filter[f].sec)
    BY <1>1 DEF FeedRestart
  <2>2. t \in Sys /\ Rest(s, t)
    BY <2>1, ReleaseFeedIs
  <2> QED
    BY <2>2 DEF Rest, Kept
<1>2. CASE Active(s, pid) # {}
  <2>1. g \in Filters /\ SecOn(s, g)
    BY <1>2, ActiveIs
  <2>2. On(s.filter[g])
    BY <2>1 DEF SecOn
  <2>3. u \in Sys /\ Same(s, u) /\ Kept(s, u)
    BY <2>1, <2>2, MarkKeeps
  <2>4. t = IF s.filter[g].sec = NULL THEN [s EXCEPT !.filter[g].state = GO, !.oops = TRUE]
                                      ELSE SectionStartFiltering(u, s.filter[g].sec)
    BY <1>2 DEF FeedRestart, Mark
  <2>5. s.filter[g].sec \in Feeds \cup {NULL}
    <3>1. s.filter[g] \in FilterRec
      BY <2>1, SysParts
    <3> QED
      BY <3>1 DEF FilterRec
  <2>6. [s EXCEPT !.filter[g].state = GO, !.oops = TRUE] = [u EXCEPT !.oops = TRUE]
    BY DEF Sys, Mark
  <2> HIDE DEF u
  <2>7. CASE s.filter[g].sec = NULL
    <3>1. t = [u EXCEPT !.oops = TRUE]
      BY <2>4, <2>6, <2>7
    <3>2. t \in Sys
      BY <2>3, <3>1, FlagIs, SysWith, Zenon
    <3>3. t.filter = u.filter /\ t.refused = u.refused
      BY <2>3, <3>1 DEF Sys
    <3> QED
      BY <2>3, <3>2, <3>3 DEF Kept, Same
  <2>8. CASE s.filter[g].sec # NULL
    <3>1. t = SectionStartFiltering(u, s.filter[g].sec) /\ s.filter[g].sec \in Feeds
      BY <2>4, <2>5, <2>8
    <3>2. t \in Sys /\ Rest(u, t)
      BY <2>3, <3>1, RunIs
    <3> QED
      BY <2>3, <3>2 DEF Kept, Same, Rest
  <2> QED
    BY <2>7, <2>8
<1> QED
  BY <1>1, <1>2

(* The filters that share a halted feed get it back, or nobody has it.     *)
LEMMA RestartGood ==
    ASSUME NEW s \in Sys, NEW f \in Filters, NEW i \in Feeds, s.filter[f].sec = i, Good(s, i),
           \A g \in Filters : SecOn(s, g) => (s.filter[g].pid = s.filter[f].pid <=> s.filter[g].sec = i),
           NEW t, t = FeedRestart(s, f)
    PROVE  /\ Good(t, NULL)
           /\ t.feed[i].state = "go" \/ t.feed[i].filters = {}
<1> DEFINE pid == s.filter[f].pid
           g == Lowest(Active(s, pid))
           u == Mark(s, g, GO)
<1>1. s.feed[i].state = "ready"
  BY DEF Good, Halted
<1>2. CASE Active(s, pid) = {}
  <2>1. \A x \in Filters : SecOn(s, x) => s.filter[x].sec # i
    BY <1>2 DEF Active, SecOn, On
  <2>2. t = ReleaseSectionFeed(s, i)
    BY <1>2 DEF FeedRestart
  <2>3. /\ t \in Sys /\ Rest(s, t) /\ t.dmxfilter = s.dmxfilter /\ t.adapter = s.adapter
        /\ t.feed = [s.feed EXCEPT ![i] = FreeFeed]
    BY <1>1, <2>2, ReleaseFeedIs
  <2>4. Good(t, NULL)
    BY <2>1, <2>3, FreedGood DEF Rest
  <2>5. t.feed[i].filters = {}
    BY <2>3, SysParts DEF FreeFeed
  <2> QED
    BY <2>4, <2>5
<1>3. CASE Active(s, pid) # {}
  <2>1. g \in Filters /\ SecOn(s, g) /\ s.filter[g].pid = pid
    BY <1>3, ActiveIs
  <2>2. On(s.filter[g]) /\ s.filter[g].sec = i
    BY <2>1 DEF SecOn
  <2>3. u \in Sys /\ Same(s, u) /\ Kept(s, u)
    BY <2>1, <2>2, MarkKeeps
  <2>4. i # NULL
    BY PoolsAre
  <2>5. t = SectionStartFiltering(u, i)
    BY <1>3, <2>2, <2>4 DEF FeedRestart, Mark
  <2> HIDE DEF u, g
  <2>6. Good(u, i)
    <3>1. \A x \in Filters : ~On(s.filter[x]) => \A k \in DOMAIN u.filter[x].ts : u.filter[x].ts[k].ts = NULL
      BY <2>3 DEF Good, Quiet, PesOn, Kept
    <3> QED
      BY <2>3, <3>1, EditKeeps DEF Same, Kept
  <2>7. SecOn(u, g) /\ u.filter[g].sec = i
    BY <2>1, <2>2, <2>3 DEF Kept, SecOn
  <2>8. u.feed[i].state # "go" /\ u.feed[i].filters # {}
    <3>1. u.feed[i].state = "ready"
      BY <2>6 DEF Good, Halted
    <3>2. u.filter[g].secfilter \in u.feed[i].filters
      BY <2>1, <2>6, <2>7 DEF Good, Sections
    <3> QED
      BY <3>1, <3>2
  <2>9. /\ t \in Sys /\ Rest(u, t) /\ t.dmxfilter = u.dmxfilter
        /\ t.feed = [u.feed EXCEPT ![i].state = "go"] /\ More(u.adapter, t.adapter, 1)
    BY SMTT(20), <2>3, <2>5, <2>8, RunIs
  <2>10. Good(t, NULL)
    BY <2>1, <2>3, <2>6, <2>7, <2>9, RunGood DEF Rest
  <2>11. t.feed[i].state = "go"
    <3>1. u.feed \in [Feeds -> FeedRec] /\ u.feed[i] \in FeedRec
      BY <2>3, SysParts
    <3>2. t.feed[i] = [u.feed[i] EXCEPT !.state = "go"]
      BY <2>9, <3>1
    <3> QED
      BY <3>1, <3>2 DEF FeedRec
  <2> QED
    BY <2>10, <2>11
<1> QED
  BY <1>2, <1>3

(* A filter has the state v and is otherwise what it was.                  *)
Marked(s, t, g, v) ==
    /\ t.filter[g].state = v /\ t.filter[g].type = s.filter[g].type /\ t.filter[g].pid = s.filter[g].pid
    /\ t.filter[g].sec = s.filter[g].sec /\ t.filter[g].secfilter = s.filter[g].secfilter
    /\ t.filter[g].ts = s.filter[g].ts
    /\ \A x \in Filters : x # g => t.filter[x] = s.filter[x]

Pend(s, f, v) == [s EXCEPT !.timer[f].pending = v]
Fail(s, f, v) == [s EXCEPT !.error[f] = v]

(* The timer of a filter is armed or deleted.                            *)
LEMMA PendIs ==
    ASSUME NEW s \in Sys, NEW f \in Filters, NEW v \in Flag, NEW t, t = Pend(s, f, v)
    PROVE  t \in Sys /\ Same(s, t) /\ t.filter = s.filter
<1> DEFINE r == [s.timer[f] EXCEPT !.pending = v]
<1>1. s.timer \in [Filters -> TimerRec] /\ s.timer[f] \in TimerRec
  BY SysParts
<1>2. r \in TimerRec
  BY <1>1 DEF TimerRec
<1>3. t = [s EXCEPT !.timer = [s.timer EXCEPT ![f] = r]]
  BY DEF Pend
<1> HIDE DEF r
<1>4. [s.timer EXCEPT ![f] = r] \in [Filters -> TimerRec]
  BY <1>1, <1>2
<1>5. t \in Sys
  BY <1>3, <1>4, SysWith, Zenon
<1>6. Same(s, t) /\ t.filter = s.filter
  BY <1>3 DEF Same, Sys
<1> QED
  BY <1>5, <1>6

(* The error mark of a filter is set or cleared.                         *)
LEMMA FailIs ==
    ASSUME NEW s \in Sys, NEW f \in Filters, NEW v \in Flag, NEW t, t = Fail(s, f, v)
    PROVE  t \in Sys /\ Same(s, t) /\ t.filter = s.filter
<1>1. s.error \in [Filters -> Flag]
  BY SysParts
<1>2. t = [s EXCEPT !.error = [s.error EXCEPT ![f] = v]]
  BY DEF Fail
<1>3. [s.error EXCEPT ![f] = v] \in [Filters -> Flag]
  BY <1>1
<1>4. t \in Sys
  BY <1>2, <1>3, SysWith, ZenonT(30)
<1>5. Same(s, t) /\ t.filter = s.filter
  BY <1>2 DEF Same, Sys
<1> QED
  BY <1>4, <1>5

(* The two pointers of a section filter.                                   *)
Linked(s, t, g, i, j) ==
    /\ t.filter[g].state = s.filter[g].state /\ t.filter[g].type = s.filter[g].type
    /\ t.filter[g].pid = s.filter[g].pid /\ t.filter[g].timeout = s.filter[g].timeout
    /\ t.filter[g].sec = i /\ t.filter[g].secfilter = j
    /\ t.filter[g].ts = s.filter[g].ts
    /\ \A x \in Filters : x # g => t.filter[x] = s.filter[x]
Link(s, g, i, j) == [s EXCEPT !.filter[g].sec = i, !.filter[g].secfilter = j]

(* The fields of the state after the pointers are set.                   *)
LEMMA LinkIs ==
    ASSUME NEW s \in Sys, NEW g \in Filters, NEW i \in Feeds \cup {NULL}, NEW j \in DmxFilters \cup {NULL},
           NEW t, t = Link(s, g, i, j)
    PROVE  t \in Sys /\ Same(s, t) /\ Linked(s, t, g, i, j)
<1> DEFINE q == [s.filter[g] EXCEPT !.sec = i]
           r == [q EXCEPT !.secfilter = j]
<1>1. s.filter \in [Filters -> FilterRec] /\ s.filter[g] \in FilterRec
  BY SysParts
<1>2. q \in FilterRec
  BY <1>1, FilterWith
<1>3. /\ q.state = s.filter[g].state /\ q.type = s.filter[g].type /\ q.pid = s.filter[g].pid
      /\ q.timeout = s.filter[g].timeout /\ q.sec = i /\ q.ts = s.filter[g].ts
  BY <1>1 DEF FilterRec
<1>4. t = With(s, g, r)
  BY <1>1 DEF With, Link, Sys
<1> HIDE DEF q
<1>5. r \in FilterRec
  BY <1>2, FilterWith
<1>6. /\ r.state = q.state /\ r.type = q.type /\ r.pid = q.pid
      /\ r.timeout = q.timeout /\ r.sec = q.sec /\ r.secfilter = j /\ r.ts = q.ts
  BY <1>2 DEF FilterRec
<1> HIDE DEF r
<1>7. /\ t \in Sys /\ Same(s, t)
      /\ t.filter[g] = r /\ \A x \in Filters : x # g => t.filter[x] = s.filter[x]
  BY <1>4, <1>5, SetIs
<1> QED
  BY <1>3, <1>6, <1>7 DEF Linked

(* dvb_dmxdev_feed_stop for a section filter: all filters on the feed    *)
(* are set back to SET, the feed is halted.                              *)
LEMMA SecFeedStopIs ==
    ASSUME NEW s \in Sys, NEW f \in Filters, s.filter[f].sec \in Feeds, NEW t, t = SecFeedStop(s, f)
    PROVE  /\ t \in Sys /\ Marked(s, t, f, SET) /\ t.refused = s.refused /\ t.oops = s.oops
           /\ t.dmxfilter = s.dmxfilter /\ t.feed = [s.feed EXCEPT ![s.filter[f].sec].state = "ready"]
           /\ Fewer(s.adapter, t.adapter, 1)
<1> DEFINE i == s.filter[f].sec
           u == Mark(s, f, SET)
           v == Pend(u, f, FALSE)
<1>1. SET \in States
  BY StateIs
<1>2. u \in Sys /\ Same(s, u) /\ Marked(s, u, f, SET)
  BY <1>1, MarkIs DEF Marked
<1>3. t = SectionStopFiltering([s EXCEPT !.filter[f].state = SET, !.timer[f].pending = FALSE], i)
  BY DEF SecFeedStop
<1>4. v = [s EXCEPT !.filter[f].state = SET, !.timer[f].pending = FALSE]
  BY DEF Pend, Mark, Sys
<1>5. t = SectionStopFiltering(v, i)
  BY <1>3, <1>4
<1>10. i \in Feeds
  OBVIOUS
<1> HIDE DEF u
<1>6. v \in Sys /\ Same(u, v) /\ v.filter = u.filter
  BY <1>2, FlagIs, PendIs
<1> HIDE DEF v, i
<1>7. /\ t \in Sys /\ Rest(v, t) /\ t.dmxfilter = v.dmxfilter
      /\ t.feed = [v.feed EXCEPT ![i].state = "ready"]
      /\ Fewer(v.adapter, t.adapter, 1)
  BY ONLY <1>5, <1>6, <1>10, HaltIs
<1>8. Marked(s, t, f, SET)
  BY <1>2, <1>6, <1>7 DEF Marked, Rest
<1>9. v.feed = s.feed /\ v.adapter = s.adapter /\ v.dmxfilter = s.dmxfilter
      /\ v.refused = s.refused /\ v.oops = s.oops
  BY <1>2, <1>6 DEF Same
<1> QED
  BY <1>7, <1>8, <1>9 DEF Rest, i

(* The section filter that dvb_dmxdev_filter_stop gives back.              *)
Unhook(s, r) == IF r.secfilter # NULL THEN ReleaseFilter(s, r.sec, r.secfilter) ELSE s

(* The state that the steps of dvb_dmxdev_filter_stop leave for a        *)
(* section filter.                                                       *)
LEMMA SecStopIs ==
    ASSUME NEW s \in Sys, NEW f \in Filters, s.filter[f].sec \in Feeds, NEW t, t = SecStop(s, f)
    PROVE  /\ t \in Sys /\ t.refused = s.refused
           /\ t.filter[f].state = SET /\ t.filter[f].type = s.filter[f].type
           /\ t.filter[f].pid = s.filter[f].pid
<1> DEFINE r == s.filter[f]
           u == SecFeedStop(s, f)
           v == Unhook(u, r)
           w == FeedRestart(v, f)
<1>1. t = Link(w, f, NULL, NULL) /\ u = SecFeedStop(s, f)
  BY DEF SecStop, Unhook, Link
<1> HIDE DEF u
<1>2. u \in Sys /\ Marked(s, u, f, SET) /\ u.refused = s.refused
  BY ONLY <1>1, s \in Sys, f \in Filters, s.filter[f].sec \in Feeds, SecFeedStopIs
<1>3. r \in FilterRec
  BY SysParts
<1>4. r.secfilter \in DmxFilters \cup {NULL} /\ r.sec \in Feeds
  BY <1>3 DEF FilterRec
<1> HIDE DEF r
<1>5. v \in Sys /\ Rest(u, v)
  <2>1. v = IF r.secfilter # NULL THEN ReleaseFilter(u, r.sec, r.secfilter) ELSE u
    BY DEF Unhook
  <2> HIDE DEF v
  <2>2. CASE r.secfilter = NULL
    BY <1>2, <2>1, <2>2 DEF Rest
  <2>3. CASE r.secfilter # NULL
    <3>1. v = ReleaseFilter(u, r.sec, r.secfilter) /\ r.secfilter \in DmxFilters
      BY <1>4, <2>1, <2>3
    <3> QED
      BY ONLY <1>2, <1>4, <3>1, ReleaseFilterIs
  <2> QED
    BY <2>2, <2>3
<1> HIDE DEF v
<1>6. v.filter[f].sec \in Feeds
  BY <1>2, <1>4, <1>5 DEF Rest, Marked, r
<1>7. w \in Sys /\ Kept(v, w) /\ w.refused = v.refused
  BY <1>5, <1>6, RestartIs
<1> HIDE DEF w
<1>8. t \in Sys /\ Same(w, t) /\ Linked(w, t, f, NULL, NULL)
  BY ONLY <1>1, <1>7, f \in Filters, LinkIs
<1>9. w.filter[f].state = SET
  <2>1. v.filter[f].state = SET
    BY <1>2, <1>5 DEF Rest, Marked
  <2>2. ~On(v.filter[f])
    BY <2>1, StateIs DEF On
  <2> QED
    BY <1>7, <2>1, <2>2 DEF Kept
<1>10. w.filter[f].type = s.filter[f].type /\ w.filter[f].pid = s.filter[f].pid
  BY <1>2, <1>5, <1>7 DEF Kept, Marked, Rest
<1> QED
  BY <1>2, <1>5, <1>7, <1>8, <1>9, <1>10 DEF Linked, Same, Rest

(* A pool of feeds loses what is taken from it.                          *)
LEMMA FewerSame ==
    ASSUME NEW a \in AdapterRec, NEW b \in AdapterRec, NEW c \in AdapterRec, NEW n, Fewer(a, b, n), Fewer(a, c, n)
    PROVE  b = c
<1>1. b.feeds = c.feeds /\ b.dma = c.dma
  BY DEF Fewer
<1> QED
  BY <1>1 DEF AdapterRec

(* A filter that is off is edited and stays off.                           *)
Blank(r) == \A k \in DOMAIN r.ts : r.ts[k].ts = NULL

(* Such an edit keeps the invariant.                                     *)
LEMMA EditOff ==
    ASSUME NEW s \in Sys, NEW t \in Sys, NEW h, Good(s, h), Same(s, t), NEW f \in Filters,
           ~On(s.filter[f]), ~On(t.filter[f]), Blank(t.filter[f]),
           \A x \in Filters : x # f => t.filter[x] = s.filter[x]
    PROVE  Good(t, h)
<1>1. ASSUME NEW x \in Filters
      PROVE  /\ On(t.filter[x]) <=> On(s.filter[x])
             /\ On(s.filter[x]) =>
                  /\ t.filter[x].type = s.filter[x].type /\ t.filter[x].pid = s.filter[x].pid
                  /\ t.filter[x].sec = s.filter[x].sec /\ t.filter[x].secfilter = s.filter[x].secfilter
                  /\ t.filter[x].ts = s.filter[x].ts
             /\ ~On(s.filter[x]) => \A k \in DOMAIN t.filter[x].ts : t.filter[x].ts[k].ts = NULL
  <2>1. CASE x = f
    BY <2>1 DEF Blank
  <2>2. CASE x # f
    <3>1. t.filter[x] = s.filter[x]
      BY <2>2
    <3>2. ~On(s.filter[x]) => \A k \in DOMAIN s.filter[x].ts : s.filter[x].ts[k].ts = NULL
      BY DEF Good, Quiet, PesOn
    <3> QED
      BY <3>1, <3>2
  <2> QED
    BY <2>1, <2>2
<1> QED
  BY <1>1, EditKeeps DEF Same

(* A filter that is off names no feed in its list.                       *)
LEMMA OffIsBlank ==
    ASSUME NEW s, NEW h, Good(s, h), NEW f \in Filters, ~On(s.filter[f])
    PROVE  Blank(s.filter[f])
BY DEF Good, Quiet, PesOn, Blank

(* Section filters share a feed if and only if they have the same PID.     *)
LEMMA PidShared ==
    ASSUME NEW s, NEW h, Good(s, h), NEW f \in Filters, SecOn(s, f)
    PROVE  \A g \in Filters : SecOn(s, g) =>
              (s.filter[g].pid = s.filter[f].pid <=> s.filter[g].sec = s.filter[f].sec)
<1>1. s.feed[s.filter[f].sec].pid = s.filter[f].pid
  BY DEF Good, Sections
<1> SUFFICES ASSUME NEW g \in Filters, SecOn(s, g)
             PROVE  s.filter[g].pid = s.filter[f].pid <=> s.filter[g].sec = s.filter[f].sec
  OBVIOUS
<1>2. s.feed[s.filter[g].sec].pid = s.filter[g].pid
  BY DEF Good, Sections
<1>3. s.filter[g].pid = s.filter[f].pid => s.filter[g].sec = s.filter[f].sec
  BY DEF Good, Shares
<1> QED
  BY <1>1, <1>2, <1>3

(* dvb_dmxdev_filter_stop for a section filter keeps the invariant: its  *)
(* section filter is given back, and the feed goes on for the others or  *)
(* is released.                                                          *)
LEMMA SecStopGood ==
    ASSUME NEW s \in Sys, NEW f \in Filters, Good(s, NULL), SecOn(s, f), NEW t, t = SecStop(s, f)
    PROVE  Good(t, NULL)
<1> DEFINE i == s.filter[f].sec
           j == s.filter[f].secfilter
           p == SectionStopFiltering(s, i)
           u == SecFeedStop(s, f)
           v == ReleaseFilter(u, i, j)
           w == FeedRestart(v, f)
<1>1. /\ i \in Feeds /\ j \in DmxFilters /\ i # NULL /\ j # NULL
      /\ s.feed[i].state = "go" /\ s.feed[i].type = "sec" /\ j \in s.feed[i].filters
  BY PoolsAre DEF Good, Sections
<1>2. s.dmxfilter[j].feed = i
  BY <1>1 DEF Good, Hooks
<1>3. t = Link(w, f, NULL, NULL)
  BY <1>1 DEF SecStop, Link
<1>4. p = SectionStopFiltering(s, i) /\ u = SecFeedStop(s, f) /\ v = ReleaseFilter(u, i, j) /\ w = FeedRestart(v, f)
  OBVIOUS
<1>5. /\ u \in Sys /\ Marked(s, u, f, SET) /\ u.refused = s.refused /\ u.oops = s.oops
      /\ u.dmxfilter = s.dmxfilter /\ u.feed = [s.feed EXCEPT ![i].state = "ready"]
      /\ Fewer(s.adapter, u.adapter, 1)
  <2> HIDE DEF u
  <2> QED
    BY ONLY ZenonT(30), <1>1, <1>4, s \in Sys, f \in Filters, SecFeedStopIs
<1>6. \A g \in Filters : SecOn(s, g) => (s.filter[g].pid = s.filter[f].pid <=> s.filter[g].sec = i)
  BY PidShared
<1>7. s.filter[f].sec = i /\ s.filter[f].secfilter = j
  OBVIOUS
<1> HIDE DEF i, j, p, u, v, w
<1>8. /\ p \in Sys /\ Rest(s, p) /\ p.dmxfilter = s.dmxfilter
      /\ p.feed = [s.feed EXCEPT ![i].state = "ready"]
      /\ Fewer(s.adapter, p.adapter, 1)
  BY ONLY <1>1, <1>4, s \in Sys, HaltIs
<1>9. Good(p, i)
  <2>1. p.filter = s.filter /\ p.oops = s.oops
    BY <1>8 DEF Rest
  <2> QED
    BY ONLY <1>1, <1>8, <2>1, s \in Sys, Good(s, NULL), HaltGood
<1>10. p.adapter = u.adapter
  BY <1>5, <1>8, SysParts, FewerSame
<1>11. u.feed[i].state = "ready"
  <2>1. s.feed \in [Feeds -> FeedRec] /\ s.feed[i] \in FeedRec
    BY <1>1, SysParts
  <2>2. u.feed[i] = [s.feed[i] EXCEPT !.state = "ready"]
    BY <1>1, <1>5, <2>1
  <2> QED
    BY <2>1, <2>2 DEF FeedRec
<1>12. u.feed[i].state # "go" /\ u.dmxfilter[j].feed = i
  BY <1>2, <1>5, <1>11
<1>13. /\ v \in Sys /\ Rest(u, v) /\ v.feed = [u.feed EXCEPT ![i].filters = @ \ {j}]
       /\ v.dmxfilter = [u.dmxfilter EXCEPT ![j] = FreeDmxFilter] /\ v.adapter = u.adapter
  <2>1. u \in Sys /\ v = ReleaseFilter(u, i, j) /\ i \in Feeds /\ j \in DmxFilters
    BY <1>1, <1>4, <1>5
  <2> QED
    BY ONLY <1>12, <2>1, ReleaseFilterIs
<1>14. ~On(v.filter[f]) /\ v.filter[f].ts = s.filter[f].ts /\ v.filter[f].sec = i /\ v.filter[f].pid = s.filter[f].pid
       /\ \A g \in Filters : g # f => v.filter[g] = s.filter[g]
  <2>1. v.filter[f].state = SET
    BY <1>5, <1>13 DEF Marked, Rest
  <2>2. ~On(v.filter[f])
    BY <2>1, StateIs DEF On
  <2> QED
    BY <2>2, <1>5, <1>7, <1>13 DEF Marked, Rest
<1>15. Good(v, i)
  <2>1. SecOn(p, f) /\ p.filter[f].sec = i /\ j = p.filter[f].secfilter
    BY <1>7, <1>8 DEF Rest, SecOn
  <2>2. (\A g \in Filters : g # f => v.filter[g] = p.filter[g]) /\ v.filter[f].ts = p.filter[f].ts
    BY <1>8, <1>14 DEF Rest
  <2>3. v.adapter = p.adapter /\ v.oops = p.oops
    BY <1>5, <1>8, <1>10, <1>13 DEF Rest
  <2>4. v.feed = [p.feed EXCEPT ![i].filters = @ \ {j}]
    BY <1>5, <1>8, <1>13
  <2>5. v.dmxfilter = [p.dmxfilter EXCEPT ![j] = FreeDmxFilter]
    BY <1>5, <1>8, <1>13
  <2>6. p \in Sys /\ v \in Sys /\ i \in Feeds /\ j \in DmxFilters /\ ~On(v.filter[f])
    BY <1>1, <1>8, <1>13, <1>14
  <2> QED
    BY ONLY <1>9, <2>1, <2>2, <2>3, <2>4, <2>5, <2>6, f \in Filters, UnhookGood
<1>16. \A g \in Filters : SecOn(v, g) => (v.filter[g].pid = v.filter[f].pid <=> v.filter[g].sec = i)
  <2> SUFFICES ASSUME NEW g \in Filters, SecOn(v, g)
               PROVE  v.filter[g].pid = v.filter[f].pid <=> v.filter[g].sec = i
    OBVIOUS
  <2>1. g # f
    BY <1>14 DEF SecOn
  <2>2. v.filter[g] = s.filter[g]
    BY <2>1, <1>14
  <2>3. SecOn(s, g)
    BY <2>2 DEF SecOn
  <2> QED
    BY <2>2, <2>3, <1>6, <1>14
<1>17. w \in Sys /\ Kept(v, w)
  <2>1. v.filter[f].sec \in Feeds
    BY <1>1, <1>14
  <2> QED
    BY ONLY <1>4, <1>13, <2>1, f \in Filters, RestartIs
<1>18. Good(w, NULL)
  BY <1>1, <1>4, <1>13, <1>14, <1>15, <1>16, RestartGood
<1>19. t \in Sys /\ Same(w, t) /\ Linked(w, t, f, NULL, NULL)
  BY ONLY <1>3, <1>17, f \in Filters, LinkIs
<1>20. ~On(w.filter[f])
  BY <1>14, <1>17 DEF Kept
<1>21. Blank(w.filter[f])
  BY <1>18, <1>20, OffIsBlank
<1>22. ~On(t.filter[f]) /\ Blank(t.filter[f]) /\ \A x \in Filters : x # f => t.filter[x] = w.filter[x]
  BY <1>19, <1>20, <1>21 DEF Linked, On, Blank
<1> QED
  BY <1>17, <1>18, <1>19, <1>20, <1>22, EditOff

(* One pointer of a section filter.                                        *)
SetSec(s, g, i)       == [s EXCEPT !.filter[g].sec = i]
SetSecFilter(s, g, j) == [s EXCEPT !.filter[g].secfilter = j]

(* The pointer to the feed alone.                                        *)
LEMMA SetSecIs ==
    ASSUME NEW s \in Sys, NEW g \in Filters, NEW i \in Feeds \cup {NULL}, NEW t, t = SetSec(s, g, i)
    PROVE  t \in Sys /\ Same(s, t) /\ Linked(s, t, g, i, s.filter[g].secfilter)
<1> DEFINE r == [s.filter[g] EXCEPT !.sec = i]
<1>1. s.filter[g] \in FilterRec
  BY SysParts
<1>2. r \in FilterRec
  BY <1>1, FilterWith
<1>3. /\ r.state = s.filter[g].state /\ r.type = s.filter[g].type /\ r.pid = s.filter[g].pid
      /\ r.timeout = s.filter[g].timeout /\ r.sec = i /\ r.ts = s.filter[g].ts
      /\ r.secfilter = s.filter[g].secfilter
  BY <1>1 DEF FilterRec
<1>4. t = With(s, g, r)
  BY DEF With, SetSec
<1> HIDE DEF r
<1>5. /\ t \in Sys /\ Same(s, t)
      /\ t.filter[g] = r /\ \A x \in Filters : x # g => t.filter[x] = s.filter[x]
  BY ONLY <1>2, <1>4, s \in Sys, g \in Filters, SetIs
<1> QED
  BY <1>3, <1>5 DEF Linked

(* The pointer to the section filter alone.                              *)
LEMMA SetSecFilterIs ==
    ASSUME NEW s \in Sys, NEW g \in Filters, NEW j \in DmxFilters \cup {NULL}, NEW t, t = SetSecFilter(s, g, j)
    PROVE  t \in Sys /\ Same(s, t) /\ Linked(s, t, g, s.filter[g].sec, j)
<1> DEFINE r == [s.filter[g] EXCEPT !.secfilter = j]
<1>1. s.filter[g] \in FilterRec
  BY SysParts
<1>2. r \in FilterRec
  BY <1>1, FilterWith
<1>3. /\ r.state = s.filter[g].state /\ r.type = s.filter[g].type /\ r.pid = s.filter[g].pid
      /\ r.timeout = s.filter[g].timeout /\ r.secfilter = j /\ r.ts = s.filter[g].ts
      /\ r.sec = s.filter[g].sec
  BY <1>1 DEF FilterRec
<1>4. t = With(s, g, r)
  BY DEF With, SetSecFilter
<1> HIDE DEF r
<1>5. /\ t \in Sys /\ Same(s, t)
      /\ t.filter[g] = r /\ \A x \in Filters : x # g => t.filter[x] = s.filter[x]
  BY ONLY <1>2, <1>4, s \in Sys, g \in Filters, SetIs
<1> QED
  BY <1>3, <1>5 DEF Linked

(* The free feeds and section filters.                                   *)
LEMMA FreesAre ==
    ASSUME NEW s
    PROVE  /\ FreeFeeds(s) # {} => Lowest(FreeFeeds(s)) \in Feeds /\ s.feed[Lowest(FreeFeeds(s))].state = "free"
           /\ FreeDmxFilters(s) # {} =>
                Lowest(FreeDmxFilters(s)) \in DmxFilters /\ s.dmxfilter[Lowest(FreeDmxFilters(s))].free
<1>1. FreeFeeds(s) \in SUBSET Nat /\ FreeDmxFilters(s) \in SUBSET Nat
  BY PoolsAre DEF FreeFeeds, FreeDmxFilters
<1>2. FreeFeeds(s) # {} => Lowest(FreeFeeds(s)) \in FreeFeeds(s)
  BY <1>1, LowestIs
<1>3. FreeDmxFilters(s) # {} => Lowest(FreeDmxFilters(s)) \in FreeDmxFilters(s)
  BY <1>1, LowestIs
<1> QED
  BY <1>2, <1>3 DEF FreeFeeds, FreeDmxFilters

(* The section filter that the halted feed gets.                         *)
LEMMA HookUpIs ==
    ASSUME NEW s \in Sys, NEW f \in Filters, NEW i \in Feeds, FreeDmxFilters(s) # {}, NEW t, t = HookUp(s, f, i)
    PROVE  LET j == Lowest(FreeDmxFilters(s))
           IN  /\ t \in Sys /\ t.adapter = s.adapter /\ t.refused = s.refused /\ t.oops = s.oops
               /\ Linked(s, t, f, s.filter[f].sec, j)
               /\ t.feed = [s.feed EXCEPT ![i].filters = @ \cup {j}]
               /\ t.dmxfilter = [s.dmxfilter EXCEPT ![j] = [free |-> FALSE, feed |-> i, priv |-> f]]
<1> DEFINE j == Lowest(FreeDmxFilters(s))
           u == AllocateFilter(s, i, j, f)
<1>1. j \in DmxFilters
  BY FreesAre
<1>2. t = SetSecFilter(u, f, j) /\ u = AllocateFilter(s, i, j, f)
  BY DEF HookUp, SetSecFilter
<1> HIDE DEF j, u
<1>3. /\ u \in Sys /\ Rest(s, u) /\ u.adapter = s.adapter
      /\ u.feed = [s.feed EXCEPT ![i].filters = @ \cup {j}]
      /\ u.dmxfilter = [s.dmxfilter EXCEPT ![j] = [free |-> FALSE, feed |-> i, priv |-> f]]
  <2>1. u = AllocateFilter(s, i, j, f)
    BY <1>2
  <2> QED
    BY ONLY <1>1, <2>1, s \in Sys, f \in Filters, i \in Feeds, AllocateFilterIs
<1>4. t \in Sys /\ Same(u, t) /\ Linked(u, t, f, u.filter[f].sec, j)
  <2>1. t = SetSecFilter(u, f, j) /\ u \in Sys /\ j \in DmxFilters \cup {NULL}
    BY <1>1, <1>2, <1>3
  <2> QED
    BY ONLY <2>1, f \in Filters, SetSecFilterIs
<1>5. Linked(s, t, f, s.filter[f].sec, j)
  BY <1>3, <1>4 DEF Linked, Rest
<1>6. /\ t.adapter = s.adapter /\ t.refused = s.refused /\ t.oops = s.oops
      /\ t.feed = u.feed /\ t.dmxfilter = u.dmxfilter
  BY <1>3, <1>4 DEF Same, Rest
<1> QED
  BY <1>3, <1>4, <1>5, <1>6 DEF j

(* The state after the section filter is hooked up and the feed runs.    *)
LEMMA SecRunIs ==
    ASSUME NEW s \in Sys, NEW f \in Filters, NEW i \in Feeds, FreeDmxFilters(s) # {}, NEW timeout \in Flag,
           NEW t, t = SecRun(s, f, i, timeout)
    PROVE  t \in Sys /\ t.refused = s.refused
<1> DEFINE j == Lowest(FreeDmxFilters(s))
           u == HookUp(s, f, i)
           v == SectionStartFiltering(u, i)
           w == Mark(v, f, GO)
<1>1. t = [v EXCEPT !.filter[f].state = GO, !.timer[f].pending = timeout] /\ u = HookUp(s, f, i)
      /\ v = SectionStartFiltering(u, i) /\ w = Mark(v, f, GO)
  BY DEF SecRun
<1> HIDE DEF u, v, w
<1>2. /\ u \in Sys /\ u.adapter = s.adapter /\ u.refused = s.refused /\ u.oops = s.oops
      /\ Linked(s, u, f, s.filter[f].sec, j)
      /\ u.feed = [s.feed EXCEPT ![i].filters = @ \cup {j}]
      /\ u.dmxfilter = [s.dmxfilter EXCEPT ![j] = [free |-> FALSE, feed |-> i, priv |-> f]]
  BY ONLY <1>1, s \in Sys, f \in Filters, i \in Feeds, FreeDmxFilters(s) # {}, HookUpIs
<1>3. v \in Sys /\ Rest(u, v)
  BY ONLY <1>1, <1>2, i \in Feeds, RunIs
<1>4. w \in Sys /\ Same(v, w)
  <2>1. GO \in States
    BY StateIs
  <2> QED
    BY ONLY <1>1, <1>3, <2>1, f \in Filters, MarkIs
<1>5. t \in Sys /\ Same(w, t)
  <2>1. t = Pend(w, f, timeout)
    BY <1>1, <1>3 DEF Pend, Mark, Sys
  <2> QED
    BY ONLY <2>1, <1>4, f \in Filters, timeout \in Flag, PendIs
<1> QED
  BY <1>2, <1>3, <1>4, <1>5 DEF Same, Rest

(* The halted feed runs for the new filter and for those that had it.    *)
LEMMA SecRunGood ==
    ASSUME NEW s \in Sys, NEW f \in Filters, NEW i \in Feeds, FreeDmxFilters(s) # {}, NEW timeout \in Flag,
           NEW t, t = SecRun(s, f, i, timeout),
           Good(s, i), ~On(s.filter[f]), s.filter[f].type = "sec", s.filter[f].sec = i,
           s.feed[i].pid = s.filter[f].pid,
           \A g \in Filters : SecOn(s, g) => (s.filter[g].pid = s.filter[f].pid <=> s.filter[g].sec = i)
    PROVE  Good(t, NULL)
<1> DEFINE j == Lowest(FreeDmxFilters(s))
           u == HookUp(s, f, i)
           m == Mark(u, f, GO)
           v == SectionStartFiltering(u, i)
           w == Mark(v, f, GO)
<1>1. j \in DmxFilters /\ s.dmxfilter[j].free
  BY FreesAre
<1>2. t = [v EXCEPT !.filter[f].state = GO, !.timer[f].pending = timeout] /\ u = HookUp(s, f, i)
      /\ v = SectionStartFiltering(u, i) /\ w = Mark(v, f, GO)
      /\ m = Mark(u, f, GO)
  BY DEF SecRun
<1> HIDE DEF u, v, w, m
<1>3. /\ u \in Sys /\ u.adapter = s.adapter /\ u.refused = s.refused /\ u.oops = s.oops
      /\ Linked(s, u, f, s.filter[f].sec, j)
      /\ u.feed = [s.feed EXCEPT ![i].filters = @ \cup {j}]
      /\ u.dmxfilter = [s.dmxfilter EXCEPT ![j] = [free |-> FALSE, feed |-> i, priv |-> f]]
  BY ONLY <1>2, s \in Sys, f \in Filters, i \in Feeds, FreeDmxFilters(s) # {}, HookUpIs
<1> HIDE DEF j
<1>4. GO \in States /\ \A r : r.state = GO => On(r)
  BY StateIs DEF On, GO
<1>5. m \in Sys /\ Same(u, m) /\ Marked(u, m, f, GO)
  BY ONLY <1>2, <1>3, <1>4, f \in Filters, MarkIs DEF Marked
<1>6. Good(m, i)
  <2>1. /\ On(m.filter[f]) /\ m.filter[f].type = "sec" /\ m.filter[f].sec = i /\ m.filter[f].secfilter = j
        /\ m.filter[f].ts = s.filter[f].ts /\ m.filter[f].pid = s.feed[i].pid
        /\ \A g \in Filters : g # f => m.filter[g] = s.filter[g]
    BY <1>3, <1>4, <1>5 DEF Marked, Linked
  <2>2. /\ m.adapter = s.adapter /\ m.oops = s.oops
        /\ m.feed = [s.feed EXCEPT ![i].filters = @ \cup {j}]
        /\ m.dmxfilter = [s.dmxfilter EXCEPT ![j] = [free |-> FALSE, feed |-> i, priv |-> f]]
    BY <1>3, <1>5 DEF Same
  <2>3. \A g \in Filters : SecOn(s, g) => (s.filter[g].pid = s.feed[i].pid <=> s.filter[g].sec = i)
    OBVIOUS
  <2> QED
    BY ONLY <1>1, <1>5, <2>1, <2>2, <2>3, s \in Sys, i \in Feeds, f \in Filters, Good(s, i),
            ~On(s.filter[f]), HookGood
<1>7. SecOn(m, f) /\ m.filter[f].sec = i
  BY <1>3, <1>4, <1>5 DEF SecOn, Marked, Linked
<1>8. u.feed[i].state # "go" /\ u.feed[i].filters # {}
  <2>1. m.feed[i].state = "ready" /\ m.filter[f].secfilter \in m.feed[i].filters
    BY <1>6, <1>7 DEF Good, Halted, Sections
  <2> QED
    BY <1>5, <2>1 DEF Same
<1>9. /\ v \in Sys /\ Rest(u, v) /\ v.dmxfilter = u.dmxfilter
      /\ v.feed = [u.feed EXCEPT ![i].state = "go"] /\ More(u.adapter, v.adapter, 1)
  <2>1. u \in Sys /\ v = SectionStartFiltering(u, i)
    BY <1>2, <1>3
  <2> QED
    BY ONLY <1>8, <2>1, i \in Feeds, RunIs
<1>10. w \in Sys /\ Same(v, w) /\ w.filter = m.filter
  <2>1. w \in Sys /\ Same(v, w)
    BY ONLY <1>2, <1>4, <1>9, f \in Filters, MarkIs
  <2>2. w.filter = [v.filter EXCEPT ![f].state = GO] /\ m.filter = [u.filter EXCEPT ![f].state = GO]
    BY <1>2, <1>3, <1>9 DEF Mark, Sys
  <2> QED
    BY <1>9, <2>1, <2>2 DEF Rest
<1>11. t \in Sys /\ Same(w, t) /\ t.filter = w.filter
  <2>1. t = Pend(w, f, timeout)
    BY <1>2, <1>9 DEF Pend, Mark, Sys
  <2> QED
    BY ONLY <2>1, <1>10, f \in Filters, timeout \in Flag, PendIs
<1>12. /\ t.filter = m.filter /\ t.feed = [m.feed EXCEPT ![i].state = "go"] /\ t.dmxfilter = m.dmxfilter
       /\ More(m.adapter, t.adapter, 1) /\ t.oops = m.oops
  BY <1>5, <1>9, <1>10, <1>11 DEF Same, Rest
<1> QED
  BY ONLY <1>5, <1>6, <1>7, <1>11, <1>12, f \in Filters, i \in Feeds, RunGood

---------------------------------------------------------------------------
(* Starting a section filter                                             *)

(* dvb_dmxdev_filter_start for a section filter, path by path.           *)
LEMMA SecStartSteps ==
    ASSUME NEW s0 \in Sys, NEW f \in Filters, NEW t, t = SecStart(s0, f), NEW s, s = Cleared(s0, f),
           NEW pid, pid = s0.filter[f].pid
    PROVE  /\ FeedToShare(s, pid) = NULL /\ FreeFeeds(s) = {} => t = s
           /\ FeedToShare(s, pid) = NULL /\ FreeFeeds(s) # {} /\ pid > MAX_PID =>
                t = FeedRestart(Take(s, f, Lowest(FreeFeeds(s)), pid), f)
           /\ FeedToShare(s, pid) = NULL /\ FreeFeeds(s) # {} /\ ~(pid > MAX_PID) =>
                t = Finish(Take(s, f, Lowest(FreeFeeds(s)), pid), f, Lowest(FreeFeeds(s)), s.filter[f].timeout)
           /\ FeedToShare(s, pid) # NULL =>
                t = Finish(Join(s, f, FeedToShare(s, pid)), f, FeedToShare(s, pid), s.filter[f].timeout)
BY Zenon DEF SecStart

(* The state before the search for a feed.                               *)
LEMMA ClearedIs ==
    ASSUME NEW s \in Sys, NEW f \in Filters, NEW t, t = Cleared(s, f)
    PROVE  t \in Sys /\ Same(s, t) /\ Linked(s, t, f, NULL, NULL)
<1> DEFINE u == Link(s, f, NULL, NULL)
<1>1. t = Fail(u, f, FALSE) /\ u = Link(s, f, NULL, NULL)
  BY DEF Cleared, Fail, Link, Sys
<1> HIDE DEF u
<1>2. u \in Sys /\ Same(s, u) /\ Linked(s, u, f, NULL, NULL)
  BY ONLY <1>1, s \in Sys, f \in Filters, LinkIs
<1>3. t \in Sys /\ Same(u, t) /\ t.filter = u.filter
  <2>1. t = Fail(u, f, FALSE) /\ u \in Sys /\ FALSE \in Flag
    BY <1>1, <1>2, FlagIs
  <2> QED
    BY ONLY <2>1, f \in Filters, FailIs
<1> QED
  BY <1>2, <1>3 DEF Same, Linked

(* An edit of a filter that is off and stays so.                           *)
LEMMA LinkGood ==
    ASSUME NEW s \in Sys, NEW t \in Sys, NEW f \in Filters, NEW i, NEW j, NEW h, Good(s, h),
           Same(s, t), Linked(s, t, f, i, j), ~On(s.filter[f])
    PROVE  Good(t, h) /\ ~On(t.filter[f])
<1>1. Blank(s.filter[f])
  BY OffIsBlank
<1>2. Blank(t.filter[f]) /\ ~On(t.filter[f])
  BY <1>1 DEF Blank, Linked, On
<1>3. \A x \in Filters : x # f => t.filter[x] = s.filter[x]
  BY DEF Linked
<1> QED
  BY ONLY <1>2, <1>3, s \in Sys, t \in Sys, f \in Filters, Good(s, h), Same(s, t), ~On(s.filter[f]), EditOff

(* The state when a free feed is allocated.                              *)
LEMMA TakeIs ==
    ASSUME NEW s \in Sys, NEW f \in Filters, NEW i \in Feeds, NEW pid \in Pids \cup {NoPid},
           NEW u, u = SetSec(s, f, i), NEW t, t = Take(s, f, i, pid)
    PROVE  /\ u \in Sys /\ Same(s, u) /\ Linked(s, u, f, i, s.filter[f].secfilter)
           /\ t \in Sys /\ Rest(u, t) /\ t.dmxfilter = u.dmxfilter /\ t.adapter = u.adapter
           /\ t.feed = [u.feed EXCEPT ![i] = [state |-> "ready", type |-> "sec",
                           pid |-> IF pid > MAX_PID THEN NoPid ELSE pid, priv |-> NULL, filters |-> {}]]
<1> DEFINE q == IF pid > MAX_PID THEN NoPid ELSE pid
<1>1. q \in Pids \cup {NoPid} /\ i \in Feeds \cup {NULL}
  OBVIOUS
<1>2. t = AllocateSectionFeed(u, i, q)
  BY DEF Take, SetSec
<1> HIDE DEF q
<1>3. u \in Sys /\ Same(s, u) /\ Linked(s, u, f, i, s.filter[f].secfilter)
  BY ONLY <1>1, s \in Sys, f \in Filters, u = SetSec(s, f, i), SetSecIs
<1>4. /\ t \in Sys /\ Rest(u, t) /\ t.dmxfilter = u.dmxfilter /\ t.adapter = u.adapter
      /\ t.feed = [u.feed EXCEPT ![i] = [state |-> "ready", type |-> "sec", pid |-> q,
                                        priv |-> NULL, filters |-> {}]]
  BY ONLY <1>1, <1>2, <1>3, i \in Feeds, AllocateIs
<1> QED
  BY <1>3, <1>4 DEF q

(* The state when the feed of another filter is halted to be shared.     *)
LEMMA JoinIs ==
    ASSUME NEW s \in Sys, NEW f \in Filters, NEW i \in Feeds,
           NEW u, u = SetSec(s, f, i), NEW t, t = Join(s, f, i)
    PROVE  /\ u \in Sys /\ Same(s, u) /\ Linked(s, u, f, i, s.filter[f].secfilter)
           /\ t \in Sys /\ Marked(u, t, f, SET) /\ t.refused = u.refused /\ t.oops = u.oops
           /\ t.dmxfilter = u.dmxfilter /\ t.feed = [u.feed EXCEPT ![i].state = "ready"]
           /\ Fewer(u.adapter, t.adapter, 1)
<1>1. i \in Feeds \cup {NULL}
  OBVIOUS
<1>2. t = SecFeedStop(u, f)
  BY DEF Join, SetSec
<1>3. u \in Sys /\ Same(s, u) /\ Linked(s, u, f, i, s.filter[f].secfilter)
  BY ONLY <1>1, s \in Sys, f \in Filters, u = SetSec(s, f, i), SetSecIs
<1>4. u.filter[f].sec = i
  BY <1>3 DEF Linked
<1>5. /\ t \in Sys /\ Marked(u, t, f, SET) /\ t.refused = u.refused /\ t.oops = u.oops
      /\ t.dmxfilter = u.dmxfilter /\ t.feed = [u.feed EXCEPT ![u.filter[f].sec].state = "ready"]
      /\ Fewer(u.adapter, t.adapter, 1)
  <2>1. u \in Sys /\ u.filter[f].sec \in Feeds
    BY <1>3, <1>4
  <2> QED
    BY ONLY <1>2, <2>1, f \in Filters, SecFeedStopIs
<1> QED
  BY <1>3, <1>4, <1>5

(* The state when a section filter could be had, or not.                 *)
LEMMA FinishIs ==
    ASSUME NEW s \in Sys, NEW f \in Filters, NEW i \in Feeds, s.filter[f].sec \in Feeds, NEW timeout \in Flag,
           NEW t, t = Finish(s, f, i, timeout)
    PROVE  t \in Sys /\ t.refused = s.refused
<1>1. CASE FreeDmxFilters(s) = {}
  <2> DEFINE u == FeedRestart(s, f)
  <2>1. t = SectionStartFiltering(u, i) /\ u = FeedRestart(s, f)
    BY <1>1 DEF Finish
  <2> HIDE DEF u
  <2>2. u \in Sys /\ u.refused = s.refused
    BY ONLY <2>1, s \in Sys, f \in Filters, s.filter[f].sec \in Feeds, RestartIs
  <2>3. t \in Sys /\ Rest(u, t)
    BY ONLY <2>1, <2>2, i \in Feeds, RunIs
  <2> QED
    BY <2>2, <2>3 DEF Rest
<1>2. CASE FreeDmxFilters(s) # {}
  <2>1. t = SecRun(s, f, i, timeout)
    BY <1>2 DEF Finish
  <2> QED
    BY ONLY <1>2, <2>1, s \in Sys, f \in Filters, i \in Feeds, timeout \in Flag, SecRunIs
<1> QED
  BY <1>1, <1>2

(* The end keeps the invariant, whether a section filter was free or     *)
(* not.                                                                  *)
LEMMA FinishGood ==
    ASSUME NEW s \in Sys, NEW f \in Filters, NEW i \in Feeds, s.filter[f].sec = i, NEW timeout \in Flag,
           NEW t, t = Finish(s, f, i, timeout),
           Good(s, i), ~On(s.filter[f]), s.filter[f].type = "sec",
           s.feed[i].pid = s.filter[f].pid,
           \A g \in Filters : SecOn(s, g) => (s.filter[g].pid = s.filter[f].pid <=> s.filter[g].sec = i)
    PROVE  Good(t, NULL)
<1>1. CASE FreeDmxFilters(s) = {}
  <2> DEFINE u == FeedRestart(s, f)
  <2>1. t = SectionStartFiltering(u, i) /\ u = FeedRestart(s, f)
    BY <1>1 DEF Finish
  <2> HIDE DEF u
  <2>2. u \in Sys /\ u.refused = s.refused
    BY ONLY <2>1, s \in Sys, f \in Filters, s.filter[f].sec = i, i \in Feeds, RestartIs
  <2>3. Good(u, NULL) /\ (u.feed[i].state = "go" \/ u.feed[i].filters = {})
    BY <2>1, RestartGood
  <2>4. t = u
    <3>1. t = SectionStartFiltering(u, i) /\ u \in Sys
      BY <2>1, <2>2
    <3>2. (u.feed[i].state = "go" \/ u.feed[i].filters = {}) => t = u
      BY ONLY <3>1, i \in Feeds, RunIs
    <3> QED
      BY <2>3, <3>2
  <2> QED
    BY <2>3, <2>4
<1>2. CASE FreeDmxFilters(s) # {}
  <2>1. t = SecRun(s, f, i, timeout)
    BY <1>2 DEF Finish
  <2> QED
    BY <1>2, <2>1, SecRunGood
<1> QED
  BY <1>1, <1>2

(* dvb_dmxdev_filter_start for a section filter: the state it leaves on  *)
(* each path.                                                            *)
LEMMA SecStartIs ==
    ASSUME NEW s0 \in Sys, NEW f \in Filters, NEW t, t = SecStart(s0, f)
    PROVE  t \in Sys /\ t.refused = s0.refused
<1> DEFINE s == Cleared(s0, f)
           pid == s0.filter[f].pid
           shared == FeedToShare(s, pid)
           i == Lowest(FreeFeeds(s))
           new == Take(s, f, i, pid)
           got == Join(s, f, shared)
           timeout == s.filter[f].timeout
<1>1. s = Cleared(s0, f) /\ pid = s0.filter[f].pid /\ new = Take(s, f, i, pid) /\ got = Join(s, f, shared)
  OBVIOUS
<1>2. /\ shared = NULL /\ FreeFeeds(s) = {} => t = s
      /\ shared = NULL /\ FreeFeeds(s) # {} /\ pid > MAX_PID => t = FeedRestart(new, f)
      /\ shared = NULL /\ FreeFeeds(s) # {} /\ ~(pid > MAX_PID) => t = Finish(new, f, i, timeout)
      /\ shared # NULL => t = Finish(got, f, shared, timeout)
  BY SecStartSteps
<1> HIDE DEF s, pid, new, got
<1>3. s \in Sys /\ Same(s0, s)
  BY ONLY <1>1, s0 \in Sys, f \in Filters, ClearedIs
<1>4. s.filter[f] \in FilterRec /\ s0.filter[f] \in FilterRec
  BY <1>3, SysParts
<1>5. timeout \in Flag /\ pid \in Pids \cup {NoPid}
  BY <1>1, <1>4 DEF FilterRec
<1>6. shared \in Feeds \cup {NULL}
  <2>1. CASE Active(s, pid) = {}
    BY <2>1 DEF FeedToShare
  <2>2. CASE Active(s, pid) # {}
    <3> DEFINE a == Lowest(Active(s, pid))
    <3>1. a \in Filters
      BY <2>2, ActiveIs
    <3>2. shared = s.filter[a].sec
      BY <2>2 DEF FeedToShare
    <3> HIDE DEF a
    <3>3. s.filter[a] \in FilterRec
      BY <1>3, <3>1, SysParts
    <3> QED
      BY <3>2, <3>3 DEF FilterRec
  <2> QED
    BY <2>1, <2>2
<1> HIDE DEF shared, timeout
<1>7. CASE shared = NULL /\ FreeFeeds(s) = {}
  BY <1>2, <1>3, <1>7 DEF Same
<1>8. CASE shared = NULL /\ FreeFeeds(s) # {}
  <2>1. i \in Feeds
    BY <1>8, FreesAre
  <2> HIDE DEF i
  <2>2. new \in Sys /\ new.refused = s.refused /\ new.filter[f].sec = i
    <3> DEFINE u == SetSec(s, f, i)
    <3>1. u = SetSec(s, f, i)
      OBVIOUS
    <3> HIDE DEF u
    <3>2. /\ u \in Sys /\ Same(s, u) /\ Linked(s, u, f, i, s.filter[f].secfilter)
          /\ new \in Sys /\ Rest(u, new)
      <4>1. s \in Sys /\ new = Take(s, f, i, pid) /\ pid \in Pids \cup {NoPid}
        BY <1>1, <1>3, <1>5
      <4> QED
        BY ONLY <2>1, <3>1, <4>1, f \in Filters, TakeIs
    <3> QED
      BY <3>2 DEF Same, Linked, Rest
  <2>3. new.filter[f].sec \in Feeds
    BY <2>1, <2>2
  <2>4. CASE pid > MAX_PID
    <3>1. t = FeedRestart(new, f)
      BY <1>2, <1>8, <2>4
    <3>2. t \in Sys /\ t.refused = new.refused
      BY ONLY <2>2, <2>3, <3>1, f \in Filters, RestartIs
    <3> QED
      BY <1>3, <2>2, <3>2 DEF Same
  <2>5. CASE ~(pid > MAX_PID)
    <3>1. t = Finish(new, f, i, timeout)
      BY <1>2, <1>8, <2>5
    <3>2. t \in Sys /\ t.refused = new.refused
      <4>1. new \in Sys
        BY <2>2
      <4> QED
        BY ONLY <1>5, <2>1, <2>3, <3>1, <4>1, f \in Filters, FinishIs
    <3> QED
      BY <1>3, <2>2, <3>2 DEF Same
  <2> QED
    BY <2>4, <2>5
<1>9. CASE shared # NULL
  <2>1. shared \in Feeds /\ t = Finish(got, f, shared, timeout)
    BY <1>2, <1>6, <1>9
  <2>2. got \in Sys /\ got.refused = s.refused /\ got.filter[f].sec = shared
    <3> DEFINE u == SetSec(s, f, shared)
    <3>1. u = SetSec(s, f, shared)
      OBVIOUS
    <3> HIDE DEF u
    <3>2. /\ u \in Sys /\ Same(s, u) /\ Linked(s, u, f, shared, s.filter[f].secfilter)
          /\ got \in Sys /\ Marked(u, got, f, SET) /\ got.refused = u.refused /\ got.oops = u.oops
          /\ got.dmxfilter = u.dmxfilter /\ got.feed = [u.feed EXCEPT ![shared].state = "ready"]
          /\ Fewer(u.adapter, got.adapter, 1)
      <4>1. s \in Sys /\ got = Join(s, f, shared) /\ shared \in Feeds
        BY <1>1, <1>3, <2>1
      <4> QED
        BY ONLY <3>1, <4>1, f \in Filters, JoinIs
    <3> QED
      BY <3>2 DEF Same, Linked, Marked
  <2>3. t \in Sys /\ t.refused = got.refused
    <3>1. got \in Sys /\ got.filter[f].sec \in Feeds
      BY <2>1, <2>2
    <3> QED
      BY ONLY <1>5, <2>1, <3>1, f \in Filters, FinishIs
  <2> QED
    BY <1>3, <2>2, <2>3 DEF Same
<1> QED
  BY <1>7, <1>8, <1>9

(* What a section filter needs of its halted feed to start on it.          *)
Ready(s, f, i) ==
    /\ s \in Sys /\ Good(s, i) /\ ~On(s.filter[f]) /\ s.filter[f].type = "sec" /\ s.filter[f].sec = i
    /\ \A g \in Filters : SecOn(s, g) => (s.filter[g].pid = s.filter[f].pid <=> s.filter[g].sec = i)

(* It joins the feed of the active filters on its PID ...                  *)
LEMMA JoinReady ==
    ASSUME NEW s \in Sys, NEW f \in Filters, Good(s, NULL), ~On(s.filter[f]), s.filter[f].type = "sec",
           NEW a \in Filters, SecOn(s, a), s.filter[a].pid = s.filter[f].pid,
           NEW i, i = s.filter[a].sec, NEW t, t = Join(s, f, i)
    PROVE  Ready(t, f, i) /\ t.feed[i].pid = t.filter[f].pid /\ i \in Feeds
<1> DEFINE u == SetSec(s, f, i)
           p == SectionStopFiltering(u, i)
<1>1. u = SetSec(s, f, i) /\ p = SectionStopFiltering(u, i)
  OBVIOUS
<1> HIDE DEF u, p
<1>2. i \in Feeds /\ s.feed[i].state = "go" /\ s.feed[i].type = "sec" /\ s.feed[i].pid = s.filter[f].pid
  BY PoolsAre DEF Good, Sections
<1>3. /\ u \in Sys /\ Same(s, u) /\ Linked(s, u, f, i, s.filter[f].secfilter)
      /\ t \in Sys /\ Marked(u, t, f, SET) /\ t.refused = u.refused /\ t.oops = u.oops
      /\ t.dmxfilter = u.dmxfilter /\ t.feed = [u.feed EXCEPT ![i].state = "ready"]
      /\ Fewer(u.adapter, t.adapter, 1)
  <2>1. u = SetSec(s, f, i) /\ i \in Feeds
    BY <1>1, <1>2
  <2> QED
    BY ONLY <2>1, s \in Sys, f \in Filters, t = Join(s, f, i), JoinIs
<1>4. Good(u, NULL) /\ ~On(u.filter[f])
  BY <1>3, LinkGood
<1>5. /\ p \in Sys /\ Rest(u, p) /\ p.dmxfilter = u.dmxfilter
      /\ p.feed = [u.feed EXCEPT ![i].state = "ready"]
      /\ Fewer(u.adapter, p.adapter, 1)
  <2>1. p = SectionStopFiltering(u, i) /\ i \in Feeds /\ u \in Sys
    BY <1>1, <1>2, <1>3, Zenon
  <2> QED
    BY ONLY <2>1, HaltIs
<1>6. Good(p, i)
  <2>1. /\ u.feed[i].state = "go" /\ u.feed[i].type = "sec" /\ p.filter = u.filter /\ p.oops = u.oops
        /\ i \in Feeds /\ u \in Sys
    BY <1>2, <1>3, <1>5 DEF Same, Rest
  <2> QED
    BY ONLY <1>4, <1>5, <2>1, HaltGood
<1>7. p.adapter = t.adapter
  BY <1>3, <1>5, SysParts, FewerSame
<1>9. ~On(t.filter[f])
  <2>1. t.filter[f].state = SET
    BY <1>3, Zenon DEF Marked
  <2> QED
    BY ONLY <2>1, StateIs DEF On
<1>10. Good(t, i)
  <2>1. Same(p, t)
    BY <1>3, <1>5, <1>7 DEF Same, Rest
  <2>2. ~On(p.filter[f]) /\ \A x \in Filters : x # f => t.filter[x] = p.filter[x]
    BY ONLY <1>3, <1>4, <1>5, Zenon DEF Rest, Marked
  <2>3. Blank(p.filter[f])
    BY <1>6, <2>2, OffIsBlank
  <2>4. Blank(t.filter[f])
    <3>1. t.filter[f].ts = p.filter[f].ts
      BY ONLY <1>3, <1>5, Zenon DEF Rest, Marked
    <3> QED
      BY <2>3, <3>1 DEF Blank
  <2>5. p \in Sys /\ t \in Sys
    BY <1>3, <1>5
  <2> QED
    BY ONLY <1>6, <1>9, <2>1, <2>2, <2>4, <2>5, f \in Filters, EditOff
<1>11. t.filter[f].type = "sec" /\ t.filter[f].sec = i /\ t.filter[f].pid = s.filter[f].pid
       /\ \A x \in Filters : x # f => t.filter[x] = s.filter[x]
  BY <1>3, Zenon DEF Marked, Linked
<1>12. \A g \in Filters : SecOn(t, g) => (t.filter[g].pid = t.filter[f].pid <=> t.filter[g].sec = i)
  <2> SUFFICES ASSUME NEW g \in Filters, SecOn(t, g)
               PROVE  t.filter[g].pid = t.filter[f].pid <=> t.filter[g].sec = i
    OBVIOUS
  <2>1. g # f
    BY <1>9 DEF SecOn
  <2>2. t.filter[g] = s.filter[g]
    BY <1>11, <2>1
  <2>3. SecOn(s, g)
    BY <2>2 DEF SecOn
  <2>4. s.filter[g].pid = s.filter[a].pid <=> s.filter[g].sec = s.filter[a].sec
    BY <2>3, PidShared
  <2> QED
    BY <1>11, <2>2, <2>4
<1>13. t.feed[i].pid = t.filter[f].pid
  <2>1. u.feed \in [Feeds -> FeedRec] /\ u.feed[i] \in FeedRec
    BY ONLY <1>2, <1>3, SysParts
  <2>2. t.feed[i] = [u.feed[i] EXCEPT !.state = "ready"]
    BY ONLY <1>2, <1>3, <2>1
  <2>3. t.feed[i].pid = u.feed[i].pid
    BY <2>1, <2>2 DEF FeedRec
  <2> QED
    BY ONLY <1>2, <1>3, <1>11, <2>3, Zenon DEF Same
<1> QED
  BY ONLY <1>2, <1>3, <1>9, <1>10, <1>11, <1>12, <1>13, Zenon DEF Ready

(* ... or takes one that is free, when there are none.                     *)
LEMMA TakeReady ==
    ASSUME NEW s \in Sys, NEW f \in Filters, Good(s, NULL), ~On(s.filter[f]), s.filter[f].type = "sec",
           NEW pid \in Pids \cup {NoPid}, pid = s.filter[f].pid,
           \A g \in Filters : SecOn(s, g) => s.filter[g].pid # pid,
           NEW i \in Feeds, s.feed[i].state = "free", NEW t, t = Take(s, f, i, pid)
    PROVE  Ready(t, f, i) /\ t.feed[i].pid = IF pid > MAX_PID THEN NoPid ELSE t.filter[f].pid
<1> DEFINE u == SetSec(s, f, i)
           q == IF pid > MAX_PID THEN NoPid ELSE pid
<1>1. u = SetSec(s, f, i) /\ q = IF pid > MAX_PID THEN NoPid ELSE pid
  OBVIOUS
<1> HIDE DEF u
<1>2. /\ u \in Sys /\ Same(s, u) /\ Linked(s, u, f, i, s.filter[f].secfilter)
      /\ t \in Sys /\ Rest(u, t) /\ t.dmxfilter = u.dmxfilter /\ t.adapter = u.adapter
      /\ t.feed = [u.feed EXCEPT ![i] = [state |-> "ready", type |-> "sec", pid |-> q,
                                        priv |-> NULL, filters |-> {}]]
  BY ONLY <1>1, s \in Sys, f \in Filters, i \in Feeds, pid \in Pids \cup {NoPid}, t = Take(s, f, i, pid), TakeIs
<1> HIDE DEF q
<1>3. Good(u, NULL) /\ ~On(u.filter[f])
  BY <1>2, LinkGood
<1>4. Good(t, i) /\ \A g \in Filters : SecOn(t, g) => t.filter[g].sec # i
  <2>1. u \in Sys /\ t \in Sys /\ u.feed[i].state = "free" /\ t.filter = u.filter /\ t.oops = u.oops
    BY <1>2 DEF Same, Rest
  <2> QED
    BY ONLY SMTT(20), <1>2, <1>3, <2>1, i \in Feeds, NewGood
<1>5. t.filter[f].type = "sec" /\ t.filter[f].sec = i /\ t.filter[f].pid = s.filter[f].pid /\ ~On(t.filter[f])
      /\ \A x \in Filters : x # f => t.filter[x] = s.filter[x]
  BY <1>2, <1>3 DEF Linked, Rest
<1>6. \A g \in Filters : SecOn(t, g) => t.filter[g].pid # t.filter[f].pid
  <2> SUFFICES ASSUME NEW g \in Filters, SecOn(t, g) PROVE t.filter[g].pid # t.filter[f].pid
    OBVIOUS
  <2>1. g # f
    BY <1>5 DEF SecOn
  <2>2. t.filter[g] = s.filter[g]
    BY <1>5, <2>1
  <2>3. SecOn(s, g)
    BY <2>2 DEF SecOn
  <2> QED
    BY <1>5, <2>2, <2>3
<1>7. t.feed[i].pid = q
  BY <1>2, SysParts
<1> QED
  BY <1>1, <1>2, <1>4, <1>5, <1>6, <1>7, Zenon DEF Ready

(* On every path the invariant holds again.                              *)
LEMMA SecStartGood ==
    ASSUME NEW s0 \in Sys, NEW f \in Filters, Good(s0, NULL), ~On(s0.filter[f]), s0.filter[f].type = "sec",
           NEW t, t = SecStart(s0, f)
    PROVE  Good(t, NULL)
<1> DEFINE s == Cleared(s0, f)
           pid == s0.filter[f].pid
           shared == FeedToShare(s, pid)
           i == Lowest(FreeFeeds(s))
           new == Take(s, f, i, pid)
           got == Join(s, f, shared)
           timeout == s.filter[f].timeout
<1>1. s = Cleared(s0, f) /\ pid = s0.filter[f].pid /\ new = Take(s, f, i, pid) /\ got = Join(s, f, shared)
  OBVIOUS
<1>2. /\ shared = NULL /\ FreeFeeds(s) = {} => t = s
      /\ shared = NULL /\ FreeFeeds(s) # {} /\ pid > MAX_PID => t = FeedRestart(new, f)
      /\ shared = NULL /\ FreeFeeds(s) # {} /\ ~(pid > MAX_PID) => t = Finish(new, f, i, timeout)
      /\ shared # NULL => t = Finish(got, f, shared, timeout)
  BY SecStartSteps
<1> HIDE DEF s, pid, new, got
<1>3. s \in Sys /\ Same(s0, s) /\ Linked(s0, s, f, NULL, NULL)
  BY ONLY <1>1, s0 \in Sys, f \in Filters, ClearedIs
<1>4. s.filter[f] \in FilterRec /\ s0.filter[f] \in FilterRec
  BY <1>3, SysParts
<1>5. timeout \in Flag /\ pid \in Pids \cup {NoPid}
  BY <1>1, <1>4 DEF FilterRec
<1>6. Good(s, NULL) /\ ~On(s.filter[f])
  BY <1>3, LinkGood
<1>7. s.filter[f].type = "sec" /\ pid = s.filter[f].pid
  BY <1>1, <1>3 DEF Linked
<1>8. CASE Active(s, pid) # {}
  <2> DEFINE a == Lowest(Active(s, pid))
  <2>1. a \in Filters /\ SecOn(s, a) /\ s.filter[a].pid = pid
    BY <1>8, ActiveIs
  <2>2. shared = s.filter[a].sec
    BY <1>8 DEF FeedToShare
  <2> HIDE DEF a, shared, timeout
  <2>3. Ready(got, f, shared) /\ got.feed[shared].pid = got.filter[f].pid /\ shared \in Feeds
    <3>1. s \in Sys /\ got = Join(s, f, shared) /\ s.filter[a].pid = s.filter[f].pid
      BY <1>1, <1>3, <1>7, <2>1
    <3> QED
      BY ONLY <1>6, <1>7, <2>1, <2>2, <3>1, f \in Filters, JoinReady
  <2>4. t = Finish(got, f, shared, timeout)
    BY <1>2, <2>3, PoolsAre
  <2> QED
    BY <1>5, <2>3, <2>4, FinishGood DEF Ready
<1>9. CASE Active(s, pid) = {}
  <2>1. shared = NULL
    BY <1>9 DEF FeedToShare
  <2>2. \A g \in Filters : SecOn(s, g) => s.filter[g].pid # pid
    BY <1>9 DEF Active, SecOn, On
  <2> HIDE DEF shared, timeout
  <2>3. CASE FreeFeeds(s) = {}
    BY <1>2, <1>6, <2>1, <2>3
  <2>4. CASE FreeFeeds(s) # {}
    <3>1. i \in Feeds /\ s.feed[i].state = "free"
      BY <2>4, FreesAre
    <3> HIDE DEF i
    <3>2. Ready(new, f, i) /\ new.feed[i].pid = IF pid > MAX_PID THEN NoPid ELSE new.filter[f].pid
      <4>1. s \in Sys /\ new = Take(s, f, i, pid) /\ pid \in Pids \cup {NoPid}
        BY <1>1, <1>3, <1>5
      <4> QED
        BY ONLY <1>6, <1>7, <2>2, <3>1, <4>1, f \in Filters, TakeReady
    <3>3. CASE pid > MAX_PID
      <4>1. t = FeedRestart(new, f)
        BY <1>2, <2>1, <2>4, <3>3
      <4> QED
        BY <3>1, <3>2, <4>1, RestartGood DEF Ready
    <3>4. CASE ~(pid > MAX_PID)
      <4>1. t = Finish(new, f, i, timeout)
        BY <1>2, <2>1, <2>4, <3>4
      <4>2. new.feed[i].pid = new.filter[f].pid
        BY <3>2, <3>4
      <4> QED
        BY <1>5, <3>1, <3>2, <4>1, <4>2, FinishGood DEF Ready
    <3> QED
      BY <3>3, <3>4
  <2> QED
    BY <2>3, <2>4
<1> QED
  BY <1>8, <1>9

---------------------------------------------------------------------------
(* TS feeds                                                              *)

(* dmx_ts_feed_stop_filtering for a set of feeds: those that ran are     *)
(* allocated, and the counter has gone down by their number.             *)
LEMMA TsStopIs ==
    ASSUME NEW s \in Sys, NEW S \in SUBSET Feeds, NEW t, t = TsStopFiltering(s, S)
    PROVE  /\ t \in Sys /\ Rest(s, t) /\ t.dmxfilter = s.dmxfilter
           /\ \A x \in Feeds :
                /\ t.feed[x].filters = s.feed[x].filters
                /\ t.feed[x].state = "free" <=> s.feed[x].state = "free"
                /\ x \notin S => t.feed[x] = s.feed[x]
           /\ Fewer(s.adapter, t.adapter, Cardinality({x \in S : s.feed[x].state = "go"}))
<1> DEFINE going == {x \in S : s.feed[x].state = "go"}
           F == [i \in Feeds |-> IF i \in going THEN [s.feed[i] EXCEPT !.state = "allocated"] ELSE s.feed[i]]
           u == [s EXCEPT !.feed = F]
<1>1. s.feed \in [Feeds -> FeedRec]
  BY SysParts
<1>2. \A x \in Feeds : [s.feed[x] EXCEPT !.state = "allocated"] \in FeedRec
  BY <1>1, FeedWith
<1>3. F \in [Feeds -> FeedRec]
  BY <1>1, <1>2
<1>4. ASSUME NEW x \in Feeds
      PROVE  /\ F[x].filters = s.feed[x].filters
             /\ F[x].state = "free" <=> s.feed[x].state = "free"
             /\ x \notin S => F[x] = s.feed[x]
  <2>1. s.feed[x] \in FeedRec
    BY <1>1
  <2>2. CASE x \in going
    <3>1. F[x] = [s.feed[x] EXCEPT !.state = "allocated"]
      BY <2>2
    <3>2. F[x].filters = s.feed[x].filters /\ F[x].state = "allocated"
      BY <2>1, <3>1 DEF FeedRec
    <3> HIDE DEF F
    <3> QED
      BY <2>2, <3>2
  <2>3. CASE x \notin going
    BY <2>3
  <2> QED
    BY <2>2, <2>3
<1>5. t = stop_feed(u, Cardinality(going))
  BY DEF TsStopFiltering
<1>6. Cardinality(going) \in Int
  <2>1. IsFiniteSet(going)
    BY PoolsAre, FS_Subset
  <2> QED
    BY <2>1, FS_CardinalityType
<1> HIDE DEF F
<1>7. u \in Sys
  BY <1>3, SysWith
<1>8. u.feed = F /\ Rest(s, u) /\ u.dmxfilter = s.dmxfilter /\ u.adapter = s.adapter
  BY DEF Rest, Sys
<1> HIDE DEF u, going
<1>9. /\ t \in Sys /\ Fewer(u.adapter, t.adapter, Cardinality(going))
      /\ t.filter = u.filter /\ t.feed = u.feed /\ t.dmxfilter = u.dmxfilter
      /\ t.refused = u.refused /\ t.oops = u.oops
  BY ONLY <1>5, <1>6, <1>7, StopFeedIs
<1>10. Rest(s, t) /\ t.dmxfilter = s.dmxfilter /\ t.feed = F /\ u.adapter = s.adapter
  BY <1>8, <1>9 DEF Rest
<1> QED
  BY <1>4, <1>9, <1>10 DEF going

(* The feeds in S and their section filters are free.                      *)
Detached(s, t, S) ==
    /\ \A x \in Feeds : IF x \in S THEN t.feed[x] = FreeFeed ELSE t.feed[x] = s.feed[x]
    /\ \A j \in DmxFilters : IF \E x \in S : j \in s.feed[x].filters
                             THEN t.dmxfilter[j] = FreeDmxFilter ELSE t.dmxfilter[j] = s.dmxfilter[j]
    /\ Fewer(s.adapter, t.adapter, Cardinality(S)) /\ t.oops = s.oops

(* dvbdmx_release_ts_feed for a set of feeds: they and their section     *)
(* filters are free.                                                     *)
LEMMA ReleaseTsIs ==
    ASSUME NEW s \in Sys, NEW S \in SUBSET Feeds, NEW t, t = ReleaseTsFeed(s, S)
    PROVE  /\ t \in Sys /\ t.filter = s.filter /\ t.refused = s.refused /\ t.adapter = s.adapter
           /\ \A x \in Feeds : t.feed[x] = IF x \in S /\ s.feed[x].state # "free" THEN FreeFeed ELSE s.feed[x]
           /\ \A j \in DmxFilters :
                t.dmxfilter[j] = IF \E x \in S : s.feed[x].state # "free" /\ j \in s.feed[x].filters
                                 THEN FreeDmxFilter ELSE s.dmxfilter[j]
           /\ (\A x \in S : s.feed[x].filters # {}) => t.oops = s.oops
<1> DEFINE used == {i \in S : s.feed[i].state # "free"}
           F == [i \in Feeds |-> IF i \in used THEN FreeFeed ELSE s.feed[i]]
           D == [j \in DmxFilters |-> IF \E i \in used : j \in s.feed[i].filters
                                      THEN FreeDmxFilter ELSE s.dmxfilter[j]]
           O == s.oops \/ \E i \in used : s.feed[i].filters = {}
           u == [s EXCEPT !.feed = F]
           v == [u EXCEPT !.dmxfilter = D]
<1>1. s.feed \in [Feeds -> FeedRec] /\ s.dmxfilter \in [DmxFilters -> DmxRec] /\ s.oops \in Flag
  BY SysParts
<1>2. F \in [Feeds -> FeedRec]
  BY <1>1, FreshAre
<1>3. D \in [DmxFilters -> DmxRec]
  BY <1>1, FreshAre
<1>4. O \in Flag
  BY DEF Flag
<1>5. (\A x \in S : s.feed[x].filters # {}) => O = s.oops
  <2> SUFFICES ASSUME \A x \in S : s.feed[x].filters # {} PROVE O = s.oops
    OBVIOUS
  <2>1. ~\E i \in used : s.feed[i].filters = {}
    OBVIOUS
  <2> QED
    BY <1>1, <2>1, Zenon DEF Flag
<1>6. t = [s EXCEPT !.feed = F, !.dmxfilter = D, !.oops = O]
  BY DEF ReleaseTsFeed
<1>7. \A x \in Feeds : F[x] = IF x \in S /\ s.feed[x].state # "free" THEN FreeFeed ELSE s.feed[x]
  OBVIOUS
<1>8. \A j \in DmxFilters :
        D[j] = IF \E x \in S : s.feed[x].state # "free" /\ j \in s.feed[x].filters
               THEN FreeDmxFilter ELSE s.dmxfilter[j]
  OBVIOUS
<1> HIDE DEF F, D, O
<1>9. t = [v EXCEPT !.oops = O]
  BY <1>6 DEF Sys
<1>10. u \in Sys
  BY <1>2, SysWith
<1>11. v \in Sys
  BY <1>3, <1>10, SysWith
<1>12. t \in Sys
  BY <1>4, <1>9, <1>11, SysWith
<1>13. /\ t.filter = s.filter /\ t.refused = s.refused /\ t.adapter = s.adapter
       /\ t.feed = F /\ t.dmxfilter = D /\ t.oops = O
  BY <1>6 DEF Sys
<1> QED
  BY <1>5, <1>7, <1>8, <1>12, <1>13

(* The feeds of a set are stopped and released.                          *)
LEMMA DetachIs ==
    ASSUME NEW s \in Sys, NEW S \in SUBSET Feeds, NEW t, t = ReleaseTsFeed(TsStopFiltering(s, S), S)
    PROVE  /\ t \in Sys /\ t.filter = s.filter /\ t.refused = s.refused
           /\ (\A x \in S : s.feed[x].state = "go" /\ s.feed[x].filters # {}) => Detached(s, t, S)
<1> DEFINE u == TsStopFiltering(s, S)
<1>1. u = TsStopFiltering(s, S) /\ t = ReleaseTsFeed(u, S)
  OBVIOUS
<1> HIDE DEF u
<1>2. /\ u \in Sys /\ Rest(s, u) /\ u.dmxfilter = s.dmxfilter
      /\ \A x \in Feeds :
                /\ u.feed[x].filters = s.feed[x].filters
                /\ u.feed[x].state = "free" <=> s.feed[x].state = "free"
                /\ x \notin S => u.feed[x] = s.feed[x]
      /\ Fewer(s.adapter, u.adapter, Cardinality({x \in S : s.feed[x].state = "go"}))
  <2>1. u = TsStopFiltering(s, S)
    BY <1>1
  <2> QED
    BY ONLY <2>1, s \in Sys, S \in SUBSET Feeds, TsStopIs
<1>3. /\ t \in Sys /\ t.filter = u.filter /\ t.refused = u.refused /\ t.adapter = u.adapter
      /\ \A x \in Feeds : t.feed[x] = IF x \in S /\ u.feed[x].state # "free" THEN FreeFeed ELSE u.feed[x]
      /\ \A j \in DmxFilters :
                t.dmxfilter[j] = IF \E x \in S : u.feed[x].state # "free" /\ j \in u.feed[x].filters
                                 THEN FreeDmxFilter ELSE u.dmxfilter[j]
      /\ (\A x \in S : u.feed[x].filters # {}) => t.oops = u.oops
  <2>1. t = ReleaseTsFeed(u, S) /\ u \in Sys
    BY <1>1, <1>2
  <2> QED
    BY ONLY <2>1, S \in SUBSET Feeds, ReleaseTsIs
<1>4. ASSUME \A x \in S : s.feed[x].state = "go" /\ s.feed[x].filters # {}
      PROVE  Detached(s, t, S)
  <2>1. {x \in S : s.feed[x].state = "go"} = S
    BY <1>4
  <2>2. Fewer(s.adapter, t.adapter, Cardinality(S))
    BY <1>2, <1>3, <2>1
  <2>3. t.oops = s.oops
    BY <1>2, <1>3, <1>4 DEF Rest
  <2>4. \A x \in S : x \in Feeds /\ u.feed[x].state # "free" /\ u.feed[x].filters = s.feed[x].filters
    BY <1>2, <1>4
  <2>5. \A x \in Feeds : IF x \in S THEN t.feed[x] = FreeFeed ELSE t.feed[x] = s.feed[x]
    BY <1>2, <1>3, <2>4
  <2>6. ASSUME NEW j \in DmxFilters
        PROVE  IF \E x \in S : j \in s.feed[x].filters
               THEN t.dmxfilter[j] = FreeDmxFilter ELSE t.dmxfilter[j] = s.dmxfilter[j]
    <3>1. (\E x \in S : u.feed[x].state # "free" /\ j \in u.feed[x].filters) <=>
          (\E x \in S : j \in s.feed[x].filters)
      BY <2>4
    <3> QED
      BY <1>2, <1>3, <3>1
  <2> QED
    BY <2>2, <2>3, <2>5, <2>6 DEF Detached
<1> QED
  BY <1>2, <1>3, <1>4 DEF Rest

(* Some feeds of a running TS filter go, with what names them.             *)
LEMMA DetachGood ==
    ASSUME NEW s \in Sys, NEW t \in Sys, Good(s, NULL), NEW f \in Filters, PesOn(s, f),
           NEW S \in SUBSET Feeds, Detached(s, t, S), \A x \in S : Names(s.filter[f].ts, x),
           \A g \in Filters : g # f => t.filter[g] = s.filter[g],
           On(t.filter[f]) => t.filter[f].type = "pes",
           ~PesOn(t, f) => Blank(t.filter[f]),
           PesOn(t, f) => Serves(t.feed, t.filter[f].ts, f),
           \A x \in Feeds : Names(s.filter[f].ts, x) /\ x \notin S => PesOn(t, f) /\ Names(t.filter[f].ts, x)
    PROVE  Good(t, NULL)
<1>1. /\ \A x \in S : t.feed[x].state = "free" /\ t.feed[x].filters = {}
      /\ \A x \in Feeds : x \notin S => t.feed[x] = s.feed[x]
  BY DEF Detached, FreeFeed
<1>2. /\ \A x \in S : \A j \in DmxFilters : j \in s.feed[x].filters => t.dmxfilter[j].free
      /\ \A j \in DmxFilters : (\A x \in S : j \notin s.feed[x].filters) => t.dmxfilter[j] = s.dmxfilter[j]
  BY DEF Detached, FreeDmxFilter
<1>3. \A x \in S : s.feed[x].state = "go" /\ s.feed[x].type = "ts" /\ s.feed[x].priv = f
  <2> SUFFICES ASSUME NEW x \in S
               PROVE  s.feed[x].state = "go" /\ s.feed[x].type = "ts" /\ s.feed[x].priv = f
    OBVIOUS
  <2> DEFINE ts == s.filter[f].ts
  <2>1. Serves(s.feed, ts, f) /\ Names(ts, x)
    BY DEF Good, Streams
  <2> HIDE DEF ts
  <2>2. PICK k \in DOMAIN ts : ts[k].ts = x
    BY <2>1 DEF Names
  <2>3. s.feed[ts[k].ts].state = "go" /\ s.feed[ts[k].ts].type = "ts" /\ s.feed[ts[k].ts].priv = f
    BY <2>1, Zenon DEF Serves
  <2> QED
    BY <2>2, <2>3
<1>4. ~SecOn(t, f) /\ ~SecOn(s, f)
  BY DEF SecOn, PesOn
<1>5. \A g \in Filters : g # f => (SecOn(t, g) <=> SecOn(s, g)) /\ (PesOn(t, g) <=> PesOn(s, g))
  BY DEF SecOn, PesOn
<1>6. \A x \in Feeds : \A j \in s.feed[x].filters : x \notin S => \A y \in S : j \notin s.feed[y].filters
  BY DEF Good, Hooks
<1>8. Kinds(t)
  BY DEF Good, Kinds
<1>9. Quiet(t)
  <2> SUFFICES ASSUME NEW g \in Filters, ~PesOn(t, g)
               PROVE  \A k \in DOMAIN t.filter[g].ts : t.filter[g].ts[k].ts = NULL
    BY DEF Quiet
  <2>1. CASE g = f
    BY <2>1 DEF Blank
  <2>2. CASE g # f
    <3>1. ~PesOn(s, g) /\ t.filter[g].ts = s.filter[g].ts
      BY <1>5, <2>2
    <3> QED
      BY <3>1 DEF Good, Quiet
  <2> QED
    BY <2>1, <2>2
<1>10. Sections(t, NULL)
  <2> SUFFICES ASSUME NEW g \in Filters, SecOn(t, g)
               PROVE  LET a == t.filter[g].sec
                          b == t.filter[g].secfilter
                      IN  /\ a \in Feeds /\ b \in DmxFilters
                          /\ t.feed[a].state = IF a = NULL THEN "ready" ELSE "go"
                          /\ t.feed[a].type = "sec" /\ t.feed[a].pid = t.filter[g].pid
                          /\ b \in t.feed[a].filters /\ t.dmxfilter[b].priv = g
    BY DEF Sections
  <2>1. g # f /\ SecOn(s, g) /\ t.filter[g] = s.filter[g]
    BY <1>4, <1>5
  <2> DEFINE a == s.filter[g].sec
             b == s.filter[g].secfilter
  <2>2. /\ a \in Feeds /\ b \in DmxFilters
        /\ s.feed[a].state = IF a = NULL THEN "ready" ELSE "go"
        /\ s.feed[a].type = "sec" /\ s.feed[a].pid = s.filter[g].pid
        /\ b \in s.feed[a].filters /\ s.dmxfilter[b].priv = g
    BY <2>1 DEF Good, Sections
  <2> HIDE DEF a, b
  <2>3. a \notin S
    BY <1>3, <2>2
  <2>4. t.feed[a] = s.feed[a] /\ t.dmxfilter[b] = s.dmxfilter[b]
    BY <1>1, <1>2, <1>6, <2>2, <2>3
  <2> QED
    BY <2>1, <2>2, <2>4 DEF a, b
<1>11. Shares(t)
  BY <1>4, <1>5 DEF Good, Shares
<1>12. Streams(t)
  <2> SUFFICES ASSUME NEW g \in Filters, g # f, PesOn(t, g) PROVE Serves(t.feed, t.filter[g].ts, g)
    BY DEF Streams
  <2>1. PesOn(s, g) /\ t.filter[g] = s.filter[g]
    BY <1>5
  <2>2. Serves(s.feed, s.filter[g].ts, g)
    BY <2>1 DEF Good, Streams
  <2> DEFINE ts == s.filter[g].ts
  <2> HIDE DEF ts
  <2>3. /\ \A k \in DOMAIN ts :
             /\ ts[k].ts \in Feeds /\ s.feed[ts[k].ts].state = "go" /\ s.feed[ts[k].ts].type = "ts"
             /\ s.feed[ts[k].ts].priv = g /\ s.feed[ts[k].ts].filters # {}
        /\ \A k, l \in DOMAIN ts : ts[k].ts = ts[l].ts => k = l
    BY <2>2, Zenon DEF Serves, ts
  <2>4. \A k \in DOMAIN ts : t.feed[ts[k].ts] = s.feed[ts[k].ts]
    BY <1>1, <1>3, <2>3
  <2>5. Serves(t.feed, ts, g)
    BY <2>3, <2>4, Zenon DEF Serves
  <2> QED
    BY <2>1, <2>5 DEF ts
<1>13. Owners(t, NULL)
  <2> SUFFICES ASSUME NEW x \in Feeds, t.feed[x].state # "free" PROVE Owned(t, x)
    BY DEF Owners
  <2>1. x \notin S /\ t.feed[x] = s.feed[x]
    BY <1>1
  <2>2. Owned(s, x)
    BY <2>1, PoolsAre DEF Good, Owners
  <2>3. SecOwned(s, x) => SecOwned(t, x)
    BY <1>4, <1>5 DEF SecOwned
  <2>4. TsOwned(s, x) => TsOwned(t, x)
    <3> SUFFICES ASSUME TsOwned(s, x) PROVE TsOwned(t, x)
      OBVIOUS
    <3> DEFINE g == s.feed[x].priv
    <3>1. g \in Filters /\ PesOn(s, g) /\ Names(s.filter[g].ts, x)
      BY DEF TsOwned
    <3>2. g = t.feed[x].priv
      BY <2>1
    <3> HIDE DEF g
    <3>3. PesOn(t, g) /\ Names(t.filter[g].ts, x)
      <4>1. CASE g = f
        BY <2>1, <3>1, <4>1
      <4>2. CASE g # f
        BY <1>5, <3>1, <4>2
      <4> QED
        BY <4>1, <4>2
    <3> QED
      BY <3>1, <3>2, <3>3 DEF TsOwned
  <2> QED
    BY <2>1, <2>2, <2>3, <2>4 DEF Owned
<1>14. Halted(t, NULL)
  BY PoolsAre DEF Halted
<1>15. Hooks(t)
  <2>1. \A x \in Feeds : t.feed[x].state = "free" => t.feed[x].filters = {}
    BY <1>1 DEF Good, Hooks
  <2>2. ASSUME NEW x \in Feeds, NEW k \in t.feed[x].filters
        PROVE  ~t.dmxfilter[k].free /\ t.dmxfilter[k].feed = x
    <3>1. x \notin S /\ k \in s.feed[x].filters
      BY <1>1, <2>2
    <3>2. k \in DmxFilters
      BY <3>1, SysParts DEF FeedRec
    <3>3. ~s.dmxfilter[k].free /\ s.dmxfilter[k].feed = x
      BY <3>1 DEF Good, Hooks
    <3>4. t.dmxfilter[k] = s.dmxfilter[k]
      BY <1>2, <1>6, <3>1, <3>2
    <3> QED
      BY <3>3, <3>4
  <2>3. ASSUME NEW k \in DmxFilters, ~t.dmxfilter[k].free
        PROVE  /\ t.dmxfilter[k].feed \in Feeds /\ k \in t.feed[t.dmxfilter[k].feed].filters
               /\ t.feed[t.dmxfilter[k].feed].type = "sec" =>
                    /\ t.dmxfilter[k].priv \in Filters /\ SecOn(t, t.dmxfilter[k].priv)
                    /\ t.filter[t.dmxfilter[k].priv].secfilter = k
    <3>1. t.dmxfilter[k] = s.dmxfilter[k] /\ \A y \in S : k \notin s.feed[y].filters
      BY <1>2, <2>3
    <3> DEFINE x == s.dmxfilter[k].feed
               g == s.dmxfilter[k].priv
    <3>2. /\ x \in Feeds /\ k \in s.feed[x].filters
          /\ s.feed[x].type = "sec" => g \in Filters /\ SecOn(s, g) /\ s.filter[g].secfilter = k
      BY <2>3, <3>1 DEF Good, Hooks
    <3>3. t.feed[x] = s.feed[x]
      <4> HIDE DEF x
      <4> QED
        BY <1>1, <3>1, <3>2
    <3>4. s.feed[x].type = "sec" => SecOn(t, g) /\ t.filter[g] = s.filter[g]
      BY <1>4, <1>5, <3>2
    <3> QED
      BY <3>1, <3>2, <3>3, <3>4
  <2> QED
    BY <2>1, <2>2, <2>3 DEF Hooks
<1>16. Counted(t)
  <2>1. Going(t) = Going(s) \ S /\ S \subseteq Going(s)
    BY <1>1, <1>3 DEF Going
  <2>2. Fewer(s.adapter, t.adapter, Cardinality(S)) /\ Counted(s)
    BY DEF Detached, Good
  <2> QED
    BY ONLY <2>1, <2>2, s \in Sys, t \in Sys, CountFewer
<1>17. ~t.oops
  BY DEF Good, Detached
<1> QED
  BY <1>8, <1>9, <1>10, <1>11, <1>12, <1>13, <1>14, <1>15, <1>16, <1>17 DEF Good

(* The free feeds in K run for the TS filter f, each with one of the free  *)
(* section filters in J.                                                   *)
Attached(s, t, f, K, J) ==
    /\ \A x \in K : x \in Feeds /\ s.feed[x].state = "free"
    /\ \A j \in J : j \in DmxFilters /\ s.dmxfilter[j].free
    /\ \A x \in Feeds : x \notin K => t.feed[x] = s.feed[x]
    /\ \A j \in DmxFilters : j \notin J => t.dmxfilter[j] = s.dmxfilter[j]
    /\ \A x \in K :
         /\ t.feed[x].state = "go" /\ t.feed[x].type = "ts" /\ t.feed[x].priv = f
         /\ \E j \in J : t.feed[x].filters = {j} /\ t.dmxfilter[j].feed = x
    /\ \A j \in J : ~t.dmxfilter[j].free /\ t.dmxfilter[j].feed \in K /\ t.feed[t.dmxfilter[j].feed].filters = {j}
    /\ More(s.adapter, t.adapter, Cardinality(K)) /\ t.oops = s.oops

(* The invariant holds once more when they are the feeds of a filter.    *)
LEMMA AttachGood ==
    ASSUME NEW s \in Sys, NEW t \in Sys, Good(s, NULL), NEW f \in Filters, ~SecOn(s, f),
           NEW K, NEW J, Attached(s, t, f, K, J),
           \A g \in Filters : g # f => t.filter[g] = s.filter[g],
           PesOn(t, f), Serves(t.feed, t.filter[f].ts, f),
           \A x \in K : Names(t.filter[f].ts, x),
           PesOn(s, f) => \A x \in Feeds : Names(s.filter[f].ts, x) => Names(t.filter[f].ts, x)
    PROVE  Good(t, NULL)
<1>1. /\ \A x \in K : x \in Feeds /\ s.feed[x].state = "free"
      /\ \A j \in J : j \in DmxFilters /\ s.dmxfilter[j].free
      /\ \A x \in Feeds : x \notin K => t.feed[x] = s.feed[x]
      /\ \A j \in DmxFilters : j \notin J => t.dmxfilter[j] = s.dmxfilter[j]
  BY DEF Attached
<1>2. \A x \in K : t.feed[x].state = "go" /\ t.feed[x].type = "ts" /\ t.feed[x].priv = f
  BY DEF Attached
<1>3. \A x \in K : \E j \in J : t.feed[x].filters = {j} /\ t.dmxfilter[j].feed = x
  BY DEF Attached
<1>4. \A j \in J : ~t.dmxfilter[j].free /\ t.dmxfilter[j].feed \in K /\ t.feed[t.dmxfilter[j].feed].filters = {j}
  BY DEF Attached
<1>5. ~SecOn(t, f)
  BY DEF SecOn, PesOn
<1>6. \A g \in Filters : g # f => (SecOn(t, g) <=> SecOn(s, g)) /\ (PesOn(t, g) <=> PesOn(s, g))
  BY DEF SecOn, PesOn
<1>7. Kinds(t)
  BY DEF Good, Kinds, PesOn
<1>8. Quiet(t)
  <2> SUFFICES ASSUME NEW g \in Filters, ~PesOn(t, g)
               PROVE  \A k \in DOMAIN t.filter[g].ts : t.filter[g].ts[k].ts = NULL
    BY DEF Quiet
  <2>1. ~PesOn(s, g) /\ t.filter[g].ts = s.filter[g].ts
    BY <1>6
  <2> QED
    BY <2>1 DEF Good, Quiet
<1>9. Sections(t, NULL)
  <2> SUFFICES ASSUME NEW g \in Filters, SecOn(t, g)
               PROVE  LET a == t.filter[g].sec
                          b == t.filter[g].secfilter
                      IN  /\ a \in Feeds /\ b \in DmxFilters
                          /\ t.feed[a].state = IF a = NULL THEN "ready" ELSE "go"
                          /\ t.feed[a].type = "sec" /\ t.feed[a].pid = t.filter[g].pid
                          /\ b \in t.feed[a].filters /\ t.dmxfilter[b].priv = g
    BY DEF Sections
  <2>1. g # f /\ SecOn(s, g) /\ t.filter[g] = s.filter[g]
    BY <1>5, <1>6
  <2> DEFINE a == s.filter[g].sec
             b == s.filter[g].secfilter
  <2>2. /\ a \in Feeds /\ b \in DmxFilters /\ s.feed[a].state = "go"
        /\ s.feed[a].type = "sec" /\ s.feed[a].pid = s.filter[g].pid
        /\ b \in s.feed[a].filters /\ s.dmxfilter[b].priv = g
    BY <2>1, PoolsAre DEF Good, Sections
  <2> HIDE DEF a, b
  <2>3. ~s.dmxfilter[b].free
    BY <2>2 DEF Good, Hooks
  <2>4. t.feed[a] = s.feed[a] /\ t.dmxfilter[b] = s.dmxfilter[b] /\ a # NULL
    BY <1>1, <2>2, <2>3, PoolsAre
  <2> QED
    BY <2>1, <2>2, <2>4 DEF a, b
<1>10. Shares(t)
  BY <1>5, <1>6 DEF Good, Shares
<1>11. Streams(t)
  <2> SUFFICES ASSUME NEW g \in Filters, g # f, PesOn(t, g) PROVE Serves(t.feed, t.filter[g].ts, g)
    BY DEF Streams
  <2>1. PesOn(s, g) /\ t.filter[g] = s.filter[g]
    BY <1>6
  <2>2. Serves(s.feed, s.filter[g].ts, g)
    BY <2>1 DEF Good, Streams
  <2>3. \A x \in Feeds : s.feed[x].state = "go" /\ s.feed[x].type = "ts" => t.feed[x] = s.feed[x]
    BY <1>1
  <2>4. Serves(t.feed, s.filter[g].ts, g)
    BY ONLY <2>2, <2>3, ServesSame
  <2> QED
    BY <2>1, <2>4
<1>12. Owners(t, NULL)
  <2> SUFFICES ASSUME NEW x \in Feeds, t.feed[x].state # "free" PROVE Owned(t, x)
    BY DEF Owners
  <2>1. CASE x \in K
    BY <1>2, <2>1 DEF Owned, TsOwned
  <2>2. CASE x \notin K
    <3>1. t.feed[x] = s.feed[x]
      BY <1>1, <2>2
    <3>2. Owned(s, x)
      BY <3>1, PoolsAre DEF Good, Owners
    <3>3. SecOwned(s, x) => SecOwned(t, x)
      BY <1>5, <1>6 DEF SecOwned
    <3>4. TsOwned(s, x) => TsOwned(t, x)
      <4> SUFFICES ASSUME TsOwned(s, x) PROVE TsOwned(t, x)
        OBVIOUS
      <4> DEFINE g == s.feed[x].priv
      <4>1. g \in Filters /\ PesOn(s, g) /\ Names(s.filter[g].ts, x)
        BY DEF TsOwned
      <4>2. g = t.feed[x].priv
        BY <3>1
      <4> HIDE DEF g
      <4>3. PesOn(t, g) /\ Names(t.filter[g].ts, x)
        <5>1. CASE g = f
          BY <4>1, <5>1
        <5>2. CASE g # f
          BY <1>6, <4>1, <5>2
        <5> QED
          BY <5>1, <5>2
      <4> QED
        BY <4>1, <4>2, <4>3 DEF TsOwned
    <3> QED
      BY <3>1, <3>2, <3>3, <3>4 DEF Owned
  <2> QED
    BY <2>1, <2>2
<1>13. Halted(t, NULL)
  BY PoolsAre DEF Halted
<1>14. Hooks(t)
  <2>1. ASSUME NEW x \in Feeds, t.feed[x].state = "free" PROVE t.feed[x].filters = {}
    <3>1. x \notin K
      BY <1>2, <2>1
    <3> QED
      BY <1>1, <2>1, <3>1 DEF Good, Hooks
  <2>2. ASSUME NEW x \in Feeds, NEW k \in t.feed[x].filters
        PROVE  ~t.dmxfilter[k].free /\ t.dmxfilter[k].feed = x
    <3>1. CASE x \in K
      BY <1>3, <1>4, <2>2, <3>1
    <3>2. CASE x \notin K
      <4>1. k \in s.feed[x].filters
        BY <1>1, <2>2, <3>2
      <4>2. k \in DmxFilters
        BY <4>1, SysParts DEF FeedRec
      <4>3. ~s.dmxfilter[k].free /\ s.dmxfilter[k].feed = x
        BY <4>1 DEF Good, Hooks
      <4>4. t.dmxfilter[k] = s.dmxfilter[k]
        BY <1>1, <4>2, <4>3
      <4> QED
        BY <4>3, <4>4
    <3> QED
      BY <3>1, <3>2
  <2>3. ASSUME NEW k \in DmxFilters, ~t.dmxfilter[k].free
        PROVE  /\ t.dmxfilter[k].feed \in Feeds /\ k \in t.feed[t.dmxfilter[k].feed].filters
               /\ t.feed[t.dmxfilter[k].feed].type = "sec" =>
                    /\ t.dmxfilter[k].priv \in Filters /\ SecOn(t, t.dmxfilter[k].priv)
                    /\ t.filter[t.dmxfilter[k].priv].secfilter = k
    <3>1. CASE k \in J
      <4>1. t.dmxfilter[k].feed \in K /\ t.feed[t.dmxfilter[k].feed].filters = {k}
        BY <1>4, <3>1
      <4>2. t.dmxfilter[k].feed \in Feeds /\ t.feed[t.dmxfilter[k].feed].type = "ts"
        BY <1>1, <1>2, <4>1
      <4> QED
        BY <4>1, <4>2
    <3>2. CASE k \notin J
      <4>1. t.dmxfilter[k] = s.dmxfilter[k]
        BY <1>1, <3>2
      <4> DEFINE x == s.dmxfilter[k].feed
                 g == s.dmxfilter[k].priv
      <4>2. /\ x \in Feeds /\ k \in s.feed[x].filters
            /\ s.feed[x].type = "sec" => g \in Filters /\ SecOn(s, g) /\ s.filter[g].secfilter = k
        BY <2>3, <4>1 DEF Good, Hooks
      <4>3. t.feed[x] = s.feed[x]
        <5> HIDE DEF x
        <5>1. s.feed[x].state # "free"
          BY <4>2 DEF Good, Hooks
        <5> QED
          BY <1>1, <4>2, <5>1
      <4>4. s.feed[x].type = "sec" => SecOn(t, g) /\ t.filter[g] = s.filter[g]
        BY <1>6, <4>2
      <4> QED
        BY <4>1, <4>2, <4>3, <4>4
    <3> QED
      BY <3>1, <3>2
  <2> QED
    BY <2>1, <2>2, <2>3 DEF Hooks
<1>15. Counted(t)
  <2>1. Going(t) = Going(s) \cup K /\ K \subseteq Feeds /\ K \cap Going(s) = {}
    BY <1>1, <1>2 DEF Going
  <2>2. More(s.adapter, t.adapter, Cardinality(K)) /\ Counted(s)
    BY DEF Attached, Good
  <2> QED
    BY ONLY <2>1, <2>2, s \in Sys, t \in Sys, CountMore
<1>16. ~t.oops
  BY DEF Good, Attached
<1> QED
  BY <1>7, <1>8, <1>9, <1>10, <1>11, <1>12, <1>13, <1>14, <1>15, <1>16 DEF Good

(* As many feeds as there are entries that differ.                         *)
LEMMA CountImage ==
    ASSUME NEW S, IsFiniteSet(S), NEW a, \A k, l \in S : a[k] = a[l] => k = l
    PROVE  Cardinality({a[k] : k \in S}) = Cardinality(S)
<1> DEFINE T == {a[k] : k \in S}
           b == [k \in S |-> a[k]]
<1>1. b \in [S -> T] /\ (\A k, l \in S : b[k] = b[l] => k = l) /\ \A y \in T : \E k \in S : b[k] = y
  OBVIOUS
<1> HIDE DEF b, T
<1>2. b \in Bijection(S, T)
  BY <1>1 DEF Bijection, Injection, Surjection, IsInjective
<1>3. ExistsBijection(S, T)
  BY <1>2 DEF ExistsBijection
<1> QED
  BY <1>3, FS_Bijection DEF T

(* The free feeds and section filters, from the lowest up.               *)
LEMMA FreesSorted ==
    ASSUME NEW s, NEW a, a = Ascending(FreeFeeds(s)), NEW b, b = Ascending(FreeDmxFilters(s))
    PROVE  /\ a \in [1 .. Cardinality(FreeFeeds(s)) -> FreeFeeds(s)]
           /\ b \in [1 .. Cardinality(FreeDmxFilters(s)) -> FreeDmxFilters(s)]
           /\ \A k, l \in 1 .. Cardinality(FreeFeeds(s)) : a[k] = a[l] => k = l
           /\ \A k, l \in 1 .. Cardinality(FreeDmxFilters(s)) : b[k] = b[l] => k = l
           /\ Cardinality(FreeFeeds(s)) \in Nat /\ Cardinality(FreeDmxFilters(s)) \in Nat
<1>1. FreeFeeds(s) \in SUBSET Feeds /\ FreeDmxFilters(s) \in SUBSET DmxFilters
  BY DEF FreeFeeds, FreeDmxFilters
<1>2. IsFiniteSet(FreeFeeds(s)) /\ IsFiniteSet(FreeDmxFilters(s))
  BY <1>1, PoolsAre, FS_Subset
<1>3. FreeFeeds(s) \in SUBSET Nat /\ FreeDmxFilters(s) \in SUBSET Nat
  BY <1>1, PoolsAre
<1> QED
  BY <1>2, <1>3, AscendingIs, FS_CardinalityType

(* The parts of what dvb_dmxdev_start_feed leaves.                         *)
NewTs(s, f, n, a) ==
    [k \in 1 .. Len(s.filter[f].ts) |->
        IF k \in Tried(s, f, n)
        THEN [pid |-> s.filter[f].ts[k].pid, ts |-> IF k \in DOMAIN a THEN a[k] ELSE NULL]
        ELSE s.filter[f].ts[k]]
NewFeed(s, f, n, a, b) ==
    [i \in Feeds |-> IF \E k \in Started(s, f, n) : a[k] = i
        THEN TsFeed(b[CHOOSE k \in Started(s, f, n) : a[k] = i],
                    s.filter[f].ts[CHOOSE k \in Started(s, f, n) : a[k] = i].pid, f)
        ELSE s.feed[i]]
NewDmx(s, f, n, a, b) ==
    [j \in DmxFilters |-> IF \E k \in Started(s, f, n) : b[k] = j
        THEN [free |-> FALSE, feed |-> a[CHOOSE k \in Started(s, f, n) : b[k] = j], priv |-> NULL]
        ELSE s.dmxfilter[j]]

Begun(s, f, n, L, F, D, S) ==
    start_feed([s EXCEPT !.filter[f].ts = L, !.feed = F, !.dmxfilter = D, !.refused = @ \/ S # 1 .. n],
               Cardinality(S))

(* What dvb_dmxdev_start_feed leaves, by its parts.                      *)
LEMMA StartFeedSteps ==
    ASSUME NEW s, NEW f, NEW n, NEW a, a = Ascending(FreeFeeds(s)), NEW b, b = Ascending(FreeDmxFilters(s)),
           NEW t, t = StartFeed(s, f, n)
    PROVE  t = Begun(s, f, n, NewTs(s, f, n, a), NewFeed(s, f, n, a, b), NewDmx(s, f, n, a, b), Started(s, f, n))
<1> DEFINE A == Ascending(FreeFeeds(s))
           B == Ascending(FreeDmxFilters(s))
<1>1. t = Begun(s, f, n, NewTs(s, f, n, A), NewFeed(s, f, n, A, B), NewDmx(s, f, n, A, B), Started(s, f, n))
  BY Zenon DEF StartFeed, NewTs, NewFeed, NewDmx, Begun
<1> QED
  BY <1>1

(* Entries that are started have a feed and a section filter.              *)
LEMMA StartedAre ==
    ASSUME NEW s \in Sys, NEW f \in Filters, NEW n \in Nat, n <= Len(s.filter[f].ts)
    PROVE  /\ Started(s, f, n) \in SUBSET (1 .. n) /\ IsFiniteSet(Started(s, f, n))
           /\ \A k \in Started(s, f, n) :
                k \in 1 .. Cardinality(FreeFeeds(s)) /\ k \in 1 .. Cardinality(FreeDmxFilters(s))
           /\ Started(s, f, n) = 1 .. n => Tried(s, f, n) = 1 .. n
           /\ Tried(s, f, n) \in SUBSET (1 .. n)
<1>1. Started(s, f, n) \in SUBSET (1 .. n) /\ Tried(s, f, n) \in SUBSET (1 .. n)
  BY DEF Started, Tried
<1>2. IsFiniteSet(1 .. n)
  BY FS_Interval
<1>3. IsFiniteSet(Started(s, f, n))
  BY <1>1, <1>2, FS_Subset
<1>4. \A k \in Started(s, f, n) : Startable(s, f, k)
  BY DEF Started
<1>5. \A k \in Started(s, f, n) :
        k \in 1 .. Cardinality(FreeFeeds(s)) /\ k \in 1 .. Cardinality(FreeDmxFilters(s))
  <2>1. Cardinality(FreeFeeds(s)) \in Nat /\ Cardinality(FreeDmxFilters(s)) \in Nat
    BY FreesSorted
  <2> QED
    BY <1>1, <1>4, <2>1 DEF Startable
<1>6. Started(s, f, n) = 1 .. n => Tried(s, f, n) = 1 .. n
  BY <1>4 DEF Tried
<1> QED
  BY <1>1, <1>3, <1>5, <1>6

(* The list of a filter, entry by entry.                                 *)
LEMMA ListIs ==
    ASSUME NEW s \in Sys, NEW f \in Filters
    PROVE  /\ s.filter[f].ts \in Lists /\ s.filter[f].ts \in Seq(Entry) /\ Len(s.filter[f].ts) \in Nat
           /\ Len(s.filter[f].ts) <= MaxPids /\ DOMAIN s.filter[f].ts = 1 .. Len(s.filter[f].ts)
           /\ \A k \in 1 .. Len(s.filter[f].ts) :
                /\ s.filter[f].ts[k] \in Entry
                /\ s.filter[f].ts[k].pid \in Pids /\ s.filter[f].ts[k].ts \in Feeds \cup {NULL}
<1> DEFINE ts == s.filter[f].ts
<1>1. s.filter[f] \in FilterRec
  BY SysParts
<1>2. ts \in Lists
  BY <1>1 DEF FilterRec
<1> HIDE DEF ts
<1>3. ts \in Seq(Entry) /\ Len(ts) <= MaxPids
  BY <1>2 DEF Lists
<1>4. Len(ts) \in Nat /\ DOMAIN ts = 1 .. Len(ts) /\ \A k \in 1 .. Len(ts) : ts[k] \in Entry
  BY <1>3
<1>5. \A k \in 1 .. Len(ts) : ts[k].pid \in Pids /\ ts[k].ts \in Feeds \cup {NULL}
  BY <1>4 DEF Entry
<1> QED
  BY <1>2, <1>3, <1>4, <1>5 DEF ts

(* A list of entries from a function on 1 .. n.                            *)
LEMMA ListFrom ==
    ASSUME NEW n \in Nat, n <= MaxPids, NEW l \in [1 .. n -> Entry]
    PROVE  l \in Lists /\ Len(l) = n /\ DOMAIN l = 1 .. n
<1>1. l \in Seq(Entry) /\ DOMAIN l = 1 .. n
  OBVIOUS
<1>2. Len(l) = n
  BY <1>1
<1> QED
  BY <1>1, <1>2 DEF Lists

(* The list after the start is a list.                                   *)
LEMMA NewTsIs ==
    ASSUME NEW s \in Sys, NEW f \in Filters, NEW n \in Nat, n <= Len(s.filter[f].ts),
           NEW a, a = Ascending(FreeFeeds(s))
    PROVE  NewTs(s, f, n, a) \in [1 .. Len(s.filter[f].ts) -> Entry]
<1> DEFINE ts == s.filter[f].ts
<1>1. \A k \in 1 .. Len(ts) : ts[k] \in Entry /\ ts[k].pid \in Pids
  BY ListIs
<1>2. a \in [1 .. Cardinality(FreeFeeds(s)) -> FreeFeeds(s)]
  BY FreesSorted
<1>3. \A k \in DOMAIN a : a[k] \in Feeds
  BY <1>2 DEF FreeFeeds
<1>4. ASSUME NEW k \in 1 .. Len(ts)
      PROVE  [pid |-> ts[k].pid, ts |-> IF k \in DOMAIN a THEN a[k] ELSE NULL] \in Entry
  BY <1>1, <1>3 DEF Entry
<1> QED
  BY <1>1, <1>4 DEF NewTs

(* The k-th entry in S has the feed a[k] and the section filter b[k].      *)
Placed(s, f, S, a, b, F, D) ==
    /\ F \in [Feeds -> FeedRec] /\ D \in [DmxFilters -> DmxRec]
    /\ \A k \in S :
         /\ a[k] \in FreeFeeds(s) /\ b[k] \in FreeDmxFilters(s)
         /\ F[a[k]] = TsFeed(b[k], s.filter[f].ts[k].pid, f)
         /\ D[b[k]] = [free |-> FALSE, feed |-> a[k], priv |-> NULL]
    /\ \A x \in Feeds : (\A k \in S : a[k] # x) => F[x] = s.feed[x]
    /\ \A x \in DmxFilters : (\A k \in S : b[k] # x) => D[x] = s.dmxfilter[x]

(* The feeds and section filters after the start have their types.       *)
LEMMA NewFeedIs ==
    ASSUME NEW s \in Sys, NEW f \in Filters, NEW n \in Nat, n <= Len(s.filter[f].ts),
           NEW a, a = Ascending(FreeFeeds(s)), NEW b, b = Ascending(FreeDmxFilters(s))
    PROVE  Placed(s, f, Started(s, f, n), a, b, NewFeed(s, f, n, a, b), NewDmx(s, f, n, a, b))
<1> DEFINE S == Started(s, f, n)
           ts == s.filter[f].ts
           F == NewFeed(s, f, n, a, b)
           D == NewDmx(s, f, n, a, b)
<1>1. /\ S \in SUBSET (1 .. n)
      /\ \A k \in S : k \in 1 .. Cardinality(FreeFeeds(s)) /\ k \in 1 .. Cardinality(FreeDmxFilters(s))
  BY StartedAre
<1>2. /\ a \in [1 .. Cardinality(FreeFeeds(s)) -> FreeFeeds(s)]
      /\ b \in [1 .. Cardinality(FreeDmxFilters(s)) -> FreeDmxFilters(s)]
      /\ \A k, l \in 1 .. Cardinality(FreeFeeds(s)) : a[k] = a[l] => k = l
      /\ \A k, l \in 1 .. Cardinality(FreeDmxFilters(s)) : b[k] = b[l] => k = l
  BY FreesSorted
<1>3. \A k \in S : a[k] \in FreeFeeds(s) /\ b[k] \in FreeDmxFilters(s) /\ a[k] \in Feeds /\ b[k] \in DmxFilters
  BY <1>1, <1>2 DEF FreeFeeds, FreeDmxFilters
<1>4. \A k \in S : ts[k].pid \in Pids
  <2>1. \A k \in 1 .. Len(ts) : ts[k].pid \in Pids
    BY ListIs
  <2>2. Len(ts) \in Nat
    BY ListIs
  <2> HIDE DEF ts, S
  <2>3. \A k \in S : k \in 1 .. Len(ts)
    BY <1>1, <2>2 DEF ts
  <2> QED
    BY <2>1, <2>3
<1>5. s.feed \in [Feeds -> FeedRec] /\ s.dmxfilter \in [DmxFilters -> DmxRec]
  BY SysParts
<1>6. F = [i \in Feeds |-> IF \E k \in S : a[k] = i
              THEN TsFeed(b[CHOOSE k \in S : a[k] = i], ts[CHOOSE k \in S : a[k] = i].pid, f) ELSE s.feed[i]]
  BY DEF NewFeed
<1>7. D = [j \in DmxFilters |-> IF \E k \in S : b[k] = j
              THEN [free |-> FALSE, feed |-> a[CHOOSE k \in S : b[k] = j], priv |-> NULL] ELSE s.dmxfilter[j]]
  BY DEF NewDmx
<1> HIDE DEF S, F, D, ts
<1>8. ASSUME NEW k \in S PROVE (CHOOSE l \in S : a[l] = a[k]) = k /\ (CHOOSE l \in S : b[l] = b[k]) = k
  <2>1. \A l \in S : a[l] = a[k] => l = k
    BY <1>1, <1>2
  <2>2. \A l \in S : b[l] = b[k] => l = k
    BY <1>1, <1>2
  <2>3. (CHOOSE l \in S : a[l] = a[k]) \in S /\ a[CHOOSE l \in S : a[l] = a[k]] = a[k]
    BY Zenon
  <2>4. (CHOOSE l \in S : b[l] = b[k]) \in S /\ b[CHOOSE l \in S : b[l] = b[k]] = b[k]
    BY Zenon
  <2> QED
    BY <2>1, <2>2, <2>3, <2>4, Zenon
<1>9. ASSUME NEW k \in S PROVE F[a[k]] = TsFeed(b[k], ts[k].pid, f)
  <2>1. a[k] \in Feeds /\ \E l \in S : a[l] = a[k]
    BY <1>3
  <2>2. F[a[k]] = TsFeed(b[CHOOSE l \in S : a[l] = a[k]], ts[CHOOSE l \in S : a[l] = a[k]].pid, f)
    BY <1>6, <2>1, Zenon
  <2> QED
    BY <1>8, <2>2
<1>10. ASSUME NEW k \in S PROVE D[b[k]] = [free |-> FALSE, feed |-> a[k], priv |-> NULL]
  <2>1. b[k] \in DmxFilters /\ \E l \in S : b[l] = b[k]
    BY <1>3
  <2>2. D[b[k]] = [free |-> FALSE, feed |-> a[CHOOSE l \in S : b[l] = b[k]], priv |-> NULL]
    BY <1>7, <2>1, Zenon
  <2> QED
    BY <1>8, <2>2
<1>11. \A x \in Feeds : (\A k \in S : a[k] # x) => F[x] = s.feed[x]
  BY <1>6
<1>12. \A x \in DmxFilters : (\A k \in S : b[k] # x) => D[x] = s.dmxfilter[x]
  BY <1>7
<1>13. F \in [Feeds -> FeedRec]
  <2>1. ASSUME NEW x \in Feeds PROVE F[x] \in FeedRec
    <3>1. CASE \A k \in S : a[k] # x
      BY <1>5, <1>11, <3>1
    <3>2. CASE \E k \in S : a[k] = x
      <4>1. PICK k \in S : a[k] = x
        BY <3>2
      <4>2. F[x] = TsFeed(b[k], ts[k].pid, f) /\ b[k] \in DmxFilters /\ ts[k].pid \in Pids
        BY <1>3, <1>4, <1>9, <4>1
      <4>3. TsFeed(b[k], ts[k].pid, f) \in FeedRec
        BY <4>2 DEF TsFeed, FeedRec
      <4> QED
        BY <4>2, <4>3
    <3> QED
      BY <3>1, <3>2
  <2>2. F = [x \in Feeds |-> F[x]]
    BY <1>6
  <2> QED
    BY <2>1, <2>2
<1>14. D \in [DmxFilters -> DmxRec]
  <2>1. ASSUME NEW x \in DmxFilters PROVE D[x] \in DmxRec
    <3>1. CASE \A k \in S : b[k] # x
      BY <1>5, <1>12, <3>1
    <3>2. CASE \E k \in S : b[k] = x
      <4>1. PICK k \in S : b[k] = x
        BY <3>2
      <4>2. D[x] = [free |-> FALSE, feed |-> a[k], priv |-> NULL] /\ a[k] \in Feeds
        BY <1>3, <1>10, <4>1
      <4>3. [free |-> FALSE, feed |-> a[k], priv |-> NULL] \in DmxRec
        BY <4>2, FlagIs DEF DmxRec
      <4> QED
        BY <4>2, <4>3
    <3> QED
      BY <3>1, <3>2
  <2>2. D = [x \in DmxFilters |-> D[x]]
    BY <1>7
  <2> QED
    BY <2>1, <2>2
<1>15. Placed(s, f, S, a, b, F, D)
  BY <1>3, <1>9, <1>10, <1>11, <1>12, <1>13, <1>14, Zenon DEF Placed, ts
<1> QED
  BY <1>15 DEF S, F, D

(* A filter gets another list.                                             *)
SetTs(s, g, l) == [s EXCEPT !.filter[g].ts = l]
Listed(s, t, g, l) ==
    /\ t.filter[g].state = s.filter[g].state /\ t.filter[g].type = s.filter[g].type
    /\ t.filter[g].pid = s.filter[g].pid /\ t.filter[g].ts = l
    /\ \A x \in Filters : x # g => t.filter[x] = s.filter[x]

(* The fields of the state after the list is exchanged.                  *)
LEMMA SetTsIs ==
    ASSUME NEW s \in Sys, NEW g \in Filters, NEW l \in Lists, NEW t, t = SetTs(s, g, l)
    PROVE  t \in Sys /\ Same(s, t) /\ Listed(s, t, g, l)
<1> DEFINE r == [s.filter[g] EXCEPT !.ts = l]
<1>1. s.filter[g] \in FilterRec
  BY SysParts
<1>2. r \in FilterRec
  BY <1>1, FilterWith
<1>3. r.state = s.filter[g].state /\ r.type = s.filter[g].type /\ r.pid = s.filter[g].pid /\ r.ts = l
  BY <1>1 DEF FilterRec
<1>4. t = With(s, g, r)
  BY DEF With, SetTs
<1> HIDE DEF r
<1>5. /\ t \in Sys /\ Same(s, t)
      /\ t.filter[g] = r /\ \A x \in Filters : x # g => t.filter[x] = s.filter[x]
  BY ONLY <1>2, <1>4, s \in Sys, g \in Filters, SetIs
<1> QED
  BY <1>3, <1>5 DEF Listed

(* The first n entries of the list of f got the feeds in K.                *)
Filled(s, t, f, n, K) ==
    /\ \A k \in 1 .. Len(s.filter[f].ts) : k \notin 1 .. n => t.filter[f].ts[k] = s.filter[f].ts[k]
    /\ \A k \in 1 .. n : t.filter[f].ts[k].ts \in K
    /\ \A k, l \in 1 .. n : t.filter[f].ts[k].ts = t.filter[f].ts[l].ts => k = l
    /\ \A x \in K : \E k \in 1 .. n : t.filter[f].ts[k].ts = x

(* dvb_dmxdev_start_feed for the first n PIDs: the feeds K run with the  *)
(* section filters J, and the list of the filter names them, unless one  *)
(* was refused.                                                          *)
LEMMA StartTsIs ==
    ASSUME NEW s \in Sys, NEW f \in Filters, NEW n \in Nat, n <= Len(s.filter[f].ts), NEW t, t = StartFeed(s, f, n)
    PROVE  /\ t \in Sys /\ (s.refused => t.refused) /\ (~t.refused => Started(s, f, n) = 1 .. n)
           /\ Listed(s, t, f, t.filter[f].ts) /\ DOMAIN t.filter[f].ts = 1 .. Len(s.filter[f].ts)
           /\ Started(s, f, n) = 1 .. n => \E K, J : Attached(s, t, f, K, J) /\ Filled(s, t, f, n, K)
<1> DEFINE a == Ascending(FreeFeeds(s))
           b == Ascending(FreeDmxFilters(s))
           S == Started(s, f, n)
           L == NewTs(s, f, n, a)
           F == NewFeed(s, f, n, a, b)
           D == NewDmx(s, f, n, a, b)
           R == s.refused \/ S # 1 .. n
           u == SetTs(s, f, L)
           v == [u EXCEPT !.feed = F]
           w == [v EXCEPT !.dmxfilter = D]
           y == [w EXCEPT !.refused = R]
<1>0. a = Ascending(FreeFeeds(s)) /\ b = Ascending(FreeDmxFilters(s))
  OBVIOUS
<1> HIDE DEF a, b
<1>1. t = Begun(s, f, n, L, F, D, S)
  BY ONLY <1>0, t = StartFeed(s, f, n), StartFeedSteps
<1>2. L \in [1 .. Len(s.filter[f].ts) -> Entry]
  BY <1>0, NewTsIs
<1>3. Len(s.filter[f].ts) \in Nat /\ Len(s.filter[f].ts) <= MaxPids
  BY ListIs
<1>4. L \in Lists /\ DOMAIN L = 1 .. Len(s.filter[f].ts)
  <2> HIDE DEF L
  <2> QED
    BY <1>2, <1>3, ListFrom
<1>5. Placed(s, f, S, a, b, F, D)
  BY ONLY <1>0, s \in Sys, f \in Filters, n \in Nat, n <= Len(s.filter[f].ts), NewFeedIs
<1>6. R \in Flag
  BY DEF Flag
<1>7. S \in SUBSET (1 .. n) /\ IsFiniteSet(S) /\ (S = 1 .. n => Tried(s, f, n) = 1 .. n)
      /\ \A k \in S : k \in 1 .. Cardinality(FreeFeeds(s)) /\ k \in 1 .. Cardinality(FreeDmxFilters(s))
  BY StartedAre
<1>8. /\ a \in [1 .. Cardinality(FreeFeeds(s)) -> FreeFeeds(s)]
      /\ \A k, l \in 1 .. Cardinality(FreeFeeds(s)) : a[k] = a[l] => k = l
  BY <1>0, FreesSorted
<1>9. S = 1 .. n =>
        /\ \A k \in 1 .. Len(s.filter[f].ts) : k \notin 1 .. n => L[k] = s.filter[f].ts[k]
        /\ \A k \in 1 .. n : L[k].ts = a[k]
  <2> SUFFICES ASSUME S = 1 .. n
               PROVE  /\ \A k \in 1 .. Len(s.filter[f].ts) : k \notin 1 .. n => L[k] = s.filter[f].ts[k]
                      /\ \A k \in 1 .. n : L[k].ts = a[k]
    OBVIOUS
  <2>1. Tried(s, f, n) = 1 .. n
    BY <1>7
  <2>2. \A k \in 1 .. n : k \in DOMAIN a /\ k \in 1 .. Len(s.filter[f].ts)
    <3>1. \A k \in 1 .. n : k \in 1 .. Cardinality(FreeFeeds(s))
      BY <1>7
    <3>2. DOMAIN a = 1 .. Cardinality(FreeFeeds(s))
      BY <1>8
    <3> QED
      BY <1>3, <3>1, <3>2
  <2> HIDE DEF S
  <2> QED
    BY <2>1, <2>2 DEF NewTs
<1>10. S = Started(s, f, n)
  OBVIOUS
<1> HIDE DEF S, L, F, D, R
<1>30. /\ F \in [Feeds -> FeedRec] /\ D \in [DmxFilters -> DmxRec]
      /\ \A k \in S :
           /\ a[k] \in FreeFeeds(s) /\ b[k] \in FreeDmxFilters(s)
           /\ F[a[k]] = TsFeed(b[k], s.filter[f].ts[k].pid, f)
           /\ D[b[k]] = [free |-> FALSE, feed |-> a[k], priv |-> NULL]
  BY <1>5, Zenon DEF Placed
<1>31. \A x \in Feeds : (\A k \in S : a[k] # x) => F[x] = s.feed[x]
  BY <1>5 DEF Placed
<1>32. \A x \in DmxFilters : (\A k \in S : b[k] # x) => D[x] = s.dmxfilter[x]
  BY <1>5 DEF Placed
<1>11. u \in Sys /\ Same(s, u) /\ Listed(s, u, f, L)
  BY <1>4, SetTsIs
<1>12. [s EXCEPT !.filter[f].ts = L, !.feed = F, !.dmxfilter = D, !.refused = @ \/ S # 1 .. n] = y
  BY DEF Sys, SetTs, R
<1> HIDE DEF u
<1>13. v \in Sys
  BY <1>30, <1>11, SysWith
<1>14. v.feed = F /\ v.filter = u.filter /\ v.adapter = u.adapter /\ v.oops = u.oops
  BY <1>11 DEF Sys
<1> HIDE DEF v
<1>15. w \in Sys
  BY <1>30, <1>13, SysWith
<1>16. w.feed = F /\ w.dmxfilter = D /\ w.filter = u.filter /\ w.adapter = u.adapter /\ w.oops = u.oops
  BY <1>13, <1>14 DEF Sys
<1> HIDE DEF w
<1>17. y \in Sys
  BY <1>6, <1>15, SysWith
<1>18. y.feed = F /\ y.dmxfilter = D /\ y.filter = u.filter /\ y.adapter = u.adapter /\ y.oops = u.oops /\ y.refused = R
  BY <1>15, <1>16 DEF Sys
<1> HIDE DEF y
<1>19. Cardinality(S) \in Int
  BY <1>7, FS_CardinalityType
<1>20. /\ t \in Sys /\ More(y.adapter, t.adapter, Cardinality(S))
       /\ t.filter = y.filter /\ t.feed = y.feed /\ t.dmxfilter = y.dmxfilter
       /\ t.refused = y.refused /\ t.oops = y.oops
  <2>1. t = start_feed(y, Cardinality(S))
    BY <1>1, <1>12 DEF Begun
  <2> QED
    BY ONLY <1>17, <1>19, <2>1, StartFeedIs
<1>21. t.filter[f].ts = L /\ Listed(s, t, f, L) /\ More(s.adapter, t.adapter, Cardinality(S)) /\ t.oops = s.oops
       /\ t.feed = F /\ t.dmxfilter = D /\ t.refused = R
  BY <1>11, <1>18, <1>20 DEF Listed, Same
<1>22. (s.refused => t.refused) /\ (~t.refused => S = 1 .. n)
  BY <1>21, Zenon DEF R
<1>23. ASSUME S = 1 .. n PROVE \E K, J : Attached(s, t, f, K, J) /\ Filled(s, t, f, n, K)
  <2> DEFINE K == {a[k] : k \in S}
             J == {b[k] : k \in S}
  <2>1. Cardinality(K) = Cardinality(S)
    <3>1. \A k, l \in S : a[k] = a[l] => k = l
      BY <1>7, <1>8
    <3> QED
      BY ONLY <1>7, <3>1, CountImage
  <2>2. Filled(s, t, f, n, K)
    <3>1. \A k \in 1 .. n : t.filter[f].ts[k].ts = a[k]
      BY <1>9, <1>21, <1>23
    <3>2. \A k \in 1 .. Len(s.filter[f].ts) : k \notin 1 .. n => t.filter[f].ts[k] = s.filter[f].ts[k]
      BY <1>9, <1>21, <1>23
    <3>3. \A k, l \in 1 .. n : a[k] = a[l] => k = l
      BY <1>7, <1>8, <1>23
    <3> QED
      BY <1>23, <3>1, <3>2, <3>3 DEF Filled
  <2>3. Attached(s, t, f, K, J)
    <3>0. (\A x : x \in K <=> \E k \in S : a[k] = x) /\ (\A j : j \in J <=> \E k \in S : b[k] = j)
      OBVIOUS
    <3> HIDE DEF K, J
    <3>1. \A x \in K : x \in Feeds /\ s.feed[x].state = "free"
      <4>1. \A k \in S : a[k] \in Feeds /\ s.feed[a[k]].state = "free"
        BY <1>30, Zenon DEF FreeFeeds
      <4> QED
        BY ONLY <3>0, <4>1, Zenon
    <3>2. \A j \in J : j \in DmxFilters /\ s.dmxfilter[j].free
      <4>1. \A k \in S : b[k] \in DmxFilters /\ s.dmxfilter[b[k]].free
        BY <1>30, Zenon DEF FreeDmxFilters
      <4> QED
        BY ONLY <3>0, <4>1, Zenon
    <3>3. \A x \in Feeds : x \notin K => t.feed[x] = s.feed[x]
      <4>1. \A x \in Feeds : (\A k \in S : a[k] # x) => t.feed[x] = s.feed[x]
        <5>1. t.feed = F
          BY <1>21
        <5>2. \A x \in Feeds : (\A k \in S : a[k] # x) => F[x] = s.feed[x]
          BY <1>31
        <5> QED
          BY ONLY <5>1, <5>2
      <4> QED
        BY ONLY <3>0, <4>1, Zenon
    <3>4. \A j \in DmxFilters : j \notin J => t.dmxfilter[j] = s.dmxfilter[j]
      <4>1. \A j \in DmxFilters : (\A k \in S : b[k] # j) => t.dmxfilter[j] = s.dmxfilter[j]
        <5>1. t.dmxfilter = D
          BY <1>21
        <5>2. \A j \in DmxFilters : (\A k \in S : b[k] # j) => D[j] = s.dmxfilter[j]
          BY <1>32
        <5> QED
          BY ONLY <5>1, <5>2
      <4> QED
        BY ONLY <3>0, <4>1, Zenon
    <3>5. ASSUME NEW k \in S
          PROVE  /\ t.feed[a[k]].state = "go" /\ t.feed[a[k]].type = "ts" /\ t.feed[a[k]].priv = f
                 /\ t.feed[a[k]].filters = {b[k]}
      <4>1. t.feed[a[k]] = TsFeed(b[k], s.filter[f].ts[k].pid, f)
        BY <1>30, <1>21
      <4> QED
        BY <4>1 DEF TsFeed
    <3>6. ASSUME NEW k \in S PROVE ~t.dmxfilter[b[k]].free /\ t.dmxfilter[b[k]].feed = a[k]
      <4>1. t.dmxfilter[b[k]] = [free |-> FALSE, feed |-> a[k], priv |-> NULL]
        BY <1>30, <1>21
      <4> QED
        BY <4>1
    <3>7. \A x \in K :
         /\ t.feed[x].state = "go" /\ t.feed[x].type = "ts" /\ t.feed[x].priv = f
         /\ \E j \in J : t.feed[x].filters = {j} /\ t.dmxfilter[j].feed = x
      <4> SUFFICES ASSUME NEW x \in K
                   PROVE  /\ t.feed[x].state = "go" /\ t.feed[x].type = "ts" /\ t.feed[x].priv = f
                          /\ \E j \in J : t.feed[x].filters = {j} /\ t.dmxfilter[j].feed = x
        OBVIOUS
      <4>1. PICK k \in S : a[k] = x
        BY ONLY <3>0, x \in K, Zenon
      <4>2. b[k] \in J
        BY ONLY <3>0, k \in S, Zenon
      <4> QED
        BY ONLY <4>1, <4>2, <3>5, <3>6
    <3>8. \A j \in J : /\ ~t.dmxfilter[j].free /\ t.dmxfilter[j].feed \in K
                       /\ t.feed[t.dmxfilter[j].feed].filters = {j}
      <4> SUFFICES ASSUME NEW j \in J
                   PROVE  /\ ~t.dmxfilter[j].free /\ t.dmxfilter[j].feed \in K
                          /\ t.feed[t.dmxfilter[j].feed].filters = {j}
        OBVIOUS
      <4>1. PICK k \in S : b[k] = j
        BY ONLY <3>0, j \in J, Zenon
      <4>2. a[k] \in K
        BY ONLY <3>0, k \in S, Zenon
      <4> QED
        BY ONLY <4>1, <4>2, <3>5, <3>6
    <3> QED
      BY <1>21, <2>1, <3>1, <3>2, <3>3, <3>4, <3>7, <3>8 DEF Attached
  <2> QED
    BY <2>2, <2>3
<1> QED
  BY <1>4, <1>10, <1>20, <1>21, <1>22, <1>23

---------------------------------------------------------------------------
(* Starting a TS filter                                                  *)

(* The entries from n + 1 on have feeds that run for f, each once.         *)
Served(s, f, n) ==
    /\ \A k \in 1 .. Len(s.filter[f].ts) : k \notin 1 .. n =>
         /\ s.filter[f].ts[k].ts \in Feeds
         /\ s.feed[s.filter[f].ts[k].ts].state = "go" /\ s.feed[s.filter[f].ts[k].ts].type = "ts"
         /\ s.feed[s.filter[f].ts[k].ts].priv = f /\ s.feed[s.filter[f].ts[k].ts].filters # {}
    /\ \A k, l \in 1 .. Len(s.filter[f].ts) : k \notin 1 .. n /\ l \notin 1 .. n =>
         (s.filter[f].ts[k].ts = s.filter[f].ts[l].ts => k = l)

(* With the new feeds in front, all entries are served.                    *)
LEMMA AttachServes ==
    ASSUME NEW s \in Sys, NEW t \in Sys, NEW f \in Filters, NEW n \in Nat, n <= Len(s.filter[f].ts),
           NEW K, NEW J, Attached(s, t, f, K, J), Filled(s, t, f, n, K), Served(s, f, n),
           DOMAIN t.filter[f].ts = 1 .. Len(s.filter[f].ts)
    PROVE  /\ Serves(t.feed, t.filter[f].ts, f) /\ \A x \in K : Names(t.filter[f].ts, x)
           /\ \A k \in 1 .. Len(s.filter[f].ts) : k \notin 1 .. n => Names(t.filter[f].ts, s.filter[f].ts[k].ts)
<1> DEFINE N == Len(s.filter[f].ts)
           l == t.filter[f].ts
           m == s.filter[f].ts
<1>1. N \in Nat
  BY ListIs
<1>2. /\ \A x \in K : x \in Feeds /\ s.feed[x].state = "free"
      /\ \A x \in Feeds : x \notin K => t.feed[x] = s.feed[x]
      /\ \A x \in K : t.feed[x].state = "go" /\ t.feed[x].type = "ts" /\ t.feed[x].priv = f
  BY DEF Attached
<1>3. \A x \in K : t.feed[x].filters # {}
  BY DEF Attached
<1>4. /\ \A k \in 1 .. N : k \notin 1 .. n => l[k] = m[k]
      /\ \A k \in 1 .. n : l[k].ts \in K
      /\ \A k, j \in 1 .. n : l[k].ts = l[j].ts => k = j
      /\ \A x \in K : \E k \in 1 .. n : l[k].ts = x
  BY Zenon DEF Filled
<1>5. /\ \A k \in 1 .. N : k \notin 1 .. n =>
           /\ m[k].ts \in Feeds /\ s.feed[m[k].ts].state = "go" /\ s.feed[m[k].ts].type = "ts"
           /\ s.feed[m[k].ts].priv = f /\ s.feed[m[k].ts].filters # {}
      /\ \A k, j \in 1 .. N : k \notin 1 .. n /\ j \notin 1 .. n => (m[k].ts = m[j].ts => k = j)
  BY Zenon DEF Served
<1>6. \A k \in 1 .. n : k \in 1 .. N
  BY <1>1
<1>7. DOMAIN l = 1 .. N
  OBVIOUS
<1>8. "go" # "free"
  OBVIOUS
<1> HIDE DEF N, l, m
<1>9. \A k \in 1 .. N : k \notin 1 .. n => m[k].ts \notin K
  BY <1>2, <1>5, <1>8
<1>10. ASSUME NEW k \in 1 .. N
       PROVE  /\ l[k].ts \in Feeds /\ t.feed[l[k].ts].state = "go" /\ t.feed[l[k].ts].type = "ts"
              /\ t.feed[l[k].ts].priv = f /\ t.feed[l[k].ts].filters # {}
  <2>1. CASE k \in 1 .. n
    BY <1>2, <1>3, <1>4, <2>1
  <2>2. CASE k \notin 1 .. n
    <3>1. l[k].ts = m[k].ts /\ m[k].ts \in Feeds /\ m[k].ts \notin K
      BY <1>4, <1>5, <1>9, <2>2
    <3>2. t.feed[m[k].ts] = s.feed[m[k].ts]
      BY <1>2, <3>1
    <3> QED
      BY <1>5, <2>2, <3>1, <3>2
  <2> QED
    BY <2>1, <2>2
<1>11. ASSUME NEW k \in 1 .. N, NEW j \in 1 .. N, l[k].ts = l[j].ts PROVE k = j
  <2>1. CASE k \in 1 .. n /\ j \in 1 .. n
    BY <1>4, <1>11, <2>1
  <2>2. CASE k \in 1 .. n /\ j \notin 1 .. n
    BY <1>4, <1>9, <1>11, <2>2
  <2>3. CASE k \notin 1 .. n /\ j \in 1 .. n
    BY <1>4, <1>9, <1>11, <2>3
  <2>4. CASE k \notin 1 .. n /\ j \notin 1 .. n
    BY <1>4, <1>5, <1>11, <2>4
  <2> QED
    BY <2>1, <2>2, <2>3, <2>4
<1>12. Serves(t.feed, l, f)
  BY <1>7, <1>10, <1>11, Zenon DEF Serves
<1>13. \A x \in K : Names(l, x)
  BY <1>4, <1>6, <1>7 DEF Names
<1>14. \A k \in 1 .. N : k \notin 1 .. n => Names(l, m[k].ts)
  BY <1>4, <1>7 DEF Names
<1> QED
  BY <1>12, <1>13, <1>14 DEF N, l, m

(* New feeds leave the filters alone.                                    *)
LEMMA AttachedSame ==
    ASSUME NEW s, NEW v, NEW t, NEW f, NEW K, NEW J, Attached(s, v, f, K, J),
           t.feed = v.feed, t.dmxfilter = v.dmxfilter, t.adapter = v.adapter, t.oops = v.oops
    PROVE  Attached(s, t, f, K, J)
<1>1. /\ \A x \in K : x \in Feeds /\ s.feed[x].state = "free"
      /\ \A j \in J : j \in DmxFilters /\ s.dmxfilter[j].free
      /\ \A x \in Feeds : x \notin K => t.feed[x] = s.feed[x]
      /\ \A j \in DmxFilters : j \notin J => t.dmxfilter[j] = s.dmxfilter[j]
  BY DEF Attached
<1>2. \A x \in K :
         /\ t.feed[x].state = "go" /\ t.feed[x].type = "ts" /\ t.feed[x].priv = f
         /\ \E j \in J : t.feed[x].filters = {j} /\ t.dmxfilter[j].feed = x
  BY DEF Attached
<1>3. \A j \in J : ~t.dmxfilter[j].free /\ t.dmxfilter[j].feed \in K /\ t.feed[t.dmxfilter[j].feed].filters = {j}
  BY DEF Attached
<1>4. More(s.adapter, t.adapter, Cardinality(K)) /\ t.oops = s.oops
  BY DEF Attached
<1> QED
  BY <1>1, <1>2, <1>3, <1>4, Zenon DEF Attached

(* What Filled says depends on nothing but the filters.                  *)
LEMMA FilledSame ==
    ASSUME NEW s, NEW v, NEW t, NEW f, NEW n, NEW K, Filled(s, v, f, n, K), t.filter[f].ts = v.filter[f].ts
    PROVE  Filled(s, t, f, n, K)
BY DEF Filled

(* dvb_dmxdev_filter_start for a TS filter.                                *)
LEMMA TsStartIs ==
    ASSUME NEW s \in Sys, NEW f \in Filters, NEW t, t = TsStart(s, f)
    PROVE  t \in Sys /\ (s.refused => t.refused)
<1> DEFINE u == Fail(s, f, FALSE)
           n == Len(s.filter[f].ts)
           v == StartFeed(u, f, n)
<1>1. t = IF Started(u, f, n) = 1 .. n THEN Mark(v, f, GO) ELSE v
  BY DEF TsStart, Fail, Mark
<1>2. u = Fail(s, f, FALSE) /\ v = StartFeed(u, f, n)
  OBVIOUS
<1> HIDE DEF u, v
<1>3. u \in Sys /\ Same(s, u) /\ u.filter = s.filter
  BY ONLY <1>2, s \in Sys, f \in Filters, FlagIs, FailIs
<1>4. n \in Nat /\ n <= Len(u.filter[f].ts)
  BY <1>3, ListIs
<1> HIDE DEF n
<1>5. v \in Sys /\ (u.refused => v.refused)
  <2>1. u \in Sys /\ v = StartFeed(u, f, n)
    BY <1>2, <1>3
  <2> QED
    BY ONLY <1>4, <2>1, f \in Filters, StartTsIs
<1>6. CASE Started(u, f, n) = 1 .. n
  <2>1. t = Mark(v, f, GO) /\ GO \in States
    BY <1>1, <1>6, StateIs
  <2>2. t \in Sys /\ Same(v, t)
    BY ONLY <1>5, <2>1, f \in Filters, MarkIs
  <2> QED
    BY <1>3, <1>5, <2>2 DEF Same
<1>7. CASE Started(u, f, n) # 1 .. n
  BY <1>1, <1>3, <1>5, <1>7 DEF Same
<1> QED
  BY <1>6, <1>7

(* It keeps the invariant: all feeds of the list run for the filter,     *)
(* unless one was refused.                                               *)
LEMMA TsStartGood ==
    ASSUME NEW s \in Sys, NEW f \in Filters, Good(s, NULL), ~On(s.filter[f]), s.filter[f].type = "pes",
           NEW t, t = TsStart(s, f), ~t.refused
    PROVE  Good(t, NULL)
<1> DEFINE u == Fail(s, f, FALSE)
           n == Len(s.filter[f].ts)
           v == StartFeed(u, f, n)
<1>1. t = IF Started(u, f, n) = 1 .. n THEN Mark(v, f, GO) ELSE v
  BY DEF TsStart, Fail, Mark
<1>2. u = Fail(s, f, FALSE) /\ v = StartFeed(u, f, n)
  OBVIOUS
<1> HIDE DEF u, v
<1>3. u \in Sys /\ Same(s, u) /\ u.filter = s.filter
  BY ONLY <1>2, s \in Sys, f \in Filters, FlagIs, FailIs
<1>4. n \in Nat /\ n <= Len(u.filter[f].ts) /\ n = Len(u.filter[f].ts)
  BY <1>3, ListIs
<1>5. Good(u, NULL)
  <2>1. ~On(u.filter[f]) /\ Blank(u.filter[f]) /\ \A x \in Filters : x # f => u.filter[x] = s.filter[x]
    BY <1>3, OffIsBlank
  <2> QED
    BY <1>3, <2>1, EditOff
<1> HIDE DEF n
<1>6. /\ v \in Sys /\ (~v.refused => Started(u, f, n) = 1 .. n)
      /\ Listed(u, v, f, v.filter[f].ts) /\ DOMAIN v.filter[f].ts = 1 .. Len(u.filter[f].ts)
      /\ Started(u, f, n) = 1 .. n => \E K, J : Attached(u, v, f, K, J) /\ Filled(u, v, f, n, K)
  <2>1. u \in Sys /\ v = StartFeed(u, f, n)
    BY <1>2, <1>3
  <2> QED
    BY ONLY <1>4, <2>1, f \in Filters, StartTsIs
<1>7. Started(u, f, n) = 1 .. n
  BY <1>1, <1>6
<1>8. t = Mark(v, f, GO) /\ GO \in States
  BY <1>1, <1>7, StateIs
<1>9. t \in Sys /\ Same(v, t) /\ Marked(v, t, f, GO)
  <2>1. /\ t \in Sys /\ Same(v, t)
        /\ t.filter[f].state = GO /\ t.filter[f].type = v.filter[f].type /\ t.filter[f].pid = v.filter[f].pid
        /\ t.filter[f].sec = v.filter[f].sec /\ t.filter[f].secfilter = v.filter[f].secfilter
        /\ t.filter[f].ts = v.filter[f].ts
        /\ \A x \in Filters : x # f => t.filter[x] = v.filter[x]
    BY ONLY <1>6, <1>8, f \in Filters, MarkIs
  <2> QED
    BY <2>1 DEF Marked
<1>10. PICK K, J : Attached(u, v, f, K, J) /\ Filled(u, v, f, n, K)
  BY <1>6, <1>7
<1>11. Attached(u, t, f, K, J) /\ Filled(u, t, f, n, K)
  <2>1. t.feed = v.feed /\ t.dmxfilter = v.dmxfilter /\ t.adapter = v.adapter /\ t.oops = v.oops
        /\ t.filter[f].ts = v.filter[f].ts
    BY <1>9, Zenon DEF Same, Marked
  <2>2. Attached(u, t, f, K, J)
    BY ONLY <1>10, <2>1, AttachedSame
  <2>3. Filled(u, t, f, n, K)
    BY ONLY <1>10, <2>1, FilledSame
  <2> QED
    BY <2>2, <2>3
<1>12. Served(u, f, n)
  BY <1>4 DEF Served
<1>13. DOMAIN t.filter[f].ts = 1 .. Len(u.filter[f].ts)
  BY <1>6, <1>9 DEF Marked
<1>14. Serves(t.feed, t.filter[f].ts, f) /\ \A x \in K : Names(t.filter[f].ts, x)
  <2>1. t \in Sys /\ u \in Sys /\ n \in Nat /\ n <= Len(u.filter[f].ts)
    BY <1>3, <1>4, <1>9
  <2> QED
    BY ONLY <1>11, <1>12, <1>13, <2>1, f \in Filters, AttachServes
<1>15. ~SecOn(u, f) /\ ~PesOn(u, f)
  BY <1>3 DEF SecOn, PesOn
<1>16. PesOn(t, f)
  <2>1. On(t.filter[f])
    BY <1>9, StateIs DEF Marked, On
  <2>2. t.filter[f].type = "pes"
    BY <1>3, <1>6, <1>9 DEF Marked, Listed
  <2> QED
    BY <2>1, <2>2 DEF PesOn
<1>17. \A g \in Filters : g # f => t.filter[g] = u.filter[g]
  BY <1>6, <1>9 DEF Marked, Listed
<1> QED
  <2>1. t \in Sys /\ u \in Sys
    BY <1>3, <1>9
  <2> QED
    BY ONLY <1>5, <1>11, <1>14, <1>15, <1>16, <1>17, <2>1, f \in Filters, AttachGood

---------------------------------------------------------------------------
(* Stopping a TS filter                                                  *)

(* The same feeds go when the states agree.                              *)
LEMMA DetachedSame ==
    ASSUME NEW s, NEW u, NEW w, NEW t, NEW S, Detached(u, w, S), Same(s, u), Same(w, t)
    PROVE  Detached(s, t, S)
<1>1. /\ u.feed = s.feed /\ u.dmxfilter = s.dmxfilter /\ u.adapter = s.adapter /\ u.oops = s.oops
      /\ t.feed = w.feed /\ t.dmxfilter = w.dmxfilter /\ t.adapter = w.adapter /\ t.oops = w.oops
  BY DEF Same
<1>2. \A x \in Feeds : IF x \in S THEN t.feed[x] = FreeFeed ELSE t.feed[x] = s.feed[x]
  BY <1>1 DEF Detached
<1>3. \A j \in DmxFilters : IF \E x \in S : j \in s.feed[x].filters
                            THEN t.dmxfilter[j] = FreeDmxFilter ELSE t.dmxfilter[j] = s.dmxfilter[j]
  BY <1>1 DEF Detached
<1>4. Fewer(s.adapter, t.adapter, Cardinality(S)) /\ t.oops = s.oops
  BY <1>1 DEF Detached
<1> QED
  BY <1>2, <1>3, <1>4, Zenon DEF Detached

(* The list of a TS filter that is stopped.                                *)
Emptied(ts) == [k \in 1 .. Len(ts) |-> [pid |-> ts[k].pid, ts |-> NULL]]
FeedsOf(ts) == {ts[k].ts : k \in 1 .. Len(ts)}

(* Such a list is one, and names nothing.                                *)
LEMMA EmptiedIs ==
    ASSUME NEW s \in Sys, NEW f \in Filters, NEW l, l = Emptied(s.filter[f].ts)
    PROVE  l \in Lists /\ \A k \in DOMAIN l : l[k].ts = NULL
<1> DEFINE ts == s.filter[f].ts
           n == Len(ts)
<1>1. n \in Nat /\ n <= MaxPids /\ \A k \in 1 .. n : ts[k].pid \in Pids
  BY ListIs
<1>2. l = [k \in 1 .. n |-> [pid |-> ts[k].pid, ts |-> NULL]]
  BY DEF Emptied
<1> HIDE DEF ts, n
<1>3. \A k \in 1 .. n : [pid |-> ts[k].pid, ts |-> NULL] \in Entry
  BY <1>1 DEF Entry
<1>4. l \in [1 .. n -> Entry] /\ \A k \in 1 .. n : l[k].ts = NULL
  BY <1>2, <1>3
<1>5. l \in Lists /\ DOMAIN l = 1 .. n
  BY ONLY <1>1, <1>4, ListFrom
<1> QED
  BY <1>4, <1>5

(* dvb_dmxdev_feed_stop for a TS filter, by its steps.                   *)
LEMMA TsFeedsStopSteps ==
    ASSUME NEW s, NEW f, NEW t, t = TsFeedsStop(s, f)
    PROVE  t = IF NULL \in FeedsOf(s.filter[f].ts) THEN [Mark(s, f, SET) EXCEPT !.oops = TRUE]
               ELSE SetTs(ReleaseTsFeed(TsStopFiltering(Mark(s, f, SET), FeedsOf(s.filter[f].ts)),
                                        FeedsOf(s.filter[f].ts)), f, Emptied(s.filter[f].ts))
BY Zenon DEF TsFeedsStop, FeedsOf, Mark, SetTs, Emptied

(* The feeds of a list are feeds.                                        *)
LEMMA FeedsOfAre ==
    ASSUME NEW s \in Sys, NEW f \in Filters
    PROVE  /\ \A x \in FeedsOf(s.filter[f].ts) : x \in Feeds \cup {NULL}
           /\ \A x : x \in FeedsOf(s.filter[f].ts) <=> Names(s.filter[f].ts, x)
<1>1. /\ DOMAIN s.filter[f].ts = 1 .. Len(s.filter[f].ts)
      /\ \A k \in 1 .. Len(s.filter[f].ts) : s.filter[f].ts[k].ts \in Feeds \cup {NULL}
  BY ListIs
<1> QED
  BY <1>1 DEF FeedsOf, Names

(* All feeds of the list of a TS filter are given back.                    *)
LEMMA TsFeedsStopIs ==
    ASSUME NEW s \in Sys, NEW f \in Filters, NEW t, t = TsFeedsStop(s, f)
    PROVE  /\ t \in Sys /\ t.refused = s.refused
           /\ t.filter[f].state = SET /\ t.filter[f].type = s.filter[f].type /\ t.filter[f].pid = s.filter[f].pid
           /\ Good(s, NULL) /\ PesOn(s, f) => Good(t, NULL)
<1> DEFINE all == FeedsOf(s.filter[f].ts)
           l == Emptied(s.filter[f].ts)
           u == Mark(s, f, SET)
           w == ReleaseTsFeed(TsStopFiltering(u, all), all)
<1>1. t = IF NULL \in all THEN [u EXCEPT !.oops = TRUE] ELSE SetTs(w, f, l)
  BY ONLY t = TsFeedsStop(s, f), TsFeedsStopSteps
<1>2. l \in Lists /\ \A k \in DOMAIN l : l[k].ts = NULL
  BY EmptiedIs
<1>3. (\A x \in all : x \in Feeds \cup {NULL}) /\ (\A x : x \in all <=> Names(s.filter[f].ts, x))
  BY FeedsOfAre
<1>4. u = Mark(s, f, SET) /\ w = ReleaseTsFeed(TsStopFiltering(u, all), all)
  OBVIOUS
<1> HIDE DEF all, l, u, w
<1>5. u \in Sys /\ Same(s, u) /\ Marked(s, u, f, SET)
  <2>1. SET \in States
    BY StateIs
  <2>2. /\ u \in Sys /\ Same(s, u)
        /\ u.filter[f].state = SET /\ u.filter[f].type = s.filter[f].type /\ u.filter[f].pid = s.filter[f].pid
        /\ u.filter[f].sec = s.filter[f].sec /\ u.filter[f].secfilter = s.filter[f].secfilter
        /\ u.filter[f].ts = s.filter[f].ts
        /\ \A x \in Filters : x # f => u.filter[x] = s.filter[x]
    BY ONLY <1>4, <2>1, s \in Sys, f \in Filters, MarkIs
  <2> QED
    BY <2>2 DEF Marked
<1>6. CASE NULL \in all
  <2>1. t = [u EXCEPT !.oops = TRUE]
    BY <1>1, <1>6
  <2>2. t \in Sys
    BY <1>5, <2>1, FlagIs, SysWith, Zenon
  <2>3. t.filter = u.filter /\ t.refused = u.refused
    BY <1>5, <2>1 DEF Sys
  <2>4. ~(Good(s, NULL) /\ PesOn(s, f))
    <3>1. Names(s.filter[f].ts, NULL)
      BY <1>3, <1>6
    <3>2. Good(s, NULL) /\ PesOn(s, f) => Serves(s.feed, s.filter[f].ts, f)
      BY DEF Good, Streams
    <3>3. PICK k \in DOMAIN s.filter[f].ts : s.filter[f].ts[k].ts = NULL
      BY <3>1 DEF Names
    <3>4. Serves(s.feed, s.filter[f].ts, f) => NULL \in Feeds
      BY <3>3 DEF Serves
    <3> QED
      BY <3>2, <3>4, PoolsAre
  <2> QED
    BY <1>5, <2>2, <2>3, <2>4 DEF Marked, Same
<1>7. CASE NULL \notin all
  <2>1. t = SetTs(w, f, l) /\ all \in SUBSET Feeds
    BY <1>1, <1>3, <1>7
  <2>2. /\ w \in Sys /\ w.filter = u.filter /\ w.refused = u.refused
        /\ (\A x \in all : u.feed[x].state = "go" /\ u.feed[x].filters # {}) => Detached(u, w, all)
    BY ONLY <1>4, <1>5, <2>1, DetachIs
  <2>3. t \in Sys /\ Same(w, t) /\ Listed(w, t, f, l)
    BY ONLY <1>2, <2>1, <2>2, f \in Filters, SetTsIs
  <2>4. t.filter[f].state = SET /\ t.filter[f].type = s.filter[f].type /\ t.filter[f].pid = s.filter[f].pid
        /\ t.filter[f].ts = l /\ t.refused = s.refused /\ \A g \in Filters : g # f => t.filter[g] = s.filter[g]
    BY <1>5, <2>2, <2>3 DEF Marked, Same, Listed
  <2>5. ASSUME Good(s, NULL), PesOn(s, f) PROVE Good(t, NULL)
    <3>1. Serves(s.feed, s.filter[f].ts, f)
      BY <2>5 DEF Good, Streams
    <3>2. \A x \in all : s.feed[x].state = "go" /\ s.feed[x].filters # {}
      <4>1. \A x \in all : Names(s.filter[f].ts, x)
        BY <1>3
      <4>2. \A k \in DOMAIN s.filter[f].ts :
               LET x == s.filter[f].ts[k].ts IN s.feed[x].state = "go" /\ s.feed[x].filters # {}
        BY ONLY <3>1 DEF Serves
      <4> QED
        BY ONLY <4>1, <4>2 DEF Names
    <3>3. u.feed = s.feed
      BY <1>5 DEF Same
    <3>4. Detached(u, w, all)
      BY <2>2, <3>2, <3>3
    <3>5. Detached(s, t, all)
      BY ONLY <1>5, <2>3, <3>4, DetachedSame
    <3>6. ~On(t.filter[f])
      BY <2>4, StateIs DEF On
    <3>7. Blank(t.filter[f]) /\ ~PesOn(t, f)
      BY <1>2, <2>4, <3>6 DEF Blank, PesOn
    <3>8. \A x \in all : Names(s.filter[f].ts, x)
      BY <1>3
    <3>9. \A x \in Feeds : ~(Names(s.filter[f].ts, x) /\ x \notin all)
      BY <1>3
    <3>10. \A g \in Filters : g # f => t.filter[g] = s.filter[g]
      BY <2>4
    <3> QED
      BY ONLY <2>1, <2>3, <2>5, <3>5, <3>6, <3>7, <3>8, <3>9, <3>10, s \in Sys, f \in Filters, DetachGood
  <2> QED
    BY <2>3, <2>4, <2>5
<1> QED
  BY <1>6, <1>7

---------------------------------------------------------------------------
(* Starting, stopping and closing                                        *)

(* Nothing that matters is changed.                                        *)
LEMMA SameGood ==
    ASSUME NEW s \in Sys, NEW t \in Sys, NEW h, Good(s, h), Same(s, t), t.filter = s.filter
    PROVE  Good(t, h)
<1>1. \A x \in Filters : ~On(s.filter[x]) => \A k \in DOMAIN s.filter[x].ts : s.filter[x].ts[k].ts = NULL
  BY DEF Good, Quiet, PesOn
<1>2. t.feed = s.feed /\ t.dmxfilter = s.dmxfilter /\ t.adapter = s.adapter /\ t.oops = s.oops
  BY DEF Same
<1> QED
  BY <1>1, <1>2, EditKeeps

(* dvb_dmxdev_filter_stop                                                  *)
LEMMA FilterStopIs ==
    ASSUME NEW s \in Sys, NEW f \in Filters, NEW t, t = FilterStop(s, f)
    PROVE  /\ t \in Sys /\ t.refused = s.refused
           /\ t.filter[f].type = s.filter[f].type /\ t.filter[f].pid = s.filter[f].pid
           /\ Good(s, NULL) => Good(t, NULL) /\ ~On(t.filter[f])
<1> DEFINE r == s.filter[f]
           u == Fail(s, f, FALSE)
<1>1. t = IF r.state < GO \/ r.type = "none" THEN s
          ELSE IF r.type = "pes" THEN TsFeedsStop(u, f)
          ELSE IF r.sec = NULL THEN u
          ELSE SecStop(u, f)
  BY DEF FilterStop, Fail
<1>2. u = Fail(s, f, FALSE)
  OBVIOUS
<1> HIDE DEF u
<1>3. u \in Sys /\ Same(s, u) /\ u.filter = s.filter
  BY ONLY <1>2, s \in Sys, f \in Filters, FlagIs, FailIs
<1>4. u.refused = s.refused /\ u.filter[f] = s.filter[f]
  BY <1>3 DEF Same
<1>5. Good(s, NULL) => Good(u, NULL)
  BY <1>3, SameGood
<1>6. r \in FilterRec
  BY SysParts
<1>7. r.state \in States /\ r.sec \in Feeds \cup {NULL} /\ r.type \in {"none", "sec", "pes"}
  BY <1>6 DEF FilterRec
<1>8. On(r) <=> ~(r.state < GO)
  BY <1>7, StateIs DEF On
<1>9. CASE r.state < GO \/ r.type = "none"
  <2>1. t = s
    BY <1>1, <1>9
  <2>2. Good(s, NULL) => ~On(r)
    BY <1>8, <1>9 DEF Good, Kinds
  <2> QED
    BY <2>1, <2>2
<1>10. CASE ~(r.state < GO \/ r.type = "none") /\ r.type = "pes"
  <2>1. t = TsFeedsStop(u, f)
    BY <1>1, <1>10
  <2>2. /\ t \in Sys /\ t.refused = u.refused
        /\ t.filter[f].state = SET /\ t.filter[f].type = u.filter[f].type /\ t.filter[f].pid = u.filter[f].pid
        /\ Good(u, NULL) /\ PesOn(u, f) => Good(t, NULL)
    BY ONLY <1>3, <2>1, f \in Filters, TsFeedsStopIs
  <2>3. PesOn(u, f)
    BY <1>4, <1>8, <1>10 DEF PesOn
  <2>4. ~On(t.filter[f])
    BY <2>2, StateIs DEF On
  <2> QED
    BY <1>4, <1>5, <2>2, <2>3, <2>4
<1>11. CASE ~(r.state < GO \/ r.type = "none") /\ r.type # "pes" /\ r.sec = NULL
  <2>1. t = u
    BY <1>1, <1>11
  <2>2. ~Good(s, NULL)
    <3>1. SecOn(s, f)
      BY <1>7, <1>8, <1>11 DEF SecOn
    <3> QED
      BY <1>11, <3>1, PoolsAre DEF Good, Sections
  <2> QED
    BY <1>3, <1>4, <2>1, <2>2
<1>12. CASE ~(r.state < GO \/ r.type = "none") /\ r.type # "pes" /\ r.sec # NULL
  <2>1. t = SecStop(u, f)
    BY <1>1, <1>12
  <2>2. u.filter[f].sec \in Feeds
    BY <1>4, <1>7, <1>12
  <2>3. /\ t \in Sys /\ t.refused = u.refused
        /\ t.filter[f].state = SET /\ t.filter[f].type = u.filter[f].type
        /\ t.filter[f].pid = u.filter[f].pid
    BY ONLY <1>3, <2>1, <2>2, f \in Filters, SecStopIs
  <2>4. ~On(t.filter[f])
    BY <2>3, StateIs DEF On
  <2>5. SecOn(u, f)
    BY <1>4, <1>7, <1>8, <1>12 DEF SecOn
  <2>6. Good(u, NULL) => Good(t, NULL)
    BY ONLY <1>3, <2>1, <2>5, f \in Filters, SecStopGood
  <2> QED
    BY <1>4, <1>5, <2>3, <2>4, <2>6
<1> QED
  BY <1>9, <1>10, <1>11, <1>12

(* dvb_dmxdev_filter_start                                                 *)
LEMMA FilterStartIs ==
    ASSUME NEW s \in Sys, NEW f \in Filters, NEW t, t = FilterStart(s, f)
    PROVE  /\ t \in Sys /\ (s.refused => t.refused)
           /\ Good(s, NULL) /\ ~t.refused => Good(t, NULL)
<1> DEFINE u == FilterStop(s, f)
<1>1. t = IF s.filter[f].state < SET THEN s
          ELSE IF s.filter[f].type = "sec" THEN SecStart(u, f)
          ELSE IF s.filter[f].type = "pes" THEN TsStart(u, f)
          ELSE u
  BY DEF FilterStart
<1>2. u = FilterStop(s, f)
  OBVIOUS
<1> HIDE DEF u
<1>3. /\ u \in Sys /\ u.refused = s.refused
      /\ u.filter[f].type = s.filter[f].type /\ u.filter[f].pid = s.filter[f].pid
      /\ Good(s, NULL) => Good(u, NULL) /\ ~On(u.filter[f])
  BY ONLY <1>2, s \in Sys, f \in Filters, FilterStopIs
<1>4. CASE s.filter[f].state < SET
  BY <1>1, <1>4
<1>5. CASE ~(s.filter[f].state < SET) /\ s.filter[f].type = "sec"
  <2>1. t = SecStart(u, f) /\ u.filter[f].type = "sec"
    BY <1>1, <1>3, <1>5
  <2>2. t \in Sys /\ t.refused = u.refused
    BY ONLY <1>3, <2>1, f \in Filters, SecStartIs
  <2>3. ASSUME Good(u, NULL), ~On(u.filter[f]) PROVE Good(t, NULL)
    BY ONLY <1>3, <2>1, <2>3, f \in Filters, SecStartGood
  <2> QED
    BY <1>3, <2>2, <2>3
<1>6. CASE ~(s.filter[f].state < SET) /\ s.filter[f].type # "sec" /\ s.filter[f].type = "pes"
  <2>1. t = TsStart(u, f) /\ u.filter[f].type = "pes"
    BY <1>1, <1>3, <1>6
  <2>2. t \in Sys /\ (u.refused => t.refused)
    BY ONLY <1>3, <2>1, f \in Filters, TsStartIs
  <2>3. ASSUME Good(u, NULL), ~On(u.filter[f]), ~t.refused PROVE Good(t, NULL)
    BY ONLY <1>3, <2>1, <2>3, f \in Filters, TsStartGood
  <2> QED
    BY <1>3, <2>2, <2>3
<1>7. CASE ~(s.filter[f].state < SET) /\ s.filter[f].type # "sec" /\ s.filter[f].type # "pes"
  BY <1>1, <1>3, <1>7
<1> QED
  BY <1>4, <1>5, <1>6, <1>7

(* dvb_dmxdev_filter_reset                                                 *)
LEMMA FilterResetIs ==
    ASSUME NEW s \in Sys, NEW f \in Filters, NEW t, t = FilterReset(s, f)
    PROVE  /\ t \in Sys /\ t.refused = s.refused
           /\ Good(s, NULL) /\ ~On(s.filter[f]) => Good(t, NULL) /\ ~On(t.filter[f])
<1> DEFINE r == [FreshFilter EXCEPT !.state = ALLOCATED, !.sec = s.filter[f].sec]
<1>1. s.filter[f] \in FilterRec
  BY SysParts
<1>2. s.filter[f].sec \in Feeds \cup {NULL}
  BY <1>1 DEF FilterRec
<1>3. r \in FilterRec /\ r.state = ALLOCATED /\ r.ts = <<>>
  <2> DEFINE q == [FreshFilter EXCEPT !.state = ALLOCATED]
  <2>1. q \in FilterRec /\ q.state = ALLOCATED /\ q.ts = <<>>
    BY FreshAre DEF FreshFilter
  <2>2. r = [q EXCEPT !.sec = s.filter[f].sec]
    OBVIOUS
  <2> HIDE DEF q, r
  <2>3. r \in FilterRec
    BY <1>2, <2>1, <2>2, FilterWith
  <2> QED
    BY <2>1, <2>2, <2>3 DEF FilterRec
<1>4. t = IF s.filter[f].state < SET THEN s ELSE With(s, f, r)
  BY DEF FilterReset, With
<1> HIDE DEF r
<1>5. CASE s.filter[f].state < SET
  BY <1>4, <1>5
<1>6. CASE ~(s.filter[f].state < SET)
  <2>1. t = With(s, f, r) /\ r \in FilterRec
    BY <1>3, <1>4, <1>6
  <2>2. /\ t \in Sys /\ Same(s, t)
        /\ t.filter[f] = r /\ \A x \in Filters : x # f => t.filter[x] = s.filter[x]
    BY ONLY <2>1, s \in Sys, f \in Filters, SetIs
  <2>3. ~On(t.filter[f])
    BY <1>3, <2>2, StateIs DEF On
  <2>4. Blank(t.filter[f])
    BY <1>3, <2>2 DEF Blank
  <2>5. Good(s, NULL) /\ ~On(s.filter[f]) => Good(t, NULL)
    BY ONLY <2>2, <2>3, <2>4, s \in Sys, f \in Filters, EditOff
  <2>6. t.refused = s.refused
    BY <2>2 DEF Same
  <2> QED
    BY <2>2, <2>3, <2>5, <2>6
<1> QED
  BY <1>5, <1>6

(* dvb_demux_release                                                       *)
LEMMA CloseIs ==
    ASSUME NEW s \in Sys, NEW f \in Filters, NEW t, t = Mark(FilterReset(FilterStop(s, f), f), f, FREE)
    PROVE  t \in Sys /\ t.refused = s.refused /\ (Good(s, NULL) => Good(t, NULL))
<1> DEFINE u == FilterStop(s, f)
           v == FilterReset(u, f)
<1>1. u = FilterStop(s, f) /\ v = FilterReset(u, f) /\ t = Mark(v, f, FREE) /\ FREE \in States
  BY StateIs
<1> HIDE DEF u, v
<1>2. /\ u \in Sys /\ u.refused = s.refused
      /\ u.filter[f].type = s.filter[f].type /\ u.filter[f].pid = s.filter[f].pid
      /\ Good(s, NULL) => Good(u, NULL) /\ ~On(u.filter[f])
  BY ONLY <1>1, s \in Sys, f \in Filters, FilterStopIs
<1>3. /\ v \in Sys /\ v.refused = u.refused
      /\ Good(u, NULL) /\ ~On(u.filter[f]) => Good(v, NULL) /\ ~On(v.filter[f])
  BY ONLY <1>1, <1>2, f \in Filters, FilterResetIs
<1>4. /\ t \in Sys /\ Same(v, t)
      /\ t.filter[f].state = FREE /\ t.filter[f].type = v.filter[f].type /\ t.filter[f].pid = v.filter[f].pid
      /\ t.filter[f].sec = v.filter[f].sec /\ t.filter[f].secfilter = v.filter[f].secfilter
      /\ t.filter[f].ts = v.filter[f].ts
      /\ \A x \in Filters : x # f => t.filter[x] = v.filter[x]
  BY ONLY <1>1, <1>3, f \in Filters, MarkIs
<1>5. ~On(t.filter[f])
  BY <1>4, StateIs DEF On
<1>6. ASSUME Good(v, NULL), ~On(v.filter[f]) PROVE Good(t, NULL)
  <2>1. Blank(v.filter[f])
    BY <1>6, OffIsBlank
  <2>2. Blank(t.filter[f]) /\ \A x \in Filters : x # f => t.filter[x] = v.filter[x]
    BY <1>4, <2>1 DEF Blank
  <2> QED
    BY ONLY <1>3, <1>4, <1>5, <1>6, <2>2, f \in Filters, EditOff
<1> QED
  BY <1>2, <1>3, <1>4, <1>6 DEF Same

(* A filter that is off gets other parameters.                             *)
LEMMA ParametersIs ==
    ASSUME NEW s \in Sys, NEW f \in Filters, NEW r \in FilterRec, r.state = SET, Blank(r),
           NEW t, t = With(s, f, r)
    PROVE  /\ t \in Sys /\ t.refused = s.refused
           /\ Good(s, NULL) /\ ~On(s.filter[f]) => Good(t, NULL)
<1>1. /\ t \in Sys /\ Same(s, t)
      /\ t.filter[f] = r /\ \A x \in Filters : x # f => t.filter[x] = s.filter[x]
  BY ONLY s \in Sys, f \in Filters, r \in FilterRec, t = With(s, f, r), SetIs
<1>2. ~On(t.filter[f]) /\ Blank(t.filter[f])
  BY <1>1, StateIs DEF On
<1>3. Good(s, NULL) /\ ~On(s.filter[f]) => Good(t, NULL)
  BY ONLY <1>1, <1>2, s \in Sys, f \in Filters, EditOff
<1> QED
  BY <1>1, <1>3 DEF Same

(* DMX_SET_FILTER                                                          *)
SecParameters(r, pid, oneshot, timeout) ==
    [r EXCEPT !.type = "sec", !.pid = pid, !.oneshot = oneshot, !.timeout = timeout, !.ts = <<>>, !.state = SET]

(* A filter with these parameters is one.                                *)
LEMMA SecParametersIs ==
    ASSUME NEW r \in FilterRec, NEW pid \in Pids, NEW oneshot \in Flag, NEW timeout \in Flag,
           NEW q, q = SecParameters(r, pid, oneshot, timeout)
    PROVE  q \in FilterRec /\ q.state = SET /\ Blank(q)
<1>1. SET \in States /\ <<>> \in Lists /\ DOMAIN <<>> = {}
  BY StateIs, FreshAre
<1>2. q \in FilterRec /\ q.state = SET /\ q.ts = <<>>
  BY <1>1 DEF SecParameters, FilterRec
<1> QED
  BY <1>1, <1>2 DEF Blank

(* DMX_SET_PES_FILTER                                                      *)
PesParameters(r, pid, multi) ==
    [r EXCEPT !.type = "pes", !.multi = multi, !.oneshot = FALSE, !.timeout = FALSE,
              !.ts = <<[pid |-> pid, ts |-> NULL]>>, !.sec = NULL, !.state = SET]

(* A filter with these parameters is one, with no feed in its list.      *)
LEMMA PesParametersIs ==
    ASSUME NEW r \in FilterRec, NEW pid \in Pids, NEW multi \in Flag, NEW q, q = PesParameters(r, pid, multi)
    PROVE  q \in FilterRec /\ q.state = SET /\ Blank(q)
<1> DEFINE l == <<[pid |-> pid, ts |-> NULL]>>
<1>1. SET \in States /\ FALSE \in Flag
  BY StateIs, FlagIs
<1>2. [pid |-> pid, ts |-> NULL] \in Entry
  BY DEF Entry
<1>3. l \in Seq(Entry) /\ Len(l) = 1 /\ DOMAIN l = 1 .. 1 /\ l[1].ts = NULL
  BY <1>2
<1>4. l \in Lists /\ \A k \in DOMAIN l : l[k].ts = NULL
  BY <1>3, PoolsAssumption DEF Lists
<1>5. q = [r EXCEPT !.type = "pes", !.multi = multi, !.oneshot = FALSE, !.timeout = FALSE,
              !.ts = l, !.sec = NULL, !.state = SET]
  BY DEF PesParameters
<1> HIDE DEF l
<1>6. q \in FilterRec /\ q.state = SET /\ q.ts = l
  BY <1>1, <1>4, <1>5, ZenonT(30) DEF FilterRec
<1> QED
  BY <1>4, <1>6 DEF Blank

---------------------------------------------------------------------------
(* Setting a filter up                                                   *)

(* DMX_SET_FILTER stops the filter and sets it.                          *)
LEMMA SetFilterIs ==
    ASSUME NEW s \in Sys, NEW f \in Filters, NEW pid \in Pids, NEW oneshot \in Flag, NEW timeout \in Flag,
           NEW t, t = With(FilterStop(s, f), f, SecParameters(FilterStop(s, f).filter[f], pid, oneshot, timeout))
    PROVE  t \in Sys /\ t.refused = s.refused /\ (Good(s, NULL) => Good(t, NULL))
<1> DEFINE u == FilterStop(s, f)
           r == u.filter[f]
           q == SecParameters(r, pid, oneshot, timeout)
<1>1. u = FilterStop(s, f)
  OBVIOUS
<1>2. /\ u \in Sys /\ u.refused = s.refused
      /\ u.filter[f].type = s.filter[f].type /\ u.filter[f].pid = s.filter[f].pid
      /\ Good(s, NULL) => Good(u, NULL) /\ ~On(u.filter[f])
  <2> HIDE DEF u
  <2> QED
    BY ONLY <1>1, s \in Sys, f \in Filters, FilterStopIs
<1>5. t = With(u, f, q)
  OBVIOUS
<1> HIDE DEF u
<1>4. u.filter \in [Filters -> FilterRec] /\ r \in FilterRec
  BY <1>2, SysParts
<1>6. q = SecParameters(r, pid, oneshot, timeout)
  OBVIOUS
<1> HIDE DEF q, r
<1>7. q \in FilterRec /\ q.state = SET /\ Blank(q)
  BY ONLY <1>4, <1>6, pid \in Pids, oneshot \in Flag, timeout \in Flag, SecParametersIs
<1>8. /\ t \in Sys /\ t.refused = u.refused
      /\ Good(u, NULL) /\ ~On(u.filter[f]) => Good(t, NULL)
  BY ONLY <1>2, <1>5, <1>7, f \in Filters, ParametersIs
<1> QED
  BY <1>2, <1>8

(* DMX_SET_PES_FILTER stops the filter, resets and sets it.              *)
LEMMA SetPesFilterIs ==
    ASSUME NEW s \in Sys, NEW f \in Filters, NEW pid \in Pids, NEW multi \in Flag,
           NEW t, t = With(FilterReset(FilterStop(s, f), f), f,
                           PesParameters(FilterReset(FilterStop(s, f), f).filter[f], pid, multi))
    PROVE  t \in Sys /\ t.refused = s.refused /\ (Good(s, NULL) => Good(t, NULL))
<1> DEFINE v == FilterStop(s, f)
           u == FilterReset(v, f)
           r == u.filter[f]
           q == PesParameters(r, pid, multi)
<1>1. v = FilterStop(s, f) /\ u = FilterReset(v, f)
  OBVIOUS
<1>5. t = With(u, f, q)
  OBVIOUS
<1> HIDE DEF u, v
<1>2. /\ v \in Sys /\ v.refused = s.refused
      /\ v.filter[f].type = s.filter[f].type /\ v.filter[f].pid = s.filter[f].pid
      /\ Good(s, NULL) => Good(v, NULL) /\ ~On(v.filter[f])
  BY ONLY <1>1, s \in Sys, f \in Filters, FilterStopIs
<1>9. /\ u \in Sys /\ u.refused = v.refused
      /\ Good(v, NULL) /\ ~On(v.filter[f]) => Good(u, NULL) /\ ~On(u.filter[f])
  BY ONLY <1>1, <1>2, f \in Filters, FilterResetIs
<1>4. u.filter \in [Filters -> FilterRec] /\ r \in FilterRec
  BY <1>9, SysParts
<1>6. q = PesParameters(r, pid, multi)
  OBVIOUS
<1> HIDE DEF q, r
<1>7. q \in FilterRec /\ q.state = SET /\ Blank(q)
  BY ONLY <1>4, <1>6, pid \in Pids, multi \in Flag, PesParametersIs
<1>8. /\ t \in Sys /\ t.refused = u.refused
      /\ Good(u, NULL) /\ ~On(u.filter[f]) => Good(t, NULL)
  BY ONLY <1>9, <1>5, <1>7, f \in Filters, ParametersIs
<1> QED
  BY <1>2, <1>8, <1>9

(* A new entry in front of a list.                                         *)
Prepends(l, ts) ==
    /\ Len(l) = Len(ts) + 1 /\ DOMAIN l = 1 .. Len(ts) + 1 /\ l[1].ts = NULL
    /\ \A k \in 1 .. Len(ts) + 1 : k # 1 => k - 1 \in 1 .. Len(ts) /\ l[k] = ts[k - 1]
    /\ \A k \in 1 .. Len(ts) : k + 1 \in 1 .. Len(ts) + 1 /\ l[k + 1] = ts[k]

(* The list with a new entry in front is a list.                         *)
LEMMA PrependIs ==
    ASSUME NEW s \in Sys, NEW f \in Filters, Len(s.filter[f].ts) < MaxPids, NEW pid \in Pids,
           NEW l, l = <<[pid |-> pid, ts |-> NULL]>> \o s.filter[f].ts
    PROVE  l \in Lists /\ Prepends(l, s.filter[f].ts)
<1> DEFINE ts == s.filter[f].ts
           e == [pid |-> pid, ts |-> NULL]
<1>1. ts \in Seq(Entry) /\ Len(ts) \in Nat
  BY ListIs
<1>2. e \in Entry /\ e.ts = NULL
  BY DEF Entry
<1>3. Len(ts) < MaxPids /\ l = <<e>> \o ts
  OBVIOUS
<1> HIDE DEF ts, e
<1>9. <<e>> \in Seq(Entry) /\ Len(<<e>>) = 1
  BY <1>2
<1>10. l \in Seq(Entry) /\ Len(l) = Len(ts) + 1
  <2>1. ASSUME NEW a \in Seq(Entry), NEW b \in Seq(Entry) PROVE a \o b \in Seq(Entry) /\ Len(a \o b) = Len(a) + Len(b)
    OBVIOUS
  <2>2. l \in Seq(Entry) /\ Len(l) = Len(<<e>>) + Len(ts)
    BY ONLY <1>1, <1>3, <1>9, <2>1
  <2> QED
    BY <1>1, <1>9, <2>2
<1>4. l \in Seq(Entry) /\ Len(l) = Len(ts) + 1 /\ DOMAIN l = 1 .. Len(ts) + 1
  BY <1>10
<1>5. l[1] = e
  BY <1>1, <1>2, <1>3
<1>6. \A k \in 1 .. Len(ts) + 1 : k # 1 => k - 1 \in 1 .. Len(ts) /\ l[k] = ts[k - 1]
  BY <1>1, <1>2, <1>3
<1>7. \A k \in 1 .. Len(ts) : k + 1 \in 1 .. Len(ts) + 1 /\ l[k + 1] = ts[k]
  <2> SUFFICES ASSUME NEW k \in 1 .. Len(ts) PROVE k + 1 \in 1 .. Len(ts) + 1 /\ l[k + 1] = ts[k]
    OBVIOUS
  <2>1. k + 1 \in 1 .. Len(ts) + 1 /\ k + 1 # 1 /\ (k + 1) - 1 = k
    BY <1>1
  <2> QED
    BY <1>6, <2>1
<1>8. l \in Lists
  BY <1>1, <1>3, <1>4, PoolsAssumption DEF Lists
<1>11. Prepends(l, ts)
  BY <1>2, <1>4, <1>5, <1>6, <1>7 DEF Prepends
<1> QED
  BY <1>8, <1>11 DEF ts

(* The entries of ts in K, each once, are the list l.                      *)
Keeps(l, ts, K) ==
    \E a \in [DOMAIN l -> K] :
        /\ \A k \in DOMAIN l : l[k] = ts[a[k]]
        /\ \A k, j \in DOMAIN l : a[k] = a[j] => k = j
        /\ \A x \in K : \E k \in DOMAIN l : a[k] = x

(* The entries that stay keep their order; here, that each is there once.  *)
LEMMA KeepIs ==
    ASSUME NEW s \in Sys, NEW f \in Filters, NEW K \in SUBSET (1 .. Len(s.filter[f].ts)),
           NEW l, l = Keep(s.filter[f].ts, K)
    PROVE  l \in Lists /\ Keeps(l, s.filter[f].ts, K)
<1> DEFINE ts == s.filter[f].ts
           n == Len(ts)
           a == Ascending(K)
           c == Cardinality(K)
<1>1. n \in Nat /\ n <= MaxPids /\ \A k \in 1 .. n : ts[k] \in Entry
  BY ListIs
<1>2. K \in SUBSET (1 .. n)
  OBVIOUS
<1>3. l = [k \in 1 .. c |-> ts[a[k]]]
  BY DEF Keep
<1> HIDE DEF n, ts
<1>4. IsFiniteSet(1 .. n) /\ Cardinality(1 .. n) = n
  BY <1>1, FS_Interval
<1>5. IsFiniteSet(K) /\ c <= n /\ c \in Nat
  BY <1>2, <1>4, FS_Subset, FS_CardinalityType
<1>6. K \in SUBSET Nat
  BY <1>1, <1>2
<1>7. a \in [1 .. c -> K] /\ (\A x \in K : \E k \in 1 .. c : a[k] = x) /\ \A k, j \in 1 .. c : a[k] = a[j] => k = j
  BY <1>5, <1>6, AscendingIs
<1> HIDE DEF a, c
<1>8. l \in [1 .. c -> Entry] /\ c <= MaxPids
  <2>1. c <= MaxPids
    BY <1>1, <1>5, PoolsAssumption
  <2>2. \A k \in 1 .. c : ts[a[k]] \in Entry
    BY <1>1, <1>2, <1>7
  <2> QED
    BY <1>3, <2>1, <2>2
<1>9. l \in Lists /\ DOMAIN l = 1 .. c
  BY ONLY <1>5, <1>8, ListFrom
<1>10. \A k \in 1 .. c : l[k] = ts[a[k]]
  BY <1>3
<1>11. /\ a \in [DOMAIN l -> K] /\ \A k \in DOMAIN l : l[k] = ts[a[k]]
       /\ \A k, j \in DOMAIN l : a[k] = a[j] => k = j
       /\ \A x \in K : \E k \in DOMAIN l : a[k] = x
  BY <1>7, <1>9, <1>10
<1>12. Keeps(l, ts, K)
  BY ONLY <1>11, Zenon DEF Keeps
<1> QED
  BY <1>9, <1>12 DEF ts

---------------------------------------------------------------------------
(* The PIDs of a TS filter                                               *)

(* One feed that was attached, seen from the filter with its new list.   *)
LEMMA AttachedFrom ==
    ASSUME NEW s, NEW u, NEW t, NEW f, NEW K, NEW J, Attached(u, t, f, K, J), Same(s, u)
    PROVE  Attached(s, t, f, K, J)
<1>0. u.feed = s.feed /\ u.dmxfilter = s.dmxfilter /\ u.adapter = s.adapter /\ u.oops = s.oops
  BY DEF Same
<1>1. /\ \A x \in K : x \in Feeds /\ s.feed[x].state = "free"
      /\ \A j \in J : j \in DmxFilters /\ s.dmxfilter[j].free
      /\ \A x \in Feeds : x \notin K => t.feed[x] = s.feed[x]
      /\ \A j \in DmxFilters : j \notin J => t.dmxfilter[j] = s.dmxfilter[j]
  BY <1>0 DEF Attached
<1>2. \A x \in K :
         /\ t.feed[x].state = "go" /\ t.feed[x].type = "ts" /\ t.feed[x].priv = f
         /\ \E j \in J : t.feed[x].filters = {j} /\ t.dmxfilter[j].feed = x
  BY DEF Attached
<1>3. \A j \in J : ~t.dmxfilter[j].free /\ t.dmxfilter[j].feed \in K /\ t.feed[t.dmxfilter[j].feed].filters = {j}
  BY DEF Attached
<1>4. More(s.adapter, t.adapter, Cardinality(K)) /\ t.oops = s.oops
  BY <1>0 DEF Attached
<1> QED
  BY <1>1, <1>2, <1>3, <1>4, Zenon DEF Attached

(* What a feed list lacks to be served is what the new entry brings.       *)
LEMMA AddedServed ==
    ASSUME NEW s \in Sys, NEW f \in Filters, NEW u, u.feed = s.feed, NEW l, u.filter[f].ts = l,
           Serves(s.feed, s.filter[f].ts, f), Len(l) = Len(s.filter[f].ts) + 1,
           \A k \in 1 .. Len(s.filter[f].ts) + 1 : k # 1 =>
                k - 1 \in 1 .. Len(s.filter[f].ts) /\ l[k] = s.filter[f].ts[k - 1]
    PROVE  Served(u, f, 1)
<1> DEFINE ts == s.filter[f].ts
           n == Len(ts)
<1>1. n \in Nat /\ DOMAIN ts = 1 .. n
  BY ListIs
<1>2. /\ \A k \in 1 .. n :
         /\ ts[k].ts \in Feeds /\ s.feed[ts[k].ts].state = "go" /\ s.feed[ts[k].ts].type = "ts"
         /\ s.feed[ts[k].ts].priv = f /\ s.feed[ts[k].ts].filters # {}
      /\ \A k, j \in 1 .. n : ts[k].ts = ts[j].ts => k = j
  BY <1>1, Zenon DEF Serves
<1>3. Len(l) = n + 1 /\ \A k \in 1 .. n + 1 : k # 1 => k - 1 \in 1 .. n /\ l[k] = ts[k - 1]
  OBVIOUS
<1> HIDE DEF n, ts
<1>4. \A k \in 1 .. n + 1 : k \notin 1 .. 1 => k # 1
  OBVIOUS
<1>5. ASSUME NEW k \in 1 .. n + 1, k \notin 1 .. 1
      PROVE  /\ l[k].ts \in Feeds /\ s.feed[l[k].ts].state = "go" /\ s.feed[l[k].ts].type = "ts"
             /\ s.feed[l[k].ts].priv = f /\ s.feed[l[k].ts].filters # {}
  <2>1. k - 1 \in 1 .. n /\ l[k] = ts[k - 1]
    BY <1>3, <1>4, <1>5
  <2> QED
    BY <1>2, <2>1
<1>6. ASSUME NEW k \in 1 .. n + 1, NEW j \in 1 .. n + 1, k \notin 1 .. 1, j \notin 1 .. 1, l[k].ts = l[j].ts
      PROVE  k = j
  <2>1. k - 1 \in 1 .. n /\ l[k] = ts[k - 1] /\ j - 1 \in 1 .. n /\ l[j] = ts[j - 1]
    BY <1>3, <1>4, <1>6
  <2>2. k - 1 = j - 1
    BY <1>2, <1>6, <2>1
  <2> QED
    BY <1>1, <2>2
<1>7. Len(u.filter[f].ts) = n + 1 /\ u.filter[f].ts = l /\ u.feed = s.feed
  BY <1>3
<1> QED
  BY <1>5, <1>6, <1>7 DEF Served

(* DMX_ADD_PID                                                             *)
LEMMA AddPidIs ==
    ASSUME NEW s \in Sys, NEW f \in Filters, s.filter[f].type = "pes",
           NEW l \in Lists, Prepends(l, s.filter[f].ts), NEW u, u = SetTs(s, f, l),
           NEW t, t = IF s.filter[f].state >= GO THEN StartFeed(u, f, 1) ELSE u
    PROVE  /\ t \in Sys /\ (s.refused => t.refused)
           /\ Good(s, NULL) /\ ~t.refused => Good(t, NULL)
<1> DEFINE ts == s.filter[f].ts
<1>1. /\ l \in Lists /\ Len(l) = Len(ts) + 1 /\ DOMAIN l = 1 .. Len(ts) + 1
      /\ l[1].ts = NULL
      /\ \A k \in 1 .. Len(ts) + 1 : k # 1 => k - 1 \in 1 .. Len(ts) /\ l[k] = ts[k - 1]
      /\ \A k \in 1 .. Len(ts) : k + 1 \in 1 .. Len(ts) + 1 /\ l[k + 1] = ts[k]
  BY DEF Prepends
<1>2. u \in Sys /\ Same(s, u) /\ Listed(s, u, f, l)
  <2>1. l \in Lists
    BY <1>1
  <2> QED
    BY ONLY <2>1, s \in Sys, f \in Filters, u = SetTs(s, f, l), SetTsIs
<1>3. Len(ts) \in Nat /\ DOMAIN ts = 1 .. Len(ts)
  BY ListIs
<1>6. 1 \in Nat
  OBVIOUS
<1>4. CASE ~(s.filter[f].state >= GO)
  <2>1. t = u /\ ~On(s.filter[f]) /\ ~On(u.filter[f])
    BY <1>2, <1>4 DEF On, Listed
  <2>2. ASSUME Good(s, NULL) PROVE Good(u, NULL)
    <3>1. \A k \in DOMAIN ts : ts[k].ts = NULL
      BY <2>1, <2>2, OffIsBlank DEF Blank
    <3>2. \A k \in DOMAIN l : l[k].ts = NULL
      <4> SUFFICES ASSUME NEW k \in 1 .. Len(ts) + 1 PROVE l[k].ts = NULL
        BY <1>1
      <4>1. k # 1 => k - 1 \in DOMAIN ts /\ l[k] = ts[k - 1]
        BY <1>1, <1>3
      <4> QED
        BY <1>1, <3>1, <4>1
    <3>3. Blank(u.filter[f]) /\ \A x \in Filters : x # f => u.filter[x] = s.filter[x]
      BY <1>2, <3>2 DEF Blank, Listed
    <3> QED
      BY ONLY <1>2, <2>1, <2>2, <3>3, s \in Sys, f \in Filters, EditOff
  <2> QED
    BY <1>2, <2>1, <2>2 DEF Same
<1>5. CASE s.filter[f].state >= GO
  <2>1. t = StartFeed(u, f, 1) /\ On(s.filter[f])
    BY <1>5 DEF On
  <2>2. u.filter[f].ts = l /\ 1 \in Nat /\ 1 <= Len(u.filter[f].ts)
    <3>1. u.filter[f].ts = l
      BY <1>2, Zenon DEF Listed
    <3>2. Len(l) = Len(ts) + 1 /\ Len(ts) \in Nat
      BY <1>1, <1>3
    <3> QED
      BY ONLY <3>1, <3>2
  <2>3. /\ t \in Sys /\ (u.refused => t.refused) /\ (~t.refused => Started(u, f, 1) = 1 .. 1)
        /\ Listed(u, t, f, t.filter[f].ts) /\ DOMAIN t.filter[f].ts = 1 .. Len(u.filter[f].ts)
        /\ Started(u, f, 1) = 1 .. 1 => \E K, J : Attached(u, t, f, K, J) /\ Filled(u, t, f, 1, K)
    <3> DEFINE n == 1
    <3>1. u \in Sys /\ t = StartFeed(u, f, n) /\ n \in Nat /\ n <= Len(u.filter[f].ts)
      BY <1>2, <1>6, <2>1, <2>2
    <3>3. n = 1
      OBVIOUS
    <3> HIDE DEF n
    <3>2. /\ t \in Sys /\ (u.refused => t.refused) /\ (~t.refused => Started(u, f, n) = 1 .. n)
          /\ Listed(u, t, f, t.filter[f].ts) /\ DOMAIN t.filter[f].ts = 1 .. Len(u.filter[f].ts)
          /\ Started(u, f, n) = 1 .. n => \E K, J : Attached(u, t, f, K, J) /\ Filled(u, t, f, n, K)
      BY ONLY <3>1, f \in Filters, StartTsIs
    <3> QED
      BY <3>1, <3>2, <3>3
  <2>4. u.refused = s.refused /\ u.feed = s.feed
    BY <1>2 DEF Same
  <2>5. ASSUME Good(s, NULL), ~t.refused PROVE Good(t, NULL)
    <3>1. PICK K, J : Attached(u, t, f, K, J) /\ Filled(u, t, f, 1, K)
      BY <2>3, <2>5
    <3>2. PesOn(s, f) /\ ~SecOn(s, f) /\ PesOn(t, f)
      <4>1. t.filter[f].state = s.filter[f].state /\ t.filter[f].type = s.filter[f].type
        BY <1>2, <2>3 DEF Listed
      <4> QED
        BY <2>1, <4>1 DEF PesOn, SecOn, On
    <3>3. Serves(s.feed, ts, f)
      BY <2>5, <3>2 DEF Good, Streams
    <3>4. Served(u, f, 1)
      BY <1>1, <2>2, <2>4, <3>3, AddedServed
    <3>5. /\ Serves(t.feed, t.filter[f].ts, f) /\ \A x \in K : Names(t.filter[f].ts, x)
          /\ \A k \in 1 .. Len(u.filter[f].ts) : k \notin 1 .. 1 => Names(t.filter[f].ts, u.filter[f].ts[k].ts)
      BY ONLY <1>2, <2>2, <2>3, <3>1, <3>4, f \in Filters, AttachServes
    <3>6. ASSUME NEW x \in Feeds, Names(ts, x) PROVE Names(t.filter[f].ts, x)
      <4>1. PICK k \in 1 .. Len(ts) : ts[k].ts = x
        BY <1>3, <3>6 DEF Names
      <4>2. k + 1 \in 1 .. Len(l) /\ k + 1 \notin 1 .. 1 /\ l[k + 1] = ts[k]
        BY <1>1, <1>3
      <4> QED
        BY <2>2, <3>5, <4>1, <4>2
    <3>7. Attached(s, t, f, K, J)
      BY ONLY <1>2, <3>1, AttachedFrom
    <3>8. \A g \in Filters : g # f => t.filter[g] = s.filter[g]
      <4>1. \A g \in Filters : g # f => t.filter[g] = u.filter[g]
        BY <2>3, Zenon DEF Listed
      <4>2. \A g \in Filters : g # f => u.filter[g] = s.filter[g]
        BY <1>2, Zenon DEF Listed
      <4> QED
        BY ONLY <4>1, <4>2
    <3>9. PesOn(s, f) => \A x \in Feeds : Names(s.filter[f].ts, x) => Names(t.filter[f].ts, x)
      BY <3>6
    <3> QED
      BY ONLY <2>3, <2>5, <3>2, <3>5, <3>7, <3>8, <3>9, s \in Sys, f \in Filters, AttachGood
  <2> QED
    BY <2>3, <2>4, <2>5
<1> QED
  BY <1>4, <1>5

(* F are the feeds of the entries in gone, all of which have one.          *)
Gone(ts, gone, F) ==
    /\ gone \in SUBSET (1 .. Len(ts)) /\ \A k \in gone : ts[k].ts # NULL
    /\ \A x : x \in F <=> \E k \in gone : ts[k].ts = x

(* The entries that stay are served by the feeds that stay.              *)
LEMMA KeepsServed ==
    ASSUME NEW a, NEW b, NEW ts, NEW f, Serves(a, ts, f), NEW n \in Nat, DOMAIN ts = 1 .. n,
           NEW K \in SUBSET (1 .. n), NEW l, Keeps(l, ts, K), \A k \in K : b[ts[k].ts] = a[ts[k].ts]
    PROVE  Serves(b, l, f) /\ \A k \in K : Names(l, ts[k].ts)
<1>1. \A k \in 1 .. n :
         /\ ts[k].ts \in Feeds /\ a[ts[k].ts].state = "go" /\ a[ts[k].ts].type = "ts"
         /\ a[ts[k].ts].priv = f /\ a[ts[k].ts].filters # {}
  BY DEF Serves
<1>2. \A k, j \in 1 .. n : ts[k].ts = ts[j].ts => k = j
  BY DEF Serves
<1>3. PICK c \in [DOMAIN l -> K] :
        /\ \A k \in DOMAIN l : l[k] = ts[c[k]]
        /\ \A k, j \in DOMAIN l : c[k] = c[j] => k = j
        /\ \A x \in K : \E k \in DOMAIN l : c[k] = x
  BY DEF Keeps
<1>4. ASSUME NEW k \in DOMAIN l
      PROVE  /\ l[k].ts \in Feeds /\ b[l[k].ts].state = "go" /\ b[l[k].ts].type = "ts"
             /\ b[l[k].ts].priv = f /\ b[l[k].ts].filters # {}
  <2>1. c[k] \in K /\ c[k] \in 1 .. n /\ l[k] = ts[c[k]]
    BY <1>3
  <2>2. b[ts[c[k]].ts] = a[ts[c[k]].ts]
    BY <2>1
  <2> QED
    BY <1>1, <2>1, <2>2
<1>5. ASSUME NEW k \in DOMAIN l, NEW j \in DOMAIN l, l[k].ts = l[j].ts PROVE k = j
  <2>1. c[k] \in 1 .. n /\ l[k] = ts[c[k]] /\ c[j] \in 1 .. n /\ l[j] = ts[c[j]]
    BY <1>3
  <2>2. c[k] = c[j]
    BY <1>2, <1>5, <2>1
  <2> QED
    BY <1>3, <2>2
<1>6. Serves(b, l, f)
  BY <1>4, <1>5, Zenon DEF Serves
<1>7. \A k \in K : Names(l, ts[k].ts)
  BY <1>3 DEF Names
<1> QED
  BY <1>6, <1>7

(* No feed is given back.                                                  *)
LEMMA DetachedNone ==
    ASSUME NEW s \in Sys, NEW w \in Sys, NEW F, F = {}, Detached(s, w, F), w.refused = s.refused
    PROVE  Same(s, w)
<1>1. (\A x \in Feeds : w.feed[x] = s.feed[x]) /\ (\A j \in DmxFilters : w.dmxfilter[j] = s.dmxfilter[j])
  BY DEF Detached
<1>2. w.feed = s.feed /\ w.dmxfilter = s.dmxfilter
  <2>1. /\ s.feed \in [Feeds -> FeedRec] /\ w.feed \in [Feeds -> FeedRec]
        /\ s.dmxfilter \in [DmxFilters -> DmxRec] /\ w.dmxfilter \in [DmxFilters -> DmxRec]
    BY SysParts
  <2> QED
    BY ONLY <1>1, <2>1
<1>3. Fewer(s.adapter, w.adapter, 0) /\ w.oops = s.oops
  <2>1. Cardinality(F) = 0
    BY FS_EmptySet
  <2> QED
    BY <2>1 DEF Detached
<1>4. s.adapter \in AdapterRec /\ w.adapter \in AdapterRec
  BY SysParts
<1>5. s.adapter.feeds \in Int
  BY <1>4 DEF AdapterRec
<1>6. w.adapter.feeds = s.adapter.feeds /\ w.adapter.dma = s.adapter.dma
  <2>1. s.adapter.feeds - 0 = s.adapter.feeds
    BY <1>5
  <2>2. ~(s.adapter.feeds > 0 /\ s.adapter.feeds <= 0)
    BY <1>5
  <2>3. w.adapter.feeds = s.adapter.feeds
    BY <1>3, <2>1 DEF Fewer
  <2>4. w.adapter.dma = s.adapter.dma
    BY <1>3, <2>1, <2>2, Zenon DEF Fewer
  <2> QED
    BY <2>3, <2>4
<1>7. w.adapter = s.adapter
  BY <1>4, <1>6 DEF AdapterRec
<1> QED
  BY <1>2, <1>3, <1>7 DEF Same

(* DMX_REMOVE_PID                                                          *)
Harmless(s, t) == t \in Sys /\ t.refused = s.refused /\ (Good(s, NULL) => Good(t, NULL))

(* It releases the feeds of the entries that go and nothing else.        *)
LEMMA RemovePidIs ==
    ASSUME NEW s \in Sys, NEW f \in Filters, s.filter[f].type = "pes",
           NEW gone, NEW F, Gone(s.filter[f].ts, gone, F),
           NEW K, K = 1 .. Len(s.filter[f].ts) \ gone, NEW l \in Lists, Keeps(l, s.filter[f].ts, K),
           NEW w, w = ReleaseTsFeed(TsStopFiltering(s, F), F),
           NEW t, t = SetTs(w, f, l)
    PROVE  Harmless(s, t)
<1> DEFINE ts == s.filter[f].ts
           n == Len(ts)
<1>1. n \in Nat /\ DOMAIN ts = 1 .. n /\ \A k \in 1 .. n : ts[k].ts \in Feeds \cup {NULL}
  BY ListIs
<1>2. gone \in SUBSET (1 .. n) /\ (\A k \in gone : ts[k].ts # NULL) /\ \A x : x \in F <=> \E k \in gone : ts[k].ts = x
  BY DEF Gone
<1>3. K \in SUBSET (1 .. n) /\ Keeps(l, ts, K)
  OBVIOUS
<1>5. \A k \in 1 .. n : k \in K <=> k \notin gone
  OBVIOUS
<1>7. ts = s.filter[f].ts
  OBVIOUS
<1> HIDE DEF ts, n
<1>6. F \in SUBSET Feeds
  <2> SUFFICES ASSUME NEW x \in F PROVE x \in Feeds
    OBVIOUS
  <2>1. PICK k \in gone : ts[k].ts = x
    BY <1>2
  <2> QED
    BY <1>1, <1>2, <2>1
<1>9. /\ w \in Sys /\ w.filter = s.filter /\ w.refused = s.refused
      /\ (\A x \in F : s.feed[x].state = "go" /\ s.feed[x].filters # {}) => Detached(s, w, F)
  BY ONLY <1>6, s \in Sys, w = ReleaseTsFeed(TsStopFiltering(s, F), F), DetachIs
<1>10. t \in Sys /\ Same(w, t) /\ Listed(w, t, f, l)
  BY ONLY <1>9, l \in Lists, f \in Filters, t = SetTs(w, f, l), SetTsIs
<1>11. t.refused = s.refused
  BY ONLY <1>9, <1>10 DEF Same
<1>12. /\ t.filter[f].state = s.filter[f].state /\ t.filter[f].type = s.filter[f].type /\ t.filter[f].ts = l
       /\ \A g \in Filters : g # f => t.filter[g] = s.filter[g]
  <2>1. /\ t.filter[f].state = w.filter[f].state /\ t.filter[f].type = w.filter[f].type /\ t.filter[f].ts = l
        /\ \A g \in Filters : g # f => t.filter[g] = w.filter[g]
    BY ONLY <1>10, Zenon DEF Listed
  <2> QED
    BY ONLY <1>9, <2>1
<1>13. On(t.filter[f]) <=> On(s.filter[f])
  BY ONLY <1>12 DEF On
<1>14. ASSUME Good(s, NULL), ~On(s.filter[f]) PROVE Good(t, NULL)
  <2>1. \A k \in 1 .. n : ts[k].ts = NULL
    <3>1. Blank(s.filter[f])
      BY ONLY <1>14, f \in Filters, OffIsBlank
    <3> QED
      BY ONLY <1>1, <1>7, <3>1 DEF Blank
  <2>2. \A x : x \notin F
    BY ONLY <1>2, <2>1
  <2>3. Same(s, w)
    <3>1. Detached(s, w, F)
      BY <1>9, <2>2
    <3>2. F = {}
      BY <2>2
    <3> QED
      BY ONLY <1>9, <3>1, <3>2, s \in Sys, DetachedNone
  <2>4. \A k \in DOMAIN l : l[k].ts = NULL
    <3>1. PICK c \in [DOMAIN l -> K] : \A k \in DOMAIN l : l[k] = ts[c[k]]
      BY ONLY <1>3, Zenon DEF Keeps
    <3>2. \A k \in DOMAIN l : c[k] \in 1 .. n
      BY ONLY <1>3, <3>1
    <3> QED
      BY ONLY <2>1, <3>1, <3>2
  <2>5. Blank(t.filter[f]) /\ ~On(t.filter[f])
    <3>1. t.filter[f].ts = l
      BY ONLY <1>12
    <3>2. Blank(t.filter[f])
      BY ONLY <3>1, <2>4 DEF Blank
    <3> QED
      BY ONLY <3>2, <1>13, <1>14
  <2>6. Same(s, t)
    BY ONLY <2>3, <1>10 DEF Same
  <2> QED
    BY ONLY <1>10, <1>12, <1>14, <2>5, <2>6, s \in Sys, f \in Filters, EditOff
<1>15. ASSUME Good(s, NULL), On(s.filter[f]) PROVE Good(t, NULL)
  <2>1. PesOn(s, f) /\ PesOn(t, f)
    BY <1>12, <1>13, <1>15, Zenon DEF PesOn
  <2>2. Serves(s.feed, ts, f)
    BY ONLY <1>7, <1>15, <2>1, f \in Filters, Zenon DEF Good, Streams
  <2>3. \A k \in 1 .. n :
           /\ ts[k].ts \in Feeds /\ s.feed[ts[k].ts].state = "go" /\ s.feed[ts[k].ts].type = "ts"
           /\ s.feed[ts[k].ts].priv = f /\ s.feed[ts[k].ts].filters # {}
    BY ONLY <1>1, <2>2 DEF Serves
  <2>15. \A k, j \in 1 .. n : ts[k].ts = ts[j].ts => k = j
    BY ONLY <1>1, <2>2 DEF Serves
  <2>4. ASSUME NEW x \in F PROVE s.feed[x].state = "go" /\ s.feed[x].filters # {} /\ Names(ts, x)
    <3>1. PICK k \in gone : ts[k].ts = x
      BY ONLY <1>2, x \in F
    <3>2. k \in 1 .. n
      BY <1>2
    <3> QED
      BY ONLY <1>1, <2>3, <3>1, <3>2 DEF Names
  <2>5. Detached(s, w, F)
    BY ONLY <1>9, <2>4
  <2>6. Detached(s, t, F)
    <3>1. Same(s, s)
      BY DEF Same
    <3> QED
      BY ONLY <1>10, <2>5, <3>1, DetachedSame
  <2>7. ASSUME NEW k \in K PROVE ts[k].ts \notin F
    <3>1. k \in 1 .. n /\ k \notin gone
      BY ONLY k \in K, <1>3, <1>5
    <3>2. \A j \in gone : j \in 1 .. n
      BY ONLY <1>2
    <3> QED
      BY ONLY <1>2, <2>15, <3>1, <3>2
  <2>8. \A x \in Feeds : x \notin F => t.feed[x] = s.feed[x]
    BY ONLY <2>6 DEF Detached
  <2>9. \A k \in K : t.feed[ts[k].ts] = s.feed[ts[k].ts]
    BY ONLY <1>3, <2>3, <2>7, <2>8
  <2>10. Serves(t.feed, l, f) /\ \A k \in K : Names(l, ts[k].ts)
    BY ONLY <1>1, <1>3, <2>2, <2>9, KeepsServed
  <2>11. ASSUME NEW x \in Feeds, Names(ts, x), x \notin F PROVE Names(l, x)
    <3>1. PICK k \in 1 .. n : ts[k].ts = x
      BY ONLY <1>1, <2>11 DEF Names
    <3>2. k \in K
      BY ONLY <1>2, <1>5, <2>11, <3>1
    <3> QED
      BY ONLY <2>10, <3>1, <3>2
  <2>12. \A x \in F : Names(s.filter[f].ts, x)
    BY ONLY <1>7, <2>4
  <2>13. \A x \in Feeds : Names(s.filter[f].ts, x) /\ x \notin F => PesOn(t, f) /\ Names(t.filter[f].ts, x)
    BY ONLY <1>7, <1>12, <2>1, <2>11
  <2>14. t.filter[f].type = "pes" /\ Serves(t.feed, t.filter[f].ts, f)
    BY <1>12, <2>10
  <2> QED
    BY ONLY <1>6, <1>10, <1>12, <1>15, <2>1, <2>6, <2>12, <2>13, <2>14, s \in Sys, f \in Filters, DetachGood
<1> QED
  BY ONLY <1>10, <1>11, <1>14, <1>15 DEF Harmless

---------------------------------------------------------------------------
(* The steps                                                             *)

IInv == sys \in Sys /\ fds \subseteq Filters /\ (Sound => Good(sys, NULL))

(* The record of the state and the variables.                            *)
LEMMA SysFields ==
    /\ sys.filter = filter /\ sys.feed = feed /\ sys.dmxfilter = dmxfilter /\ sys.timer = timer
    /\ sys.error = error /\ sys.adapter = adapter /\ sys.refused = refused /\ sys.oops = oops
BY DEF sys

(* The state after an ioctl.                                             *)
LEMMA ApplyIs ==
    ASSUME NEW t \in Sys, Apply(t)
    PROVE  sys' = t
<1>1. /\ t.filter = filter' /\ t.feed = feed' /\ t.dmxfilter = dmxfilter' /\ t.timer = timer'
      /\ t.error = error' /\ t.adapter = adapter' /\ t.refused = refused' /\ t.oops = oops'
  BY DEF Apply
<1>2. t = [filter |-> t.filter, feed |-> t.feed, dmxfilter |-> t.dmxfilter, timer |-> t.timer,
           error |-> t.error, adapter |-> t.adapter, refused |-> t.refused, oops |-> t.oops]
  BY DEF Sys
<1>3. sys' = [filter |-> filter', feed |-> feed', dmxfilter |-> dmxfilter', timer |-> timer',
              error |-> error', adapter |-> adapter', refused |-> refused', oops |-> oops']
  BY DEF sys
<1> QED
  BY <1>1, <1>2, <1>3

(* The operations are composed of functions; it is enough to look at these. *)
LEMMA Step ==
    ASSUME IInv, NEW t \in Sys, sys' = t, fds' \subseteq Filters, ~zombie' => ~zombie,
           refused => t.refused, Good(sys, NULL) /\ ~t.refused /\ ~zombie' => Good(t, NULL)
    PROVE  IInv'
<1>1. refused' = t.refused
  <2>1. sys'.refused = refused'
    BY DEF sys
  <2> QED
    BY <2>1
<1>2. sys' \in Sys
  OBVIOUS
<1>3. Sound' => Sound
  BY <1>1 DEF Sound
<1>4. Sound' => Good(sys', NULL)
  BY <1>1, <1>3 DEF IInv, Sound
<1> QED
  BY <1>2, <1>4 DEF IInv

(* An ioctl that does no harm keeps the inductive invariant.             *)
LEMMA ApplyStep ==
    ASSUME IInv, NEW t \in Sys, Apply(t), fds' \subseteq Filters, zombie' = zombie,
           refused => t.refused, Good(sys, NULL) /\ ~t.refused => Good(t, NULL)
    PROVE  IInv'
BY ApplyIs, Step

(* It holds at first.                                                    *)
LEMMA InitIInv == Init => IInv
<1> SUFFICES ASSUME Init PROVE IInv
  OBVIOUS
<1>1. FreshFilter \in FilterRec /\ FreeFeed \in FeedRec /\ FreeDmxFilter \in DmxRec
  BY FreshAre
<1>2. [feeds |-> 0, dma |-> FALSE] \in AdapterRec /\ [pending |-> FALSE, running |-> FALSE] \in TimerRec
  <2>1. 0 \in Int
    OBVIOUS
  <2>2. [feeds |-> 0, dma |-> FALSE] \in AdapterRec
    BY ONLY FlagIs, <2>1, Zenon DEF AdapterRec
  <2>3. [pending |-> FALSE, running |-> FALSE] \in TimerRec
    BY ONLY FlagIs, Zenon DEF TimerRec
  <2> QED
    BY ONLY <2>2, <2>3
<1>3. /\ filter = [f \in Filters |-> FreshFilter] /\ feed = [i \in Feeds |-> FreeFeed]
      /\ dmxfilter = [j \in DmxFilters |-> FreeDmxFilter]
      /\ timer = [f \in Filters |-> [pending |-> FALSE, running |-> FALSE]]
      /\ error = [f \in Filters |-> FALSE]
      /\ adapter = [feeds |-> 0, dma |-> FALSE] /\ fds = {} /\ ~zombie /\ refused = FALSE /\ oops = FALSE
  BY DEF Init
<1>4. /\ filter \in [Filters -> FilterRec] /\ feed \in [Feeds -> FeedRec] /\ dmxfilter \in [DmxFilters -> DmxRec]
      /\ timer \in [Filters -> TimerRec] /\ error \in [Filters -> Flag] /\ adapter \in AdapterRec
      /\ refused \in Flag /\ oops \in Flag
  BY <1>1, <1>2, <1>3, FlagIs
<1>5. sys \in Sys
  BY <1>4 DEF sys, Sys
<1>6. \A f \in Filters : ~On(filter[f]) /\ DOMAIN filter[f].ts = {}
  BY <1>3, StateIs DEF On, FreshFilter
<1>7. \A i \in Feeds : feed[i].state = "free" /\ feed[i].filters = {}
  BY <1>3 DEF FreeFeed
<1>8. \A j \in DmxFilters : dmxfilter[j].free
  BY <1>3 DEF FreeDmxFilter
<1>9. \A f \in Filters : ~SecOn(sys, f) /\ ~PesOn(sys, f)
  BY <1>6, SysFields DEF SecOn, PesOn
<1>10. Kinds(sys) /\ Quiet(sys) /\ Sections(sys, NULL) /\ Shares(sys) /\ Streams(sys)
  BY <1>6, <1>9, SysFields DEF Kinds, Quiet, Sections, Shares, Streams
<1>11. Owners(sys, NULL) /\ Halted(sys, NULL) /\ Hooks(sys)
  BY <1>7, <1>8, SysFields, PoolsAre DEF Owners, Halted, Hooks
<1>12. Counted(sys)
  <2>1. Going(sys) = {}
    BY <1>7, SysFields DEF Going
  <2>2. Cardinality({}) = 0
    BY FS_EmptySet
  <2>3. sys.adapter.feeds = 0 /\ ~sys.adapter.dma
    BY <1>3, SysFields
  <2> QED
    BY <2>1, <2>2, <2>3 DEF Counted
<1>13. Good(sys, NULL)
  BY <1>3, <1>10, <1>11, <1>12, SysFields DEF Good
<1> QED
  BY <1>3, <1>5, <1>13 DEF IInv

(* What an ioctl may rely on.                                            *)
LEMMA IInvSys == IInv => sys \in Sys /\ \A f \in fds : f \in Filters
BY DEF IInv

(* close                                                                 *)
LEMMA CloseStep == ASSUME IInv, NEW f, Close(f) PROVE IInv'
<1> DEFINE t == Mark(FilterReset(FilterStop(sys, f), f), f, FREE)
<1>1. t = Mark(FilterReset(FilterStop(sys, f), f), f, FREE)
  OBVIOUS
<1>2. f \in fds /\ Apply(t) /\ fds' = fds \ {f} /\ zombie' = zombie
  BY Zenon DEF Close, Mark
<1> HIDE DEF t
<1>3. sys \in Sys /\ f \in Filters
  BY <1>2, IInvSys
<1>4. t \in Sys /\ t.refused = sys.refused /\ (Good(sys, NULL) => Good(t, NULL))
  BY ONLY <1>1, <1>3, CloseIs
<1>5. fds' \subseteq Filters
  BY <1>2 DEF IInv
<1>6. refused => t.refused
  BY <1>4, SysFields
<1> QED
  BY ONLY IInv, <1>2, <1>4, <1>5, <1>6, ApplyStep

(* DMX_START                                                             *)
LEMMA StartStep == ASSUME IInv, NEW f, Start(f) PROVE IInv'
<1> DEFINE t == FilterStart(sys, f)
<1>1. t = FilterStart(sys, f)
  OBVIOUS
<1>2. f \in fds /\ Apply(t) /\ fds' = fds /\ zombie' = zombie
  BY Zenon DEF Start
<1> HIDE DEF t
<1>3. sys \in Sys /\ f \in Filters
  BY <1>2, IInvSys
<1>4. t \in Sys /\ (sys.refused => t.refused) /\ (Good(sys, NULL) /\ ~t.refused => Good(t, NULL))
  BY ONLY <1>1, <1>3, FilterStartIs
<1>5. fds' \subseteq Filters
  BY <1>2 DEF IInv
<1>6. refused => t.refused
  BY <1>4, SysFields
<1> QED
  BY ONLY IInv, <1>2, <1>4, <1>5, <1>6, ApplyStep

(* DMX_STOP                                                              *)
LEMMA StopStep == ASSUME IInv, NEW f, Stop(f) PROVE IInv'
<1> DEFINE t == FilterStop(sys, f)
<1>1. t = FilterStop(sys, f)
  OBVIOUS
<1>2. f \in fds /\ Apply(t) /\ fds' = fds /\ zombie' = zombie
  BY Zenon DEF Stop
<1> HIDE DEF t
<1>3. sys \in Sys /\ f \in Filters
  BY <1>2, IInvSys
<1>4. /\ t \in Sys /\ t.refused = sys.refused
      /\ t.filter[f].type = sys.filter[f].type /\ t.filter[f].pid = sys.filter[f].pid
      /\ Good(sys, NULL) => Good(t, NULL) /\ ~On(t.filter[f])
  BY ONLY <1>1, <1>3, FilterStopIs
<1>5. fds' \subseteq Filters
  BY <1>2 DEF IInv
<1>6. (refused => t.refused) /\ (Good(sys, NULL) /\ ~t.refused => Good(t, NULL))
  BY <1>4, SysFields
<1> QED
  BY ONLY IInv, <1>2, <1>4, <1>5, <1>6, ApplyStep

(* A set-up that may be followed by a start.                               *)
LEMMA ImmediateIs ==
    ASSUME NEW s \in Sys, NEW u \in Sys, u.refused = s.refused, Good(s, NULL) => Good(u, NULL),
           NEW f \in Filters, NEW immediate \in BOOLEAN, NEW t, t = IF immediate THEN FilterStart(u, f) ELSE u
    PROVE  t \in Sys /\ (s.refused => t.refused) /\ (Good(s, NULL) /\ ~t.refused => Good(t, NULL))
<1>1. CASE immediate
  <2>1. t = FilterStart(u, f)
    BY <1>1
  <2>2. t \in Sys /\ (u.refused => t.refused) /\ (Good(u, NULL) /\ ~t.refused => Good(t, NULL))
    BY ONLY <2>1, u \in Sys, f \in Filters, FilterStartIs
  <2> QED
    BY <2>2
<1>2. CASE ~immediate
  BY <1>2
<1> QED
  BY <1>1, <1>2

(* DMX_SET_FILTER                                                        *)
LEMMA SetFilterStep ==
    ASSUME IInv, NEW f, NEW pid \in Pids, NEW oneshot \in BOOLEAN, NEW timeout \in BOOLEAN,
           NEW immediate \in BOOLEAN, SetFilter(f, pid, oneshot, timeout, immediate)
    PROVE  IInv'
<1> DEFINE u == With(FilterStop(sys, f), f, SecParameters(FilterStop(sys, f).filter[f], pid, oneshot, timeout))
           t == IF immediate THEN FilterStart(u, f) ELSE u
<1>1. u = With(FilterStop(sys, f), f, SecParameters(FilterStop(sys, f).filter[f], pid, oneshot, timeout))
  OBVIOUS
<1>2. f \in fds /\ Apply(t) /\ fds' = fds /\ zombie' = zombie
  BY Zenon DEF SetFilter, With, SecParameters
<1> HIDE DEF u
<1>3. t = IF immediate THEN FilterStart(u, f) ELSE u
  OBVIOUS
<1> HIDE DEF t
<1>4. sys \in Sys /\ f \in Filters
  BY <1>2, IInvSys
<1>5. oneshot \in Flag /\ timeout \in Flag
  BY DEF Flag
<1>6. u \in Sys /\ u.refused = sys.refused /\ (Good(sys, NULL) => Good(u, NULL))
  BY ONLY <1>1, <1>4, <1>5, pid \in Pids, SetFilterIs
<1>7. t \in Sys /\ (sys.refused => t.refused) /\ (Good(sys, NULL) /\ ~t.refused => Good(t, NULL))
  BY ONLY <1>3, <1>4, <1>6, immediate \in BOOLEAN, ImmediateIs
<1>8. fds' \subseteq Filters
  BY <1>2 DEF IInv
<1>9. refused => t.refused
  BY <1>7, SysFields
<1> QED
  BY ONLY IInv, <1>2, <1>7, <1>8, <1>9, ApplyStep

(* DMX_SET_PES_FILTER                                                    *)
LEMMA SetPesFilterStep ==
    ASSUME IInv, NEW f, NEW pid \in Pids, NEW multi \in BOOLEAN, NEW immediate \in BOOLEAN,
           SetPesFilter(f, pid, multi, immediate)
    PROVE  IInv'
<1> DEFINE v == FilterReset(FilterStop(sys, f), f)
           u == With(v, f, PesParameters(v.filter[f], pid, multi))
           t == IF immediate THEN FilterStart(u, f) ELSE u
<1>1. u = With(FilterReset(FilterStop(sys, f), f), f, PesParameters(FilterReset(FilterStop(sys, f), f).filter[f], pid, multi))
  OBVIOUS
<1>2. f \in fds /\ Apply(t) /\ fds' = fds /\ zombie' = zombie
  BY Zenon DEF SetPesFilter, With, PesParameters
<1> HIDE DEF u
<1>3. t = IF immediate THEN FilterStart(u, f) ELSE u
  OBVIOUS
<1> HIDE DEF t
<1>4. sys \in Sys /\ f \in Filters
  BY <1>2, IInvSys
<1>5. multi \in Flag
  BY DEF Flag
<1>6. u \in Sys /\ u.refused = sys.refused /\ (Good(sys, NULL) => Good(u, NULL))
  BY ONLY <1>1, <1>4, <1>5, pid \in Pids, SetPesFilterIs
<1>7. t \in Sys /\ (sys.refused => t.refused) /\ (Good(sys, NULL) /\ ~t.refused => Good(t, NULL))
  BY ONLY <1>3, <1>4, <1>6, immediate \in BOOLEAN, ImmediateIs
<1>8. fds' \subseteq Filters
  BY <1>2 DEF IInv
<1>9. refused => t.refused
  BY <1>7, SysFields
<1> QED
  BY ONLY IInv, <1>2, <1>7, <1>8, <1>9, ApplyStep

(* DMX_SET_PES_FILTER with parameters that are refused                   *)
LEMMA SetPesFilterInvalidStep == ASSUME IInv, NEW f, SetPesFilterInvalid(f) PROVE IInv'
<1> DEFINE u == FilterStop(sys, f)
           t == FilterReset(u, f)
<1>1. u = FilterStop(sys, f) /\ t = FilterReset(u, f)
  OBVIOUS
<1>2. f \in fds /\ Apply(t) /\ fds' = fds /\ zombie' = zombie
  BY Zenon DEF SetPesFilterInvalid
<1> HIDE DEF t, u
<1>3. sys \in Sys /\ f \in Filters
  BY <1>2, IInvSys
<1>4. /\ u \in Sys /\ u.refused = sys.refused
      /\ u.filter[f].type = sys.filter[f].type /\ u.filter[f].pid = sys.filter[f].pid
      /\ Good(sys, NULL) => Good(u, NULL) /\ ~On(u.filter[f])
  BY ONLY <1>1, <1>3, FilterStopIs
<1>5. /\ t \in Sys /\ t.refused = u.refused
      /\ Good(u, NULL) /\ ~On(u.filter[f]) => Good(t, NULL) /\ ~On(t.filter[f])
  BY ONLY <1>1, <1>3, <1>4, FilterResetIs
<1>6. fds' \subseteq Filters
  BY <1>2 DEF IInv
<1>7. (refused => t.refused) /\ (Good(sys, NULL) /\ ~t.refused => Good(t, NULL))
  BY <1>4, <1>5, SysFields
<1> QED
  BY ONLY IInv, <1>2, <1>5, <1>6, <1>7, ApplyStep

(* DMX_ADD_PID                                                           *)
LEMMA AddPidStep == ASSUME IInv, NEW f, NEW pid \in Pids, AddPid(f, pid) PROVE IInv'
<1> DEFINE l == <<[pid |-> pid, ts |-> NULL]>> \o sys.filter[f].ts
           u == SetTs(sys, f, l)
           t == IF sys.filter[f].state >= GO THEN StartFeed(u, f, 1) ELSE u
<1>1. l = <<[pid |-> pid, ts |-> NULL]>> \o sys.filter[f].ts /\ u = SetTs(sys, f, l)
  OBVIOUS
<1>2. f \in fds /\ fds' = fds /\ zombie' = zombie /\ filter[f].type = "pes" /\ Len(filter[f].ts) < MaxPids
  BY DEF AddPid
<1>3. sys \in Sys /\ f \in Filters /\ sys.filter = filter
  BY <1>2, IInvSys, SysFields
<1>4. u = [sys EXCEPT !.filter[f].ts = <<[pid |-> pid, ts |-> NULL]>> \o @]
  BY <1>3 DEF SetTs, Sys
<1>5. Apply(IF filter[f].state >= GO THEN StartFeed(u, f, 1) ELSE u)
  <2> HIDE DEF u
  <2> QED
    BY <1>4, Zenon DEF AddPid
<1> HIDE DEF l, u
<1>6. t = IF sys.filter[f].state >= GO THEN StartFeed(u, f, 1) ELSE u
  OBVIOUS
<1> HIDE DEF t
<1>7. Apply(t) /\ sys.filter[f].type = "pes" /\ Len(sys.filter[f].ts) < MaxPids
  BY ONLY <1>2, <1>3, <1>5, <1>6
<1>8. l \in Lists /\ Prepends(l, sys.filter[f].ts)
  BY ONLY <1>1, <1>3, <1>7, pid \in Pids, PrependIs
<1>9. t \in Sys /\ (sys.refused => t.refused) /\ (Good(sys, NULL) /\ ~t.refused => Good(t, NULL))
  BY ONLY <1>1, <1>3, <1>6, <1>7, <1>8, AddPidIs
<1>10. fds' \subseteq Filters
  BY <1>2 DEF IInv
<1>11. refused => t.refused
  BY <1>9, SysFields
<1> QED
  BY ONLY IInv, <1>2, <1>7, <1>9, <1>10, <1>11, ApplyStep

(* DMX_REMOVE_PID                                                        *)
LEMMA RemovePidStep == ASSUME IInv, NEW f, NEW pid, RemovePid(f, pid) PROVE IInv'
<1> DEFINE ts == filter[f].ts
           gone == {k \in 1 .. Len(ts) : ts[k].pid = pid /\ ts[k].ts # NULL}
           F == {ts[k].ts : k \in gone}
           K == 1 .. Len(ts) \ gone
           l == Keep(ts, K)
           w == ReleaseTsFeed(TsStopFiltering(sys, F), F)
           t == SetTs(w, f, l)
<1>1. f \in fds /\ fds' = fds /\ zombie' = zombie /\ filter[f].type = "pes" /\ Apply(t)
  BY Zenon DEF RemovePid, SetTs
<1>2. sys \in Sys /\ f \in Filters /\ sys.filter = filter
  BY <1>1, IInvSys, SysFields
<1>3. Gone(ts, gone, F)
  BY DEF Gone
<1>4. w = ReleaseTsFeed(TsStopFiltering(sys, F), F) /\ t = SetTs(w, f, l) /\ l = Keep(ts, K)
      /\ K \in SUBSET (1 .. Len(ts)) /\ K = 1 .. Len(ts) \ gone /\ ts = filter[f].ts
  OBVIOUS
<1> HIDE DEF ts, gone, F, K, l, w, t
<1>5. ts = sys.filter[f].ts
  BY <1>2, <1>4
<1>6. l \in Lists /\ Keeps(l, sys.filter[f].ts, K)
  <2>1. K \in SUBSET (1 .. Len(sys.filter[f].ts)) /\ l = Keep(sys.filter[f].ts, K)
    BY ONLY <1>4, <1>5
  <2> QED
    BY ONLY <1>2, <2>1, KeepIs
<1>7. /\ sys.filter[f].type = "pes" /\ Gone(sys.filter[f].ts, gone, F)
      /\ K = 1 .. Len(sys.filter[f].ts) \ gone
  BY ONLY <1>1, <1>2, <1>3, <1>4, <1>5
<1>8. t \in Sys /\ t.refused = sys.refused /\ (Good(sys, NULL) => Good(t, NULL))
  <2>1. w = ReleaseTsFeed(TsStopFiltering(sys, F), F) /\ t = SetTs(w, f, l)
    BY ONLY <1>4
  <2>2. sys \in Sys /\ f \in Filters
    BY <1>2
  <2>3. Harmless(sys, t)
    BY ONLY <1>6, <1>7, <2>1, <2>2, RemovePidIs
  <2> QED
    BY <2>3 DEF Harmless
<1>9. fds' \subseteq Filters
  BY <1>1 DEF IInv
<1>10. refused => t.refused
  BY <1>8, SysFields
<1> QED
  BY ONLY IInv, <1>1, <1>8, <1>9, <1>10, ApplyStep

(* The parts of the state as they are after a step that is no composition. *)
LEMMA NextSys ==
    ASSUME filter' \in [Filters -> FilterRec], timer' \in [Filters -> TimerRec], error' \in [Filters -> Flag],
           IInv, UNCHANGED <<feed, dmxfilter, adapter, refused, oops>>
    PROVE  /\ sys' \in Sys /\ Same(sys, sys') /\ sys'.filter = filter' /\ sys'.refused = refused
<1>1. /\ sys'.filter = filter' /\ sys'.feed = feed /\ sys'.dmxfilter = dmxfilter /\ sys'.timer = timer'
      /\ sys'.error = error' /\ sys'.adapter = adapter /\ sys'.refused = refused /\ sys'.oops = oops
  BY DEF sys
<1>2. /\ feed \in [Feeds -> FeedRec] /\ dmxfilter \in [DmxFilters -> DmxRec] /\ adapter \in AdapterRec
      /\ refused \in Flag /\ oops \in Flag
  BY SysFields, SysParts DEF IInv
<1>3. sys' = [filter |-> filter', feed |-> feed, dmxfilter |-> dmxfilter, timer |-> timer',
              error |-> error', adapter |-> adapter, refused |-> refused, oops |-> oops]
  BY DEF sys
<1>4. sys' \in Sys
  BY <1>2, <1>3 DEF Sys
<1> QED
  BY <1>1, <1>4, SysFields DEF Same

(* open takes a filter that is free, which is off and has no feed.       *)
LEMMA OpenStep == ASSUME IInv, Open PROVE IInv'
<1> DEFINE free == {f \in Filters : filter[f].state = FREE}
           f == Lowest(free)
           r == [FreshFilter EXCEPT !.state = ALLOCATED, !.sec = filter[f].sec]
<1>1. /\ free # {} /\ filter' = [filter EXCEPT ![f] = r] /\ error' = [error EXCEPT ![f] = FALSE]
      /\ timer' = [timer EXCEPT ![f].pending = FALSE] /\ fds' = fds \cup {f}
      /\ UNCHANGED <<feed, dmxfilter, adapter, zombie, refused, oops>>
  BY DEF Open
<1>2. f \in free
  <2>1. free \in SUBSET Nat
    BY PoolsAre, Zenon
  <2> HIDE DEF free
  <2> QED
    BY ONLY <1>1, <2>1, LowestIs
<1>3. f \in Filters /\ filter[f].state = FREE
  BY <1>2
<1>4. /\ filter \in [Filters -> FilterRec] /\ timer \in [Filters -> TimerRec] /\ error \in [Filters -> Flag]
      /\ filter[f] \in FilterRec /\ timer[f] \in TimerRec
  BY <1>3, SysFields, SysParts DEF IInv
<1>5. r \in FilterRec /\ r.state = ALLOCATED /\ r.ts = <<>>
  <2> DEFINE q == [FreshFilter EXCEPT !.state = ALLOCATED]
  <2>1. q \in FilterRec /\ q.state = ALLOCATED /\ q.ts = <<>>
    BY FreshAre DEF FreshFilter
  <2>2. filter[f].sec \in Feeds \cup {NULL}
    BY <1>4 DEF FilterRec
  <2>3. r = [q EXCEPT !.sec = filter[f].sec]
    OBVIOUS
  <2> HIDE DEF q, r
  <2>4. r \in FilterRec
    BY <2>1, <2>2, <2>3, FilterWith
  <2> QED
    BY <2>1, <2>3, <2>4 DEF FilterRec
<1> HIDE DEF free, f, r
<1>6. filter' \in [Filters -> FilterRec]
  BY <1>1, <1>4, <1>5
<1>7. error' \in [Filters -> Flag]
  BY <1>1, <1>4, FlagIs
<1>8. timer' \in [Filters -> TimerRec]
  <2>1. [timer[f] EXCEPT !.pending = FALSE] \in TimerRec
    BY <1>4, FlagIs DEF TimerRec
  <2>2. timer' = [timer EXCEPT ![f] = [timer[f] EXCEPT !.pending = FALSE]]
    BY <1>1
  <2> QED
    BY <1>4, <2>1, <2>2
<1>9. sys' \in Sys /\ Same(sys, sys') /\ sys'.filter = filter' /\ sys'.refused = refused
  BY <1>1, <1>6, <1>7, <1>8, NextSys
<1>10. filter'[f] = r /\ \A x \in Filters : x # f => filter'[x] = filter[x]
  BY <1>1, <1>3, <1>4
<1>11. /\ ~On(sys.filter[f]) /\ ~On(sys'.filter[f]) /\ Blank(sys'.filter[f])
       /\ \A x \in Filters : x # f => sys'.filter[x] = sys.filter[x]
  <2>1. sys.filter = filter /\ sys'.filter = filter'
    BY <1>9, SysFields
  <2>2. ~On(filter[f])
    BY <1>3, StateIs DEF On
  <2>3. ~On(filter'[f])
    BY <1>5, <1>10, StateIs DEF On
  <2>4. Blank(filter'[f])
    BY <1>5, <1>10 DEF Blank
  <2> QED
    BY <1>10, <2>1, <2>2, <2>3, <2>4
<1>12. PICK t : t = sys'
  OBVIOUS
<1>13. Good(sys, NULL) => Good(t, NULL)
  <2>1. sys \in Sys /\ t \in Sys /\ Same(sys, t) /\ ~On(t.filter[f]) /\ Blank(t.filter[f])
        /\ \A x \in Filters : x # f => t.filter[x] = sys.filter[x]
    BY <1>9, <1>11, <1>12 DEF IInv
  <2> QED
    BY ONLY <1>3, <1>11, <2>1, EditOff
<1>14. fds' \subseteq Filters /\ zombie' = zombie /\ t \in Sys /\ sys' = t /\ t.refused = refused
  BY <1>1, <1>3, <1>9, <1>12 DEF IInv
<1> QED
  BY ONLY IInv, <1>13, <1>14, Step

(* The filters keep what matters.                                          *)
LEMMA KeepStep ==
    ASSUME IInv, sys' \in Sys, Same(sys, sys'), sys'.refused = refused, fds' = fds, ~zombie' => ~zombie,
           ~zombie' => \A x \in Filters :
             /\ On(sys'.filter[x]) <=> On(sys.filter[x])
             /\ sys'.filter[x].type = sys.filter[x].type /\ sys'.filter[x].pid = sys.filter[x].pid
             /\ sys'.filter[x].sec = sys.filter[x].sec /\ sys'.filter[x].secfilter = sys.filter[x].secfilter
             /\ sys'.filter[x].ts = sys.filter[x].ts
    PROVE  IInv'
<1>1. PICK t : t = sys'
  OBVIOUS
<1>2. sys \in Sys /\ t \in Sys /\ Same(sys, t)
  BY <1>1 DEF IInv
<1>3. ASSUME Good(sys, NULL), ~zombie' PROVE Good(t, NULL)
  <2>1. t.feed = sys.feed /\ t.dmxfilter = sys.dmxfilter /\ t.adapter = sys.adapter /\ t.oops = sys.oops
    BY <1>2 DEF Same
  <2>2. \A x \in Filters :
             /\ On(t.filter[x]) <=> On(sys.filter[x])
             /\ t.filter[x].type = sys.filter[x].type /\ t.filter[x].pid = sys.filter[x].pid
             /\ t.filter[x].sec = sys.filter[x].sec /\ t.filter[x].secfilter = sys.filter[x].secfilter
             /\ t.filter[x].ts = sys.filter[x].ts
    BY <1>1, <1>3
  <2>3. \A x \in Filters : ~On(sys.filter[x]) => \A k \in DOMAIN t.filter[x].ts : t.filter[x].ts[k].ts = NULL
    <3>1. \A x \in Filters : ~On(sys.filter[x]) => \A k \in DOMAIN sys.filter[x].ts : sys.filter[x].ts[k].ts = NULL
      BY <1>3 DEF Good, Quiet, PesOn
    <3> QED
      BY ONLY <2>2, <3>1
  <2> QED
    BY ONLY <1>2, <1>3, <2>1, <2>2, <2>3, EditKeeps
<1>4. fds' \subseteq Filters /\ t \in Sys /\ sys' = t /\ t.refused = refused
  BY <1>1, <1>2 DEF IInv
<1>5. (refused => t.refused) /\ (Good(sys, NULL) /\ ~t.refused /\ ~zombie' => Good(t, NULL)) /\ (~zombie' => ~zombie)
  BY <1>3, <1>4
<1> QED
  BY ONLY IInv, <1>4, <1>5, Step

(* The types of the variables.                                           *)
LEMMA PartsAre ==
    IInv => /\ filter \in [Filters -> FilterRec] /\ timer \in [Filters -> TimerRec]
            /\ error \in [Filters -> Flag] /\ dmxfilter \in [DmxFilters -> DmxRec]
            /\ feed \in [Feeds -> FeedRec]
BY SysFields, SysParts DEF IInv

(* The filters are untouched.                                              *)
LEMMA UntouchedStep ==
    ASSUME IInv, timer' \in [Filters -> TimerRec], error' \in [Filters -> Flag],
           UNCHANGED <<filter, feed, dmxfilter, adapter, refused, oops, fds, zombie>>
    PROVE  IInv'
<1>1. filter' \in [Filters -> FilterRec] /\ filter' = filter /\ fds' = fds /\ zombie' = zombie
      /\ UNCHANGED <<feed, dmxfilter, adapter, refused, oops>>
  BY PartsAre
<1>2. sys' \in Sys /\ Same(sys, sys') /\ sys'.filter = filter' /\ sys'.refused = refused
  BY <1>1, NextSys
<1>3. sys'.filter = sys.filter
  BY <1>1, <1>2, SysFields
<1> QED
  BY <1>1, <1>2, <1>3, KeepStep

(* A read that reports the error and clears it                           *)
LEMMA ReadErrorStep == ASSUME IInv, NEW f, ReadError(f) PROVE IInv'
<1>1. error' = [error EXCEPT ![f] = FALSE] /\ timer' = timer
      /\ UNCHANGED <<filter, feed, dmxfilter, adapter, refused, oops, fds, zombie>>
  BY DEF ReadError
<1>2. timer' \in [Filters -> TimerRec] /\ error' \in [Filters -> Flag]
  BY <1>1, PartsAre, FlagIs
<1> QED
  BY <1>1, <1>2, UntouchedStep

(* The timer starts its handler                                          *)
LEMMA TimerExpiresStep == ASSUME IInv, NEW f, TimerExpires(f) PROVE IInv'
<1>1. /\ error' = [error EXCEPT ![f] = TRUE]
      /\ timer' = [timer EXCEPT ![f] = [pending |-> FALSE, running |-> TRUE]]
      /\ UNCHANGED <<filter, feed, dmxfilter, adapter, refused, oops, fds, zombie>>
  BY DEF TimerExpires
<1>2. [pending |-> FALSE, running |-> TRUE] \in TimerRec
  BY ONLY FlagIs, Zenon DEF TimerRec
<1>3. timer' \in [Filters -> TimerRec] /\ error' \in [Filters -> Flag]
  BY <1>1, <1>2, PartsAre, FlagIs
<1> QED
  BY <1>1, <1>3, UntouchedStep

(* One filter is marked; both states are on, or both are off, or the       *)
(* handler has come late.                                                  *)
LEMMA MarkStep ==
    ASSUME IInv, timer' \in [Filters -> TimerRec], error' \in [Filters -> Flag], NEW f, NEW v \in States,
           filter' = [filter EXCEPT ![f].state = v], UNCHANGED <<feed, dmxfilter, adapter, refused, oops, fds>>,
           ~zombie' => ~zombie, v >= GO, ~zombie' => On(filter[f])
    PROVE  IInv'
<1>1. filter \in [Filters -> FilterRec]
  BY PartsAre
<1>2. ASSUME NEW x \in Filters
      PROVE  /\ filter'[x] \in FilterRec /\ filter'[x].type = filter[x].type /\ filter'[x].pid = filter[x].pid
             /\ filter'[x].sec = filter[x].sec /\ filter'[x].secfilter = filter[x].secfilter
             /\ filter'[x].ts = filter[x].ts
             /\ ~zombie' => (On(filter'[x]) <=> On(filter[x]))
  <2>1. filter[x] \in FilterRec
    BY <1>1
  <2>2. CASE x = f
    <3> DEFINE r == [filter[x] EXCEPT !.state = v]
    <3>1. filter'[x] = r
      BY <1>1, <2>2
    <3>2. /\ r.type = filter[x].type /\ r.pid = filter[x].pid /\ r.state = v
          /\ r.sec = filter[x].sec /\ r.secfilter = filter[x].secfilter /\ r.ts = filter[x].ts
      BY <2>1 DEF FilterRec
    <3>3. r \in FilterRec
      BY <2>1, FilterWith
    <3> HIDE DEF r
    <3>4. On(r)
      BY <3>2 DEF On
    <3> QED
      BY <2>2, <3>1, <3>2, <3>3, <3>4
  <2>3. CASE x # f
    <3>1. filter'[x] = filter[x]
      BY <1>1, <2>3
    <3> QED
      BY <2>1, <3>1 DEF On
  <2> QED
    BY <2>2, <2>3
<1>3. filter' \in [Filters -> FilterRec]
  <2>1. DOMAIN filter' = Filters /\ filter' = [x \in Filters |-> filter'[x]]
    BY <1>1
  <2> QED
    BY <1>2, <2>1
<1>4. sys' \in Sys /\ Same(sys, sys') /\ sys'.filter = filter' /\ sys'.refused = refused
  BY <1>3, NextSys
<1>5. sys'.filter = filter' /\ sys.filter = filter /\ fds' = fds
  BY <1>4, SysFields
<1>6. ~zombie' => \A x \in Filters :
             /\ On(sys'.filter[x]) <=> On(sys.filter[x])
             /\ sys'.filter[x].type = sys.filter[x].type /\ sys'.filter[x].pid = sys.filter[x].pid
             /\ sys'.filter[x].sec = sys.filter[x].sec /\ sys'.filter[x].secfilter = sys.filter[x].secfilter
             /\ sys'.filter[x].ts = sys.filter[x].ts
  BY <1>2, <1>5
<1> QED
  BY <1>4, <1>5, <1>6, KeepStep

(* The handler marks the filter: if it is off by then, the state is no   *)
(* longer Sound.                                                         *)
LEMMA TimerMarksStep == ASSUME IInv, NEW f \in Filters, TimerMarks(f) PROVE IInv'
<1>1. /\ timer' = [timer EXCEPT ![f].running = FALSE] /\ filter' = [filter EXCEPT ![f].state = TIMEDOUT]
      /\ zombie' = (zombie \/ filter[f].state < GO)
      /\ error' = error /\ UNCHANGED <<feed, dmxfilter, adapter, refused, oops, fds>>
  BY DEF TimerMarks
<1>2. timer' \in [Filters -> TimerRec]
  <2>1. timer \in [Filters -> TimerRec] /\ timer[f] \in TimerRec
    BY PartsAre
  <2>2. [timer[f] EXCEPT !.running = FALSE] \in TimerRec
    BY <2>1, FlagIs DEF TimerRec
  <2>3. timer' = [timer EXCEPT ![f] = [timer[f] EXCEPT !.running = FALSE]]
    BY <1>1
  <2> QED
    BY <2>1, <2>2, <2>3
<1>3. error' \in [Filters -> Flag]
  BY <1>1, PartsAre
<1>4. TIMEDOUT \in States /\ TIMEDOUT >= GO
  BY StateIs
<1>5. ~zombie' => On(filter[f])
  <2>1. filter[f] \in FilterRec
    BY PartsAre
  <2>2. filter[f].state \in States
    BY <2>1 DEF FilterRec
  <2> QED
    BY <1>1, <2>2, StateIs DEF On
<1>6. ~zombie' => ~zombie
  BY <1>1
<1> QED
  BY ONLY IInv, <1>1, <1>2, <1>3, <1>4, <1>5, <1>6, MarkStep

(* A section arrives: a one-shot filter is done, an overflow is marked.  *)
LEMMA SectionCallbackStep == ASSUME IInv, NEW j, NEW overflow \in BOOLEAN, SectionCallback(j, overflow) PROVE IInv'
<1> DEFINE f == dmxfilter[j].priv
           v == IF filter[f].oneshot THEN DONE ELSE GO
<1>1. /\ filter[f].state = GO /\ timer' = [timer EXCEPT ![f].pending = FALSE]
      /\ error' = [error EXCEPT ![f] = overflow] /\ zombie' = zombie
      /\ UNCHANGED <<feed, dmxfilter, adapter, refused, oops, fds>>
  BY DEF SectionCallback
<1>2. filter' = [filter EXCEPT ![f].state = v]
  <2>1. filter' = [filter EXCEPT ![f].state = IF filter[f].oneshot THEN DONE ELSE @]
    BY DEF SectionCallback
  <2>2. filter \in [Filters -> FilterRec] /\ filter[f].state = GO
    BY <1>1, PartsAre
  <2> HIDE DEF f
  <2> QED
    BY <2>1, <2>2
<1>3. v \in States /\ v >= GO
  <2>1. DONE \in States /\ DONE >= GO /\ GO \in States /\ GO >= GO
    BY StateIs
  <2>2. v = DONE \/ v = GO
    OBVIOUS
  <2> HIDE DEF v
  <2> QED
    BY ONLY <2>1, <2>2
<1> HIDE DEF f, v
<1>4. timer' \in [Filters -> TimerRec]
  <2>1. timer \in [Filters -> TimerRec]
    BY PartsAre
  <2>2. ASSUME NEW x \in Filters PROVE timer'[x] \in TimerRec
    <3>1. timer[x] \in TimerRec /\ [timer[x] EXCEPT !.pending = FALSE] \in TimerRec
      BY <2>1, FlagIs DEF TimerRec
    <3>2. timer'[x] = IF x = f THEN [timer[x] EXCEPT !.pending = FALSE] ELSE timer[x]
      BY <1>1, <2>1
    <3> QED
      BY <3>1, <3>2
  <2>3. timer' = [x \in Filters |-> timer'[x]]
    BY <1>1, <2>1
  <2> QED
    BY <2>2, <2>3
<1>5. error' \in [Filters -> Flag]
  <2>1. overflow \in Flag
    BY DEF Flag
  <2> QED
    BY <1>1, <2>1, PartsAre
<1>6. On(filter[f])
  BY <1>1, StateIs DEF On
<1> QED
  BY ONLY IInv, <1>1, <1>2, <1>3, <1>4, <1>5, <1>6, MarkStep

(* Every step keeps the inductive invariant.                             *)
LEMMA NextIInv == ASSUME IInv, [Next]_vars PROVE IInv'
<1>1. ASSUME NEW f \in Filters, Ioctl(f) PROVE IInv'
  <2>1. CASE Close(f)
    BY <2>1, CloseStep
  <2>2. CASE Start(f)
    BY <2>2, StartStep
  <2>3. CASE Stop(f)
    BY <2>3, StopStep
  <2>4. CASE ReadError(f)
    BY <2>4, ReadErrorStep
  <2>5. CASE SetPesFilterInvalid(f)
    BY <2>5, SetPesFilterInvalidStep
  <2>6. ASSUME NEW pid \in Pids, NEW flags \in SecFlags, NEW immediate \in BOOLEAN,
               SetFilter(f, pid, flags[1], flags[2], immediate)
        PROVE  IInv'
    <3>1. flags[1] \in BOOLEAN /\ flags[2] \in BOOLEAN
      BY PoolsAssumption
    <3> QED
      BY <2>6, <3>1, SetFilterStep
  <2>7. ASSUME NEW pid \in Pids, NEW multi \in PesOutputs, NEW immediate \in BOOLEAN,
               SetPesFilter(f, pid, multi, immediate)
        PROVE  IInv'
    <3>1. multi \in BOOLEAN
      BY PoolsAssumption
    <3> QED
      BY <2>7, <3>1, SetPesFilterStep
  <2>8. ASSUME NEW pid \in Pids, AddPid(f, pid) PROVE IInv'
    BY <2>8, AddPidStep
  <2>9. ASSUME NEW pid \in Pids, RemovePid(f, pid) PROVE IInv'
    BY <2>9, RemovePidStep
  <2> QED
    BY <1>1, <2>1, <2>2, <2>3, <2>4, <2>5, <2>6, <2>7, <2>8, <2>9, Zenon DEF Ioctl
<1>2. CASE Open
  BY <1>2, OpenStep
<1>3. ASSUME NEW f \in Filters, TimerExpires(f) PROVE IInv'
  BY <1>3, TimerExpiresStep
<1>4. ASSUME NEW f \in Filters, TimerMarks(f) PROVE IInv'
  BY <1>4, TimerMarksStep
<1>5. ASSUME NEW j \in DmxFilters, NEW overflow \in BOOLEAN, SectionCallback(j, overflow) PROVE IInv'
  BY <1>5, SectionCallbackStep
<1>6. CASE UNCHANGED vars
  <2>1. /\ UNCHANGED <<filter, feed, dmxfilter, adapter, refused, oops, fds, zombie>> /\ timer' = timer /\ error' = error
    BY <1>6 DEF vars
  <2> QED
    BY <2>1, PartsAre, UntouchedStep
<1> QED
  BY <1>1, <1>2, <1>3, <1>4, <1>5, <1>6, Zenon DEF Next

(* It holds in every state of the system.                                *)
LEMMA Invariant == Spec => []IInv
BY InitIInv, NextIInv, PTL DEF Spec

---------------------------------------------------------------------------
(* The theorems                                                          *)

(* Between two ioctls no feed is halted.                                 *)
LEMMA SoundIsGood == ASSUME IInv, Sound PROVE Good(sys, NULL)
BY DEF IInv

(* The words of the invariant and those of the properties.               *)
LEMMA OnIs ==
    /\ \A f \in Filters : On(sys.filter[f]) <=> Running(f)
    /\ \A f \in Filters : SecOn(sys, f) <=> Running(f) /\ filter[f].type = "sec"
    /\ \A f \in Filters : PesOn(sys, f) <=> Running(f) /\ filter[f].type = "pes"
BY SysFields DEF On, SecOn, PesOn, Running

(* The properties follow from the inductive invariant.                   *)
LEMMA IInvActive == IInv => ActiveHasFeed
<1> SUFFICES ASSUME IInv, Sound, NEW f \in Filters, Running(f), filter[f].type = "sec"
             PROVE  LET i == filter[f].sec
                        j == filter[f].secfilter
                    IN  /\ i # NULL /\ j # NULL
                        /\ feed[i].state = "go" /\ feed[i].type = "sec" /\ feed[i].pid = filter[f].pid
                        /\ j \in feed[i].filters
                        /\ dmxfilter[j].priv = f /\ ~dmxfilter[j].free
                        /\ \A other \in Feeds \ {i} :
                             feed[other].state # "free" /\ feed[other].type = "sec" => feed[other].pid # feed[i].pid
  BY Zenon DEF ActiveHasFeed
<1> DEFINE i == filter[f].sec
           j == filter[f].secfilter
<1>1. Good(sys, NULL) /\ SecOn(sys, f)
  BY SoundIsGood, OnIs
<1>2. /\ i \in Feeds /\ j \in DmxFilters /\ feed[i].state = "go" /\ feed[i].type = "sec"
      /\ feed[i].pid = filter[f].pid /\ j \in feed[i].filters /\ dmxfilter[j].priv = f
  BY <1>1, SysFields, PoolsAre DEF Good, Sections
<1>3. ~dmxfilter[j].free
  BY <1>1, <1>2, SysFields DEF Good, Hooks
<1>4. ASSUME NEW x \in Feeds \ {i}, feed[x].state # "free", feed[x].type = "sec"
      PROVE  feed[x].pid # feed[i].pid
  <2>1. SecOwned(sys, x)
    BY <1>1, <1>4, SysFields, PoolsAre DEF Good, Owners, Owned
  <2>2. PICK g \in Filters : SecOn(sys, g) /\ filter[g].sec = x
    BY <2>1, SysFields DEF SecOwned
  <2>3. feed[x].pid = filter[g].pid
    BY <1>1, <2>2, SysFields DEF Good, Sections
  <2>4. filter[g].pid # filter[f].pid
    BY <1>1, <1>4, <2>2, SysFields DEF Good, Shares
  <2> QED
    BY <1>2, <2>3, <2>4
<1> QED
  BY <1>2, <1>3, <1>4, PoolsAre

(* The owner of a feed that runs is a filter that does.                  *)
LEMMA IInvOrphan == IInv => NoOrphan
<1> SUFFICES ASSUME IInv, Sound PROVE NoOrphan
  BY DEF NoOrphan
<1>1. Good(sys, NULL)
  BY SoundIsGood
<1>2. ASSUME NEW i \in Feeds, feed[i].state # "free"
      PROVE  \E f \in Filters :
               /\ Running(f)
               /\ \/ filter[f].type = "sec" /\ filter[f].sec = i
                  \/ filter[f].type = "pes" /\ \E k \in 1 .. Len(filter[f].ts) : filter[f].ts[k].ts = i
  <2>1. Owned(sys, i)
    BY <1>1, <1>2, SysFields, PoolsAre DEF Good, Owners
  <2>2. CASE SecOwned(sys, i)
    BY <2>2, SysFields, OnIs DEF SecOwned
  <2>3. CASE TsOwned(sys, i)
    <3> DEFINE f == feed[i].priv
    <3>1. f \in Filters /\ PesOn(sys, f) /\ Names(filter[f].ts, i)
      BY <2>3, SysFields DEF TsOwned
    <3>2. DOMAIN filter[f].ts = 1 .. Len(filter[f].ts)
      BY <3>1, SysFields, ListIs DEF IInv
    <3>3. PICK k \in 1 .. Len(filter[f].ts) : filter[f].ts[k].ts = i
      BY <3>1, <3>2 DEF Names
    <3> QED
      BY <3>1, <3>3, OnIs
  <2> QED
    BY <2>1, <2>2, <2>3 DEF Owned
<1>3. ASSUME NEW j \in DmxFilters, ~dmxfilter[j].free PROVE feed[dmxfilter[j].feed].state # "free"
  BY <1>1, <1>3, SysFields DEF Good, Hooks
<1> QED
  BY <1>2, <1>3 DEF NoOrphan

(* The counter is the number of feeds that run.                          *)
LEMMA IInvDma == IInv => DmaFollowsFeeds
<1> SUFFICES ASSUME IInv, Sound
             PROVE  /\ adapter.feeds = Cardinality({i \in Feeds : feed[i].state = "go"})
                    /\ adapter.dma <=> adapter.feeds > 0
  BY DEF DmaFollowsFeeds
<1>1. Counted(sys)
  BY SoundIsGood DEF Good
<1> QED
  BY <1>1, SysFields DEF Counted, Going

(* The types follow, and NULL was not dereferenced.                      *)
LEMMA IInvOops == IInv => NoOops
<1> SUFFICES ASSUME IInv PROVE NoOops
  OBVIOUS
<1>1. ASSUME NEW f \in Filters
      PROVE  /\ filter[f].state \in FREE .. TIMEDOUT
             /\ filter[f].type \in {"none", "sec", "pes"}
             /\ filter[f].pid \in Pids \cup {NoPid}
             /\ filter[f].sec \in Feeds \cup {NULL}
             /\ filter[f].secfilter \in DmxFilters \cup {NULL}
             /\ Len(filter[f].ts) <= MaxPids
             /\ \A k \in 1 .. Len(filter[f].ts) : filter[f].ts[k].ts \in Feeds \cup {NULL}
  <2>1. filter[f] \in FilterRec
    BY PartsAre
  <2>2. /\ Len(filter[f].ts) <= MaxPids
        /\ \A k \in 1 .. Len(filter[f].ts) : filter[f].ts[k].ts \in Feeds \cup {NULL}
    BY ListIs, SysFields DEF IInv
  <2> QED
    BY <2>1, <2>2 DEF FilterRec, States
<1>2. ASSUME NEW i \in Feeds
      PROVE  feed[i].state \in {"free", "allocated", "ready", "go"} /\ feed[i].filters \subseteq DmxFilters
  <2>1. feed[i] \in FeedRec
    BY PartsAre
  <2> QED
    BY <2>1 DEF FeedRec
<1>3. Sound => adapter.feeds \in 0 .. FeedNum
  <2>1. Sound => adapter.feeds = Cardinality(Going(sys))
    BY SoundIsGood, SysFields DEF Good, Counted
  <2>2. Going(sys) \subseteq Feeds
    BY DEF Going
  <2>3. Cardinality(Going(sys)) \in Nat /\ Cardinality(Going(sys)) <= FeedNum
    BY <2>2, PoolsAre, FS_Subset, FS_CardinalityType
  <2> QED
    BY <2>1, <2>3, PoolsAre
<1>4. fds \subseteq Filters
  BY DEF IInv
<1>5. Sound => ~oops
  BY SoundIsGood, SysFields DEF Good
<1>6. TypeOK
  BY <1>1, <1>2, <1>3, <1>4, Zenon DEF TypeOK
<1> QED
  BY <1>5, <1>6 DEF NoOops

(* However the ioctls, the callbacks and the timers of all filters come  *)
(* in between: a section filter that is started has a running feed of    *)
(* its PID with its section filter on it, and no other section feed has  *)
(* that PID. dvb_dmxdev_feed_stop halts the feed of all the filters on   *)
(* it and dvb_dmxdev_feed_restart runs it for the others again.          *)
THEOREM StartedFiltersReceive == Spec => []ActiveHasFeed
BY Invariant, IInvActive, PTL

(* A feed that is in use belongs to a filter that is started, and a      *)
(* section filter of the demux that is in use hooks on a feed that is:   *)
(* every dvb_dmxdev_filter_stop, DMX_REMOVE_PID and close gives back all *)
(* that was taken.                                                       *)
THEOREM NothingIsOrphaned == Spec => []NoOrphan
BY Invariant, IInvOrphan, PTL

(* The feeds counter of the TBS adapter is the number of feeds that run, *)
(* and its DMA is on exactly while that is not zero, through every       *)
(* start_feed and stop_feed that the ioctls of all filters cause.        *)
THEOREM CounterIsExact == Spec => []DmaFollowsFeeds
BY Invariant, IInvDma, PTL

(* The records keep their types, and dvbdmx_release_ts_feed and          *)
(* DMX_REMOVE_PID never follow a feed pointer that is NULL.              *)
THEOREM NoNullFeed == Spec => []NoOops
BY Invariant, IInvOops, PTL
===========================================================================
