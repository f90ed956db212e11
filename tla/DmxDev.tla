------------------------------- MODULE DmxDev -------------------------------
(***************************************************************************)
(* The filters of a demux device (dmxdev.c), the feeds and section filters *)
(* they take from the software demux (dvb_demux.c), and the DMA channel    *)
(* that the TBS bridge switches on for the first feed and off after the    *)
(* last (tbsecp3-dvb.c).                                                   *)
(*                                                                         *)
(* Every ioctl holds dmxdev->mutex for its whole length, so an ioctl is    *)
(* one action.  The section callback (softirq) and the two halves of the   *)
(* timeout handler (timer softirq) come in between.  Section filters on    *)
(* the same PID share one feed.  What is in a filter's ring buffer is left *)
(* to DvbRingBuffer; here only its error mark is kept.                     *)
(***************************************************************************)
EXTENDS Integers, Sequences, FiniteSets

CONSTANTS
    FilterNum,      \* dmxdev->filternum
    FeedNum,        \* dvbdemux->feednum
    DmxFilterNum,   \* dvbdemux->filternum
    Pids,           \* the PIDs that filters are set to, valid and invalid
    SecFlags,       \* the <<DMX_ONESHOT, timeout>> combinations in use
    PesOutputs,     \* the outputs in use: TRUE is DMX_OUT_TSDEMUX_TAP
    MaxPids         \* bound on the PIDs of one DMX_OUT_TSDEMUX_TAP filter

ASSUME PoolsAssumption ==
    /\ FilterNum \in Nat \ {0} /\ FeedNum \in Nat \ {0} /\ DmxFilterNum \in Nat \ {0}
    /\ SecFlags \subseteq BOOLEAN \X BOOLEAN /\ PesOutputs \subseteq BOOLEAN
    /\ Pids \subseteq Nat /\ MaxPids \in Nat \ {0}

Filters    == 0 .. FilterNum - 1
Feeds      == 0 .. FeedNum - 1
DmxFilters == 0 .. DmxFilterNum - 1
NULL       == -1
NoPid      == 65535         \* dvbdmxfeed->pid = 0xffff
MAX_PID     == 8191         \* 0x1fff, the last PID of a section feed
DMX_MAX_PID == 8192         \* 0x2000, all PIDs, is allowed for a TS feed

(* enum dmxdev_state; the order matters, filters are active from GO on.    *)
FREE      == 0
ALLOCATED == 1
SET       == 2
GO        == 3
DONE      == 4
TIMEDOUT  == 5

VARIABLES
    filter,     \* dmxdev->filter[]: what DMX_SET_FILTER and DMX_START set
    feed,       \* dvbdemux->feed[]
    dmxfilter,  \* dvbdemux->filter[]
    timer,      \* per filter: the timer is pending; its handler is running
    error,      \* per filter: buffer.error is set
    adapter,    \* struct tbsecp3_adapter: the feeds counter and the DMA
    fds,        \* the filters that some file descriptor is open for
    zombie,     \* a handler has marked a stopped filter as timed out
    refused,    \* a TS feed could not be allocated or set
    oops        \* a NULL feed has been dereferenced

vars == <<filter, feed, dmxfilter, timer, error, adapter, fds,
          zombie, refused, oops>>

(* The whole state as one record, for the functions below: the code of an  *)
(* ioctl is a composition of them.                                         *)
sys == [filter |-> filter, feed |-> feed, dmxfilter |-> dmxfilter,
        timer |-> timer, error |-> error,
        adapter |-> adapter, refused |-> refused, oops |-> oops]

Apply(s) ==
    /\ filter' = s.filter /\ feed' = s.feed /\ dmxfilter' = s.dmxfilter
    /\ timer' = s.timer /\ error' = s.error
    /\ adapter' = s.adapter /\ refused' = s.refused /\ oops' = s.oops

Lowest(S) == CHOOSE x \in S : \A y \in S : x <= y

(* The members of a finite set of numbers, from the lowest up.             *)
Ascending(S) ==
    CHOOSE a \in [1 .. Cardinality(S) -> S] :
        /\ S = {a[k] : k \in DOMAIN a}
        /\ \A k, l \in DOMAIN a : k < l => a[k] < a[l]

FreshFilter == [state |-> FREE, type |-> "none", pid |-> NoPid, oneshot |-> FALSE,
                timeout |-> FALSE, multi |-> FALSE, sec |-> NULL, secfilter |-> NULL,
                ts |-> <<>>]

FreeFeed == [state |-> "free", type |-> "none", pid |-> NoPid, priv |-> NULL, filters |-> {}]

FreeDmxFilter == [free |-> TRUE, feed |-> NULL, priv |-> NULL]

Init ==
    /\ filter = [f \in Filters |-> FreshFilter]
    /\ feed = [i \in Feeds |-> FreeFeed]
    /\ dmxfilter = [j \in DmxFilters |-> FreeDmxFilter]
    /\ timer = [f \in Filters |-> [pending |-> FALSE, running |-> FALSE]]
    /\ error = [f \in Filters |-> FALSE]
    /\ adapter = [feeds |-> 0, dma |-> FALSE]
    /\ fds = {} /\ zombie = FALSE /\ refused = FALSE /\ oops = FALSE

---------------------------------------------------------------------------
(* tbsecp3-dvb.c: start_feed and stop_feed, called n times                 *)

start_feed(s, n) ==
    [s EXCEPT !.adapter =
        [feeds |-> @.feeds + n, dma |-> IF @.feeds <= 0 /\ @.feeds + n > 0 THEN TRUE ELSE @.dma]]

(* A bug: the counter runs down and the DMA is never switched off.         *)
StopFeedKeepsDma(s, n) == [s EXCEPT !.adapter.feeds = @ - n]

stop_feed(s, n) ==
    [s EXCEPT !.adapter =
        [feeds |-> @.feeds - n, dma |-> IF @.feeds > 0 /\ @.feeds - n <= 0 THEN FALSE ELSE @.dma]]

---------------------------------------------------------------------------
(* dvb_demux.c: feeds and their section filters                            *)

FreeFeeds(s)      == {i \in Feeds : s.feed[i].state = "free"}
FreeDmxFilters(s) == {j \in DmxFilters : s.dmxfilter[j].free}

(* dmx_section_feed_start_filtering: not twice, and not without a filter.  *)
SectionStartFiltering(s, i) ==
    IF s.feed[i].state = "go" \/ s.feed[i].filters = {}
      THEN s
      ELSE start_feed([s EXCEPT !.feed[i].state = "go"], 1)

(* dmx_section_feed_stop_filtering does not ask whether the feed runs.     *)
SectionStopFiltering(s, i) == stop_feed([s EXCEPT !.feed[i].state = "ready"], 1)

(* dmx_section_feed_release_filter                                         *)
ReleaseFilter(s, i, j) ==
    IF s.dmxfilter[j].feed # i
      THEN s
      ELSE LET t == IF s.feed[i].state = "go" THEN SectionStopFiltering(s, i) ELSE s
           IN  [t EXCEPT !.feed[i].filters = @ \ {j},
                         !.dmxfilter[j] = FreeDmxFilter]

(* dvbdmx_allocate_section_feed and dmx_section_feed_set                   *)
AllocateSectionFeed(s, i, pid) ==
    [s EXCEPT !.feed[i] = [state |-> "ready", type |-> "sec", pid |-> pid,
                           priv |-> NULL, filters |-> {}]]

(* dmx_section_feed_allocate_filter                                        *)
AllocateFilter(s, i, j, f) ==
    [s EXCEPT !.dmxfilter[j] = [free |-> FALSE, feed |-> i, priv |-> f],
              !.feed[i].filters = @ \cup {j}]

(* dvbdmx_release_section_feed                                             *)
ReleaseSectionFeed(s, i) ==
    IF s.feed[i].state = "free"
      THEN s
      ELSE [s EXCEPT !.feed[i] = FreeFeed]

(* dvbdmx_allocate_ts_feed, dmx_ts_feed_set, dmx_ts_feed_start_filtering:  *)
(* what feed i is with section filter j.                                   *)
TsFeed(j, pid, f) == [state |-> "go", type |-> "ts", pid |-> pid, priv |-> f, filters |-> {j}]

(* dmx_ts_feed_stop_filtering, for the feeds of a list one after the other *)
TsStopFiltering(s, S) ==
    LET going == {i \in S : s.feed[i].state = "go"}
    IN  stop_feed([s EXCEPT
            !.feed = [i \in Feeds |-> IF i \in going THEN [s.feed[i] EXCEPT !.state = "allocated"]
                                                     ELSE s.feed[i]]],
            Cardinality(going))

(* dvbdmx_release_ts_feed, also for a list.  feed->filter is the one       *)
(* filter that a TS feed has.                                              *)
ReleaseTsFeed(s, S) ==
    LET used == {i \in S : s.feed[i].state # "free"}
    IN  [s EXCEPT
            !.feed = [i \in Feeds |-> IF i \in used THEN FreeFeed ELSE s.feed[i]],
            !.dmxfilter = [j \in DmxFilters |-> IF \E i \in used : j \in s.feed[i].filters
                                                 THEN FreeDmxFilter ELSE s.dmxfilter[j]],
            !.oops = @ \/ \E i \in used : s.feed[i].filters = {}]

---------------------------------------------------------------------------
(* dmxdev.c: starting and stopping a filter                                *)

(* The active section filters on a PID.                                    *)
Active(s, pid) ==
    {g \in Filters : s.filter[g].state >= GO /\ s.filter[g].type = "sec" /\ s.filter[g].pid = pid}

(* The filter whose feed a new filter on the PID shares.                   *)
FeedToShare(s, pid) ==
    LET active == Active(s, pid)
    IN  IF active = {} THEN NULL ELSE s.filter[Lowest(active)].sec

(* dvb_dmxdev_feed_stop for a section filter                               *)
SecFeedStop(s, f) ==
    SectionStopFiltering([s EXCEPT !.filter[f].state = SET, !.timer[f].pending = FALSE],
                         s.filter[f].sec)

(* A bug: the feed is left alone when its last filter goes.                *)
RestartKeepsFeed(s, f) ==
    LET active == Active(s, s.filter[f].pid)
        g == Lowest(active)
    IN  IF active = {} THEN s
        ELSE IF s.filter[g].sec = NULL THEN [s EXCEPT !.filter[g].state = GO, !.oops = TRUE]
        ELSE SectionStartFiltering([s EXCEPT !.filter[g].state = GO], s.filter[g].sec)

(* A bug: the feed is released although other filters use it.              *)
RestartReleases(s, f) == ReleaseSectionFeed(s, s.filter[f].sec)

(* dvb_dmxdev_feed_restart: the first active filter on the PID is started  *)
(* (dvb_dmxdev_feed_start marks it GO, whatever it was); else the feed is  *)
(* released.                                                               *)
FeedRestart(s, f) ==
    LET active == Active(s, s.filter[f].pid)
        g == Lowest(active)
    IN  IF active = {} THEN ReleaseSectionFeed(s, s.filter[f].sec)
        ELSE IF s.filter[g].sec = NULL THEN [s EXCEPT !.filter[g].state = GO, !.oops = TRUE]
        ELSE SectionStartFiltering([s EXCEPT !.filter[g].state = GO], s.filter[g].sec)

(* All TS feeds of a filter are stopped and released.                      *)
TsFeedsStop(s, f) ==
    LET ts  == s.filter[f].ts
        set == [s EXCEPT !.filter[f].state = SET]
        all == {ts[k].ts : k \in 1 .. Len(ts)}
    IN  IF NULL \in all
          THEN [set EXCEPT !.oops = TRUE]
          ELSE [ReleaseTsFeed(TsStopFiltering(set, all), all) EXCEPT
                   !.filter[f].ts = [k \in 1 .. Len(ts) |-> [pid |-> ts[k].pid, ts |-> NULL]]]

(* dvb_dmxdev_filter_stop for a section filter that has a feed             *)
SecStop(s, f) ==
    LET r == s.filter[f]
        stopped  == SecFeedStop(s, f)
        released == IF r.secfilter # NULL THEN ReleaseFilter(stopped, r.sec, r.secfilter)
                                          ELSE stopped
    IN  [FeedRestart(released, f) EXCEPT !.filter[f].sec = NULL, !.filter[f].secfilter = NULL]

(* dvb_dmxdev_filter_stop                                                  *)
FilterStop(s, f) ==
    LET r == s.filter[f]
        flushed == [s EXCEPT !.error[f] = FALSE]
    IN  IF r.state < GO \/ r.type = "none" THEN s
        ELSE IF r.type = "pes" THEN TsFeedsStop(flushed, f)
        ELSE IF r.sec = NULL THEN flushed
        ELSE SecStop(flushed, f)

(* dvb_dmxdev_filter_start for a section filter.  It has no feed at first  *)
(* and shares the one of its PID, halted meanwhile, or takes a free one.   *)
Cleared(s, f) ==
    [s EXCEPT !.filter[f].sec = NULL, !.filter[f].secfilter = NULL, !.error[f] = FALSE]

Join(s, f, i) == SecFeedStop([s EXCEPT !.filter[f].sec = i], f)

Take(s, f, i, pid) ==
    AllocateSectionFeed([s EXCEPT !.filter[f].sec = i], i, IF pid > MAX_PID THEN NoPid ELSE pid)

(* The halted feed i gets a section filter and runs, or it runs again as   *)
(* it was.                                                                 *)
HookUp(s, f, i) ==
    LET j == Lowest(FreeDmxFilters(s))
    IN  [AllocateFilter(s, i, j, f) EXCEPT !.filter[f].secfilter = j]

SecRun(s, f, i, timeout) ==
    [SectionStartFiltering(HookUp(s, f, i), i) EXCEPT
        !.filter[f].state = GO, !.timer[f].pending = timeout]

Finish(s, f, i, timeout) ==
    IF FreeDmxFilters(s) = {} THEN SectionStartFiltering(FeedRestart(s, f), i)
                              ELSE SecRun(s, f, i, timeout)

SecStart(s0, f) ==
    LET pid     == s0.filter[f].pid
        s       == Cleared(s0, f)
        timeout == s.filter[f].timeout
        shared  == FeedToShare(s, pid)
        i       == Lowest(FreeFeeds(s))
    IN  IF shared # NULL THEN Finish(Join(s, f, shared), f, shared, timeout)
        ELSE IF FreeFeeds(s) = {} THEN s
        ELSE IF pid > MAX_PID THEN FeedRestart(Take(s, f, i, pid), f)
        ELSE Finish(Take(s, f, i, pid), f, i, timeout)

(* dvb_dmxdev_start_feed for the first n PIDs of a TS filter, each with   *)
(* the first feed and section filter that are free then.  The first that   *)
(* is refused is the last that is tried; its feed->ts is already set when  *)
(* the section filter or the PID is refused.                               *)
Startable(s, f, k) ==
    /\ k <= Cardinality(FreeFeeds(s)) /\ k <= Cardinality(FreeDmxFilters(s))
    /\ s.filter[f].ts[k].pid <= DMX_MAX_PID

Tried(s, f, n)   == {k \in 1 .. n : \A l \in 1 .. k - 1 : Startable(s, f, l)}
Started(s, f, n) == {k \in 1 .. n : \A l \in 1 .. k : Startable(s, f, l)}

StartFeed(s, f, n) ==
    LET ts   == s.filter[f].ts
        taken == Ascending(FreeFeeds(s))
        with == Ascending(FreeDmxFilters(s))
        started == Started(s, f, n)
        Found(k) == IF k \in DOMAIN taken THEN taken[k] ELSE NULL
        At(i) == CHOOSE k \in started : taken[k] = i
        For(j) == CHOOSE k \in started : with[k] = j
    IN  start_feed([s EXCEPT
            !.filter[f].ts = [k \in 1 .. Len(ts) |-> IF k \in Tried(s, f, n)
                                THEN [pid |-> ts[k].pid, ts |-> Found(k)] ELSE ts[k]],
            !.feed = [i \in Feeds |-> IF \E k \in started : taken[k] = i
                        THEN TsFeed(with[At(i)], ts[At(i)].pid, f) ELSE s.feed[i]],
            !.dmxfilter = [j \in DmxFilters |-> IF \E k \in started : with[k] = j
                             THEN [free |-> FALSE, feed |-> taken[For(j)], priv |-> NULL] ELSE s.dmxfilter[j]],
            !.refused = @ \/ started # 1 .. n],
            Cardinality(started))

(* dvb_dmxdev_filter_start for a TS filter.  When a feed is refused, the   *)
(* dvb_dmxdev_filter_stop that follows finds the state below GO and does   *)
(* nothing.                                                                *)
TsStart(s0, f) ==
    LET n == Len(s0.filter[f].ts)
        s == [s0 EXCEPT !.error[f] = FALSE]
        t == StartFeed(s, f, n)
    IN  IF Started(s, f, n) = 1 .. n THEN [t EXCEPT !.filter[f].state = GO] ELSE t

(* dvb_dmxdev_filter_start                                                 *)
FilterStart(s, f) ==
    LET t == FilterStop(s, f)
    IN  IF s.filter[f].state < SET THEN s
        ELSE IF s.filter[f].type = "sec" THEN SecStart(t, f)
        ELSE IF s.filter[f].type = "pes" THEN TsStart(t, f)
        ELSE t

(* dvb_dmxdev_filter_reset; the parameters mean nothing from here on.      *)
FilterReset(s, f) ==
    IF s.filter[f].state < SET THEN s
    ELSE [s EXCEPT !.filter[f] = [FreshFilter EXCEPT !.state = ALLOCATED, !.sec = s.filter[f].sec]]

---------------------------------------------------------------------------
(* The operations on an open filter                                        *)

(* dvb_demux_open takes the first free filter.                             *)
Open ==
    LET free == {f \in Filters : filter[f].state = FREE}
        f == Lowest(free)
    IN  /\ ~oops /\ free # {}
        /\ filter' = [filter EXCEPT ![f] = [FreshFilter EXCEPT !.state = ALLOCATED, !.sec = filter[f].sec]]
        /\ error' = [error EXCEPT ![f] = FALSE]
        /\ timer' = [timer EXCEPT ![f].pending = FALSE]
        /\ fds' = fds \cup {f}
        /\ UNCHANGED <<feed, dmxfilter, adapter, zombie, refused, oops>>

(* dvb_demux_release, dvb_dmxdev_filter_free                               *)
Close(f) ==
    /\ ~oops /\ f \in fds
    /\ LET s == FilterReset(FilterStop(sys, f), f)
       IN  Apply([s EXCEPT !.filter[f].state = FREE])
    /\ fds' = fds \ {f}
    /\ UNCHANGED zombie

(* DMX_START                                                               *)
Start(f) ==
    /\ ~oops /\ f \in fds
    /\ filter[f].state >= SET
    /\ Apply(FilterStart(sys, f))
    /\ UNCHANGED <<fds, zombie>>

(* DMX_STOP                                                                *)
Stop(f) ==
    /\ ~oops /\ f \in fds
    /\ Apply(FilterStop(sys, f))
    /\ UNCHANGED <<fds, zombie>>

(* DMX_SET_FILTER: dvb_dmxdev_filter_set                                   *)
SetFilter(f, pid, oneshot, timeout, immediate) ==
    /\ ~oops /\ f \in fds
    /\ LET s == [FilterStop(sys, f) EXCEPT !.filter[f] =
                    [@ EXCEPT !.type = "sec", !.pid = pid, !.oneshot = oneshot, !.timeout = timeout,
                              !.ts = <<>>, !.state = SET]]
       IN  Apply(IF immediate THEN FilterStart(s, f) ELSE s)
    /\ UNCHANGED <<fds, zombie>>

(* DMX_SET_PES_FILTER: dvb_dmxdev_pes_filter_set; multi is the output      *)
(* DMX_OUT_TSDEMUX_TAP, which alone may have several PIDs.                 *)
SetPesFilter(f, pid, multi, immediate) ==
    /\ ~oops /\ f \in fds
    /\ LET s == [FilterReset(FilterStop(sys, f), f) EXCEPT !.filter[f] =
                    [@ EXCEPT !.type = "pes", !.multi = multi, !.oneshot = FALSE, !.timeout = FALSE,
                              !.ts = <<[pid |-> pid, ts |-> NULL]>>, !.sec = NULL, !.state = SET]]
       IN  Apply(IF immediate THEN FilterStart(s, f) ELSE s)
    /\ UNCHANGED <<fds, zombie>>

(* DMX_SET_PES_FILTER with an unknown pes_type: -EINVAL, but the filter is *)
(* stopped and reset by then.                                              *)
SetPesFilterInvalid(f) ==
    /\ ~oops /\ f \in fds
    /\ Apply(FilterReset(FilterStop(sys, f), f))
    /\ UNCHANGED <<fds, zombie>>

(* DMX_ADD_PID: dvb_dmxdev_add_pid                                         *)
AddPid(f, pid) ==
    /\ ~oops /\ f \in fds
    /\ filter[f].type = "pes" /\ filter[f].state >= SET
    /\ filter[f].multi \/ filter[f].ts = <<>>
    /\ Len(filter[f].ts) < MaxPids
    /\ LET s == [sys EXCEPT !.filter[f].ts = <<[pid |-> pid, ts |-> NULL]>> \o @]
       IN  Apply(IF filter[f].state >= GO THEN StartFeed(s, f, 1) ELSE s)
    /\ UNCHANGED <<fds, zombie>>

(* What is left of a list when the entries in K alone stay.                *)
Keep(seq, K) == [k \in 1 .. Cardinality(K) |-> seq[Ascending(K)[k]]]

(* A bug: a PID that has no feed is not left alone.                        *)
RemovePidUnchecked(f, pid) ==
    LET ts   == filter[f].ts
        gone == {k \in 1 .. Len(ts) : ts[k].pid = pid}
    IN  /\ ~oops /\ f \in fds
        /\ filter[f].type = "pes" /\ filter[f].state >= SET
        /\ Apply([sys EXCEPT !.filter[f].ts = Keep(ts, 1 .. Len(ts) \ gone),
                             !.oops = \E k \in gone : ts[k].ts = NULL])
        /\ UNCHANGED <<fds, zombie>>

(* DMX_REMOVE_PID: dvb_dmxdev_remove_pid takes out the PIDs that have a    *)
(* feed, and only those.                                                   *)
RemovePid(f, pid) ==
    LET ts   == filter[f].ts
        gone == {k \in 1 .. Len(ts) : ts[k].pid = pid /\ ts[k].ts # NULL}
        feeds == {ts[k].ts : k \in gone}
    IN  /\ ~oops /\ f \in fds
        /\ filter[f].type = "pes" /\ filter[f].state >= SET
        /\ Apply([ReleaseTsFeed(TsStopFiltering(sys, feeds), feeds) EXCEPT
                     !.filter[f].ts = Keep(ts, 1 .. Len(ts) \ gone)])
        /\ UNCHANGED <<fds, zombie>>

(* read(2) that finds an error returns it and flushes.                     *)
ReadError(f) ==
    /\ ~oops /\ f \in fds /\ error[f]
    /\ error' = [error EXCEPT ![f] = FALSE]
    /\ UNCHANGED <<filter, feed, dmxfilter, timer, adapter, fds, zombie, refused, oops>>

---------------------------------------------------------------------------
(* What happens in interrupt context                                       *)

(* The demux calls dvb_dmxdev_section_callback for a section filter of a   *)
(* running feed; the write may overflow.  With an error pending, or in any *)
(* state but GO, the section is dropped.                                   *)
SectionCallback(j, overflow) ==
    LET f == dmxfilter[j].priv
    IN  /\ ~oops
        /\ \E i \in Feeds : feed[i].state = "go" /\ feed[i].type = "sec" /\ j \in feed[i].filters
        /\ ~error[f] /\ filter[f].state = GO
        /\ timer' = [timer EXCEPT ![f].pending = FALSE]
        /\ error' = [error EXCEPT ![f] = overflow]
        /\ filter' = [filter EXCEPT ![f].state = IF filter[f].oneshot THEN DONE ELSE @]
        /\ UNCHANGED <<feed, dmxfilter, adapter, fds, zombie, refused, oops>>

(* The timer expires: dvb_dmxdev_filter_timeout sets the error without the *)
(* lock ...                                                                *)
TimerExpires(f) ==
    /\ ~oops
    /\ timer[f].pending /\ ~timer[f].running
    /\ timer' = [timer EXCEPT ![f] = [pending |-> FALSE, running |-> TRUE]]
    /\ error' = [error EXCEPT ![f] = TRUE]
    /\ UNCHANGED <<filter, feed, dmxfilter, adapter, fds, zombie, refused, oops>>

(* ... and, with the lock, the state, whatever it is by now: del_timer     *)
(* does not wait for a handler that is running.                            *)
TimerMarks(f) ==
    /\ ~oops
    /\ timer[f].running
    /\ timer' = [timer EXCEPT ![f].running = FALSE]
    /\ filter' = [filter EXCEPT ![f].state = TIMEDOUT]
    /\ zombie' = (zombie \/ filter[f].state < GO)
    /\ UNCHANGED <<feed, dmxfilter, error, adapter, fds, refused, oops>>

---------------------------------------------------------------------------
Ioctl(f) ==
    \/ Close(f) \/ Start(f) \/ Stop(f) \/ ReadError(f) \/ SetPesFilterInvalid(f)
    \/ \E pid \in Pids, flags \in SecFlags, immediate \in BOOLEAN :
           SetFilter(f, pid, flags[1], flags[2], immediate)
    \/ \E pid \in Pids, multi \in PesOutputs, immediate \in BOOLEAN :
           SetPesFilter(f, pid, multi, immediate)
    \/ \E pid \in Pids : AddPid(f, pid) \/ RemovePid(f, pid)

Next ==
    \/ Open
    \/ \E f \in Filters : Ioctl(f) \/ TimerExpires(f) \/ TimerMarks(f)
    \/ \E j \in DmxFilters, overflow \in BOOLEAN : SectionCallback(j, overflow)

Spec == Init /\ [][Next]_vars

---------------------------------------------------------------------------
(* Properties                                                              *)

Running(f) == filter[f].state >= GO

(* As long as no late handler has revived a stopped filter and no TS feed  *)
(* was refused.                                                            *)
Sound == ~zombie /\ ~refused

(* The records keep their types, the counter of the bridge its range.      *)
TypeOK ==
    /\ \A f \in Filters :
         /\ filter[f].state \in FREE .. TIMEDOUT
         /\ filter[f].type \in {"none", "sec", "pes"}
         /\ filter[f].pid \in Pids \cup {NoPid}
         /\ filter[f].sec \in Feeds \cup {NULL}
         /\ filter[f].secfilter \in DmxFilters \cup {NULL}
         /\ Len(filter[f].ts) <= MaxPids
         /\ \A k \in 1 .. Len(filter[f].ts) : filter[f].ts[k].ts \in Feeds \cup {NULL}
    /\ \A i \in Feeds :
         /\ feed[i].state \in {"free", "allocated", "ready", "go"}
         /\ feed[i].filters \subseteq DmxFilters
    /\ Sound => adapter.feeds \in 0 .. FeedNum
    /\ fds \subseteq Filters

(* A started section filter really receives: its feed runs, on its PID,    *)
(* and has its section filter, whatever the filters that share the feed    *)
(* did (dvb_dmxdev_feed_stop stops the feed of all of them).  It is the    *)
(* only section feed of that PID.                                          *)
ActiveHasFeed ==
    Sound => \A f \in Filters : Running(f) /\ filter[f].type = "sec" =>
        LET i == filter[f].sec
            j == filter[f].secfilter
        IN  /\ i # NULL /\ j # NULL
            /\ feed[i].state = "go" /\ feed[i].type = "sec" /\ feed[i].pid = filter[f].pid
            /\ j \in feed[i].filters
            /\ dmxfilter[j].priv = f /\ ~dmxfilter[j].free
            /\ \A other \in Feeds \ {i} :
                 feed[other].state # "free" /\ feed[other].type = "sec" => feed[other].pid # feed[i].pid

(* Nothing is left behind: a feed or section filter of the demux that is   *)
(* in use belongs to a filter that is started, so no callback can arrive   *)
(* for a stopped or closed one and the pools never run dry.                *)
NoOrphan ==
    Sound =>
      /\ \A i \in Feeds : feed[i].state # "free" =>
           \E f \in Filters :
             /\ Running(f)
             /\ \/ filter[f].type = "sec" /\ filter[f].sec = i
                \/ filter[f].type = "pes" /\ \E k \in 1 .. Len(filter[f].ts) : filter[f].ts[k].ts = i
      /\ \A j \in DmxFilters : ~dmxfilter[j].free => feed[dmxfilter[j].feed].state # "free"

(* The bridge's DMA runs exactly while some feed of the demux does, and    *)
(* its counter is the number of those feeds, through every stop and        *)
(* restart of a shared feed.                                               *)
DmaFollowsFeeds ==
    Sound =>
      /\ adapter.feeds = Cardinality({i \in Feeds : feed[i].state = "go"})
      /\ adapter.dma <=> adapter.feeds > 0

(* No feed is started or stopped through a pointer that leads to none: the *)
(* records keep their types, and NULL is never dereferenced.               *)
NoOops == TypeOK /\ (Sound => ~oops)
===========================================================================
