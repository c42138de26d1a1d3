----------------------------- MODULE CloudReader -----------------------------
(***************************************************************************)
(* A .crom read over HTTP ranges (internal/remote/cloud.go): pages of the  *)
(* file in an LRU cache, one download per page shared by the goroutines    *)
(* that want it, and pages fetched ahead of the reads.                     *)
(*                                                                         *)
(* The unit is a cell, a few bytes; the content of cell i of the file is   *)
(* the number i, so a wrong byte and a missing one can be told from the    *)
(* right one.  The server answers a range as asked, fails, breaks the body *)
(* off, or sends the whole file with status 200.                           *)
(***************************************************************************)
EXTENDS Integers, Sequences, FiniteSets

CONSTANTS
    Readers,        \* goroutines that call ReadAt
    Prefetchers,    \* goroutines that run prefetchPhantom
    PageSize,       \* cells in a page
    MaxPages,       \* pages the cache holds
    PrefetchDepth,  \* pages fetched ahead of a read
    Cuts,           \* cells after which a body may break off
    MaxFaults,      \* bound: things that happen from outside, see faults
    None

Procs == Readers \cup Prefetchers

ASSUME CloudAssumption ==
    /\ Readers \cap Prefetchers = {} /\ None \notin Procs
    /\ {PageSize, MaxPages} \subseteq Nat \ {0}
    /\ {PrefetchDepth, MaxFaults} \cup Cuts \subseteq Nat

VARIABLES
    size,     \* cells of the file, by Content-Length
    pages,    \* the LRU cache of [page, data], last used first
    flight,   \* inFlight: the goroutine that downloads a page, or None
    load,     \* where each goroutine is in loadPage
    call,     \* where each reader is in ReadAt
    ahead,    \* pages of prefetch goroutines that were started
    crashed,  \* a slice out of range ended the process
    faults    \* history: answers of server or disk that went wrong, and other events

cloud == <<size, pages, flight, load, call, ahead, crashed, faults>>

Cells(off, n) == [i \in 1..n |-> off + i - 1]
Lower(a, b) == IF a <= b THEN a ELSE b
PageNos == 0..((size - 1) \div PageSize)
PageLen(n) == Lower(PageSize, size - n * PageSize)

Idle == [pc |-> "idle", page |-> 0, chan |-> None, pioneer |-> FALSE, data |-> << >>]
NoCall == [pc |-> "idle", off |-> 0, len |-> 0, buf |-> << >>]
-----------------------------------------------------------------------------
(* The LRU cache of golang-lru, as loadPage uses it. *)

Drop(s, i) == SubSeq(s, 1, i - 1) \o SubSeq(s, i + 1, Len(s))
Cached(n) == \E i \in DOMAIN pages : pages[i].page = n
PageOf(n) == CHOOSE i \in DOMAIN pages : pages[i].page = n
Without(n) == IF Cached(n) THEN Drop(pages, PageOf(n)) ELSE pages
Touch(n) == <<pages[PageOf(n)]>> \o Without(n)

\* A cache that evicts one page too late.
CacheAddLate(n, data) ==
    LET all == <<[page |-> n, data |-> data]>> \o Without(n)
    IN  SubSeq(all, 1, Lower(MaxPages + 1, Len(all)))

CacheAdd(n, data) ==
    LET all == <<[page |-> n, data |-> data]>> \o Without(n)
    IN  SubSeq(all, 1, Lower(MaxPages, Len(all)))
-----------------------------------------------------------------------------
(* loadPage, by a reader or by a prefetch. *)

Loading(n) == [Idle EXCEPT !.pc = "get", !.page = n]

\* The return of loadPage; prefetchPhantom drops the result and ends.
Leave(p, data) ==
    IF p \in Prefetchers THEN Idle ELSE [load[p] EXCEPT !.pc = "ret", !.data = data]

\* cache.Get: a hit returns at once.
CacheGet(p) ==
    /\ load[p].pc = "get"
    /\ LET n == load[p].page
       IN  IF Cached(n)
             THEN /\ load' = [load EXCEPT ![p] = Leave(p, pages[PageOf(n)].data)]
                  /\ pages' = Touch(n)
             ELSE /\ load' = [load EXCEPT ![p].pc = "join"]
                  /\ UNCHANGED pages
    /\ UNCHANGED <<size, flight, call, ahead, crashed, faults>>

\* A late comer that forgets to look who else is downloading.
JoinAlone(p) ==
    /\ load[p].pc = "join"
    /\ flight' = [flight EXCEPT ![load[p].page] = p]
    /\ load' = [load EXCEPT ![p].pc = "fetch", ![p].pioneer = TRUE]
    /\ UNCHANGED <<size, pages, call, ahead, crashed, faults>>

\* inFlight.LoadOrStore: the first one downloads, the others wait for its channel.
Join(p) ==
    /\ load[p].pc = "join"
    /\ LET n == load[p].page
       IN  \/ /\ flight[n] = None
              /\ flight' = [flight EXCEPT ![n] = p]
              /\ load' = [load EXCEPT ![p].pc = "fetch", ![p].pioneer = TRUE]
           \/ /\ flight[n] # None
              /\ load' = [load EXCEPT ![p].pc = "wait", ![p].chan = flight[n]]
              /\ UNCHANGED flight
    /\ UNCHANGED <<size, pages, call, ahead, crashed, faults>>

\* The channel is closed: the page is in the cache, or the waiter fetches it itself.
Recheck(p) ==
    /\ load[p].pc = "wait" /\ load[p].chan = None
    /\ LET n == load[p].page
       IN  IF Cached(n)
             THEN /\ load' = [load EXCEPT ![p] = Leave(p, pages[PageOf(n)].data)]
                  /\ pages' = Touch(n)
             ELSE /\ load' = [load EXCEPT ![p].pc = "fetch"]
                  /\ UNCHANGED pages
    /\ UNCHANGED <<size, flight, call, ahead, crashed, faults>>

\* The goroutine's own channel is closed when it returns; a waiter has none.
AfterFetch(p, data) ==
    IF load[p].pioneer THEN [load[p] EXCEPT !.pc = "close", !.data = data] ELSE Leave(p, data)

\* The body that was read goes to the cache, a truncated one too (io.ErrUnexpectedEOF).
Received(p, data) ==
    /\ pages' = CacheAdd(load[p].page, data)
    /\ load' = [load EXCEPT ![p] = AfterFetch(p, data)]

Fetch(p) ==
    /\ load[p].pc = "fetch"
    /\ Received(p, Cells(load[p].page * PageSize, PageLen(load[p].page)))
    /\ UNCHANGED <<size, flight, call, ahead, crashed, faults>>

FetchTruncated(p) ==
    /\ load[p].pc = "fetch" /\ Len(faults) < MaxFaults
    /\ \E k \in {c \in Cuts : c < PageLen(load[p].page)} :
         Received(p, Cells(load[p].page * PageSize, k))
    /\ faults' = Append(faults, "truncated")
    /\ UNCHANGED <<size, flight, call, ahead, crashed>>

\* Status 200: the server ignores the range.
FetchWhole(p) ==
    /\ load[p].pc = "fetch" /\ Len(faults) < MaxFaults
    /\ Received(p, Cells(0, size))
    /\ faults' = Append(faults, "whole")
    /\ UNCHANGED <<size, flight, call, ahead, crashed>>

\* No connection, the client's timeout, or another status.
FetchFails(p) ==
    /\ load[p].pc = "fetch" /\ Len(faults) < MaxFaults
    /\ load' = [load EXCEPT ![p] = AfterFetch(p, None)]
    /\ faults' = Append(faults, "error")
    /\ UNCHANGED <<size, pages, flight, call, ahead, crashed>>

\* The deferred Delete and close: an error path that returns without them.
CloseOnlyAfterSuccess(p) ==
    /\ load[p].pc = "close"
    /\ load' = [q \in Procs |->
                  IF q = p THEN Leave(p, load[p].data)
                  ELSE IF load[q].chan = p /\ load[p].data # None
                         THEN [load[q] EXCEPT !.chan = None] ELSE load[q]]
    /\ flight' = [flight EXCEPT ![load[p].page] = IF load[p].data # None THEN None ELSE @]
    /\ UNCHANGED <<size, pages, call, ahead, crashed, faults>>

Close(p) ==
    /\ load[p].pc = "close"
    /\ load' = [q \in Procs |->
                  IF q = p THEN Leave(p, load[p].data)
                  ELSE IF load[q].chan = p THEN [load[q] EXCEPT !.chan = None] ELSE load[q]]
    /\ flight' = [flight EXCEPT ![load[p].page] = None]
    /\ UNCHANGED <<size, pages, call, ahead, crashed, faults>>

LoadStep(p) ==
    \/ CacheGet(p) \/ Join(p) \/ Recheck(p) \/ Close(p)
    \/ Fetch(p) \/ FetchTruncated(p) \/ FetchWhole(p) \/ FetchFails(p)
-----------------------------------------------------------------------------
(* ReadAt: page after page, then the prefetch. *)

\* bytesToRead: not past the end of the file.
Readable(off, n) == IF off >= size THEN 0 ELSE Lower(n, size - off)
ToRead(c) == Readable(c.off, c.len)
EndPage(c) == (c.off + ToRead(c) - 1) \div PageSize

\* A call of a reader for n cells.  At the end of the file (io.EOF, which the callers
\* ignore), or for no cells, it returns at once.
StartReadAt(r, off, n) ==
    \/ /\ Readable(off, n) = 0
       /\ call' = [call EXCEPT ![r] = [pc |-> "ret", off |-> off, len |-> n, buf |-> << >>]]
       /\ UNCHANGED load
    \/ /\ Readable(off, n) > 0
       /\ call' = [call EXCEPT ![r] = [pc |-> "page", off |-> off, len |-> n, buf |-> << >>]]
       /\ load' = [load EXCEPT ![r] = Loading(off \div PageSize)]

Prefetch(c) ==
    ahead' = ahead \cup {n \in PageNos : n > EndPage(c) /\ n <= EndPage(c) + PrefetchDepth}

Finish(r, buf) ==
    /\ call' = [call EXCEPT ![r].pc = "ret", ![r].buf = buf]
    /\ load' = [load EXCEPT ![r] = Idle]
    /\ Prefetch(call[r])

\* The part of a page that is copied: from copyStart, as much as is still wanted.
\* A page is trusted to hold what was asked for; a faulty variant takes the place in
\* the file for the place in the page.
CopyStartInFile(c, n) == c.off + Len(c.buf)
CopyStart(c, n) == LET s == c.off + Len(c.buf) - n * PageSize IN IF s < 0 THEN 0 ELSE s
CopyLen(c, n, data) == Lower(Len(data) - CopyStart(c, n), ToRead(c) - Len(c.buf))

\* The page after which ReadAt returns: nothing is wanted any more, or no more is there.
Last(c, n, data, buf) == Len(buf) = ToRead(c) \/ Len(data) < PageSize \/ n = EndPage(c)

\* A page has been loaded.
TakePage(r) ==
    /\ call[r].pc = "page" /\ load[r].pc = "ret"
    /\ \E c \in {call[r]}, n \in {load[r].page}, data \in {load[r].data} :
           \/ /\ data = None
              /\ call' = [call EXCEPT ![r].pc = "ret", ![r].buf = None]
              /\ load' = [load EXCEPT ![r] = Idle]
              /\ UNCHANGED <<ahead, crashed>>
           \/ /\ data = << >>
              /\ Finish(r, c.buf)
              /\ UNCHANGED crashed
           \/ /\ data \notin {None, << >>} /\ CopyStart(c, n) > Len(data)
              /\ crashed' = TRUE
              /\ UNCHANGED <<call, load, ahead>>
           \/ /\ data \notin {None, << >>} /\ CopyStart(c, n) <= Len(data)
              /\ LET from == CopyStart(c, n)
                     buf == c.buf \o SubSeq(data, from + 1, from + CopyLen(c, n, data))
                 IN  \/ Last(c, n, data, buf) /\ Finish(r, buf)
                     \/ /\ ~Last(c, n, data, buf)
                        /\ call' = [call EXCEPT ![r].buf = buf]
                        /\ load' = [load EXCEPT ![r] = Loading(n + 1)]
                        /\ UNCHANGED ahead
              /\ UNCHANGED crashed
    /\ UNCHANGED <<size, pages, flight, faults>>
-----------------------------------------------------------------------------
(* prefetchPhantom. *)

StartPrefetch(p) ==
    /\ load[p].pc = "idle"
    /\ \E n \in ahead : /\ load' = [load EXCEPT ![p] = Loading(n)]
                        /\ ahead' = ahead \ {n}
    /\ UNCHANGED <<size, pages, flight, call, crashed, faults>>

CloudInit(s) ==
    /\ size = s
    /\ pages = << >> /\ flight = [n \in PageNos |-> None]
    /\ load = [p \in Procs |-> Idle] /\ call = [r \in Readers |-> NoCall]
    /\ ahead = {} /\ crashed = FALSE /\ faults = << >>

CloudStep(p) ==
    \/ LoadStep(p)
    \/ p \in Readers /\ TakePage(p)
    \/ p \in Prefetchers /\ StartPrefetch(p)
-----------------------------------------------------------------------------
(* Properties. *)

\* The types; the page cache keeps its limit.
CloudTypeOK ==
    /\ size \in Nat /\ ahead \subseteq PageNos /\ crashed \in BOOLEAN
    /\ Len(pages) <= MaxPages
    /\ \A i \in DOMAIN pages : pages[i].page \in PageNos /\ pages[i].data \in Seq(Nat)
    /\ flight \in [PageNos -> Procs \cup {None}]
    /\ \A p \in Procs : load[p].pc \in {"idle", "get", "join", "wait", "fetch", "close", "ret"}
    /\ \A r \in Readers : call[r].pc \in {"idle", "page", "disk", "ret"}

(***************************************************************************)
(* loadPage (cloud.go:170): of several goroutines that download one page   *)
(* at the same time, only one came first; the others have waited for an    *)
(* earlier download that did not leave the page in the cache.              *)
(***************************************************************************)
SingleFlight ==
    \A p, q \in Procs :
        /\ p # q /\ load[p].pc = "fetch" /\ load[q].pc = "fetch"
        /\ load[p].page = load[q].page
        => ~(load[p].pioneer /\ load[q].pioneer)

(***************************************************************************)
(* ReadAt (cloud.go:130) slices a page at the place where the read starts  *)
(* in it.  The process can only end there after a body that was broken off *)
(* was kept as a page; a failed download or a server that ignores ranges   *)
(* never leads to it.                                                      *)
(***************************************************************************)
CrashNeedsTruncatedPage ==
    crashed => \E i \in DOMAIN faults : faults[i] = "truncated"
=============================================================================
