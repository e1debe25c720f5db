---- MODULE MemoryHierarchyProofs ----
(***************************************************************************)
(* The memory hierarchy is one memory for the pipeline, for every size of  *)
(* the caches and of the memory, and every program that does not store to  *)
(* the lines it is fetched from.                                           *)
(*                                                                         *)
(* The invariant follows a line down: Coherent, that what may be dropped   *)
(* from a cache is what the level below has; Bursting, that the adaptor    *)
(* and the memory are at the same beat of a burst, which fills or writes   *)
(* back the line that the L2 cache asks for; and Arbitrated, that a cache  *)
(* the arbiter serves is still waiting.                                    *)
(*                                                                         *)
(* Left counts the cycles that both caches still need to answer, and every *)
(* cycle brings it down, whatever the arbiter does: that is the bound on   *)
(* the time for which the pipeline is stalled.                             *)
(*                                                                         *)
(* The proofs about Pipeline, on the other side of the caches, are at the  *)
(* end.                                                                    *)
(***************************************************************************)
EXTENDS MemoryHierarchy, Pipeline, TLAPS

C1 == INSTANCE CacheProofs WITH NumSets <- L1_SETS
C2 == INSTANCE CacheProofs WITH NumSets <- L2_SETS

LineWords == [Beats -> Words]
LineData == [Beats -> Words \cup {Junk}]

\* What the registers besides the caches hold.
RegistersOK ==
    /\ core \in Requests
    /\ arb \in {"idle", "conflict", "ic_access", "dc_access", "prefetch"}
    /\ prefetch_address \in Lines
    /\ cad \in [state : {"idle", "reset", "readDone", "writeDone"}
                           \cup {Reading[n] : n \in Beats} \cup {Writing[n] : n \in Beats},
                line_o : LineData]
    /\ memory \in [Lines -> LineWords]
    /\ burst \in [busy : BOOLEAN, beat : 0 .. 4]

\* The caches, each with the requests that can come from above.
CachesOK ==
    /\ C1!CacheInv(icache, core.fetch, CodeLines, {})
    /\ C1!CacheInv(dcache, core.data, DataLines, StoreLines)
    /\ C2!CacheInv(l2, ToL2, Lines, Lines)

\* The arbiter serves a cache that waits, and the L2 cache works for it only.
Arbitrated ==
    /\ l2.state # "rw" => arb # "idle"
    /\ arb \in {"ic_access", "conflict"} => icache.state # "rw"
    /\ arb \in {"dc_access", "conflict"} => dcache.state # "rw"

\* The adaptor and the memory are at the same beat, of a burst for the L2 cache.
Bursting ==
    /\ cad.state \in {"idle", "reset", "readDone", "writeDone"} =>
          ~burst.busy /\ burst.beat = 0
    /\ \A n \in Beats : cad.state \in {Reading[n], Writing[n]} =>
          burst.busy /\ (burst.beat = n \/ (n = 1 /\ burst.beat = 0))
    /\ \A n \in Beats : cad.state = Reading[n] => l2.state = "pmem"
    /\ \A n \in Beats : cad.state = Writing[n] => l2.state = "write_back"
    /\ cad.state = "readDone" => l2.state = "pmem"
    /\ cad.state = "writeDone" => l2.state = "write_back"

\* The beats that are done.
Transferred ==
    /\ \A n \in Beats : cad.state = Reading[n] =>
          \A b \in 1 .. n - 1 : cad.line_o[b] = memory[address_o][b]
    /\ cad.state = "readDone" => cad.line_o = memory[address_o]
    /\ \A n \in Beats : cad.state = Writing[n] =>
          \A b \in 1 .. n - 1 : memory[address_o][b] = ToCad.wdata[b]
    /\ cad.state = "writeDone" => memory[address_o] = ToCad.wdata

\* A line as the memory and the L2 cache have it.
FromL2(line) ==
    IF C2!Has(l2, ToL2, line) THEN C2!Copy(l2, ToL2, line) ELSE memory[line]

\* What a cache may drop is what the level below has.
Coherent ==
    \A line \in Lines :
        /\ C2!HasClean(l2, ToL2, line) => C2!Copy(l2, ToL2, line) = memory[line]
        /\ C1!HasClean(dcache, core.data, line) =>
              C1!Copy(dcache, core.data, line) = FromL2(line)
        /\ C1!HasClean(icache, core.fetch, line) =>
              C1!Copy(icache, core.fetch, line) = FromL2(line)

\* Nothing but words is in the caches that are written back.
NoJunk ==
    \A line \in Lines :
        /\ C2!Has(l2, ToL2, line) => C2!Copy(l2, ToL2, line) \in LineWords
        /\ C1!Has(dcache, core.data, line) => C1!Copy(dcache, core.data, line) \in LineWords

IInv ==
    RegistersOK /\ CachesOK /\ Arbitrated /\ Bursting /\ Transferred /\ Coherent /\ NoJunk

---------------------------------------------------------------------------
LEMMA TheSizes ==
    /\ C1!Sizes /\ C2!Sizes /\ C2!AreLines(Lines)
    /\ C1!AreLines(CodeLines) /\ C1!AreLines(DataLines)
    /\ CodeLines \subseteq Lines /\ DataLines \subseteq Lines
    /\ StoreLines \subseteq DataLines /\ StoreLines \cap CodeLines = {}
    /\ 0 \in Lines /\ NumLines \in Nat \ {0}
BY ProgramAssumption DEF C1!Sizes, C2!Sizes, C1!AreLines, C2!AreLines, Lines

\* The caches of the specification are those that CacheProofs is about.
LEMMA SameL1 ==
    /\ \A c, q : /\ C1!Resp(c, q) <=> L1!Resp(c, q)
                 /\ C1!Asks(q) <=> L1!Asks(q)
                 /\ C1!RData(c, q) = L1!RData(c, q)
                 /\ C1!Below(c, q) = L1!Below(c, q)
    /\ \A c, q, l : /\ C1!Holds(c, q, l) = L1!Holds(c, q, l)
                    /\ C1!HoldsClean(c, q, l) = L1!HoldsClean(c, q, l)
    /\ \A c, l, w : C1!Data(c, l, w) = L1!Data(c, l, w)
    /\ \A c : /\ C1!IsCache(c) <=> L1!IsCache(c)
              /\ C1!InvalidWayNext(c) <=> L1!InvalidWayNext(c)
    /\ \A c, q, resp, line : C1!Clocked(c, q, resp, line) = L1!Clocked(c, q, resp, line)
    /\ C1!Reset = L1!Reset
<1> USE DEF C1!Ways, L1!Ways, C1!Sets, L1!Sets, C1!Index, L1!Index, C1!Tag, L1!Tag,
            C1!Asks, L1!Asks, C1!Hits, L1!Hits, C1!HitWay, L1!HitWay, C1!Victim,
            L1!Victim
<1>1. \A c, q : C1!Below(c, q) = L1!Below(c, q)
  BY DEF C1!Below, L1!Below
<1>2. \A c, q : C1!RData(c, q) = L1!RData(c, q)
  BY DEF C1!RData, L1!RData, C1!Resp, L1!Resp
<1>3. \A c, q : C1!Resp(c, q) <=> L1!Resp(c, q)
  BY DEF C1!Resp, L1!Resp
<1>4. \A c, q : C1!Asks(q) <=> L1!Asks(q)
  OBVIOUS
<1>5. \A c, q, resp, line : C1!Clocked(c, q, resp, line) = L1!Clocked(c, q, resp, line)
  BY DEF C1!Clocked, L1!Clocked, C1!RwNext, L1!RwNext, C1!HitNext, L1!HitNext,
         C1!MissState, L1!MissState, C1!WriteBackNext, L1!WriteBackNext, C1!PmemNext,
         L1!PmemNext
<1>6. \A c, q, l : C1!Holds(c, q, l) = L1!Holds(c, q, l)
  BY DEF C1!Holds, L1!Holds
<1>7. \A c, q, l : C1!HoldsClean(c, q, l) = L1!HoldsClean(c, q, l)
  BY DEF C1!HoldsClean, L1!HoldsClean, C1!Holds, L1!Holds
<1>8. \A c, l, w : C1!Data(c, l, w) = L1!Data(c, l, w)
  BY DEF C1!Data, L1!Data
<1>9. \A c : C1!IsCache(c) <=> L1!IsCache(c)
  BY DEF C1!IsCache, L1!IsCache, C1!LineData, L1!LineData
<1>10. \A c : C1!InvalidWayNext(c) <=> L1!InvalidWayNext(c)
  BY DEF C1!InvalidWayNext, L1!InvalidWayNext
<1>11. C1!Reset = L1!Reset
  BY DEF C1!Reset, L1!Reset, C1!EmptyWay, L1!EmptyWay
<1> QED BY <1>1, <1>2, <1>3, <1>4, <1>5, <1>6, <1>7, <1>8, <1>9, <1>10, <1>11

LEMMA SameL2 ==
    /\ \A c, q : /\ C2!Resp(c, q) <=> L2!Resp(c, q)
                 /\ C2!Asks(q) <=> L2!Asks(q)
                 /\ C2!RData(c, q) = L2!RData(c, q)
                 /\ C2!Below(c, q) = L2!Below(c, q)
    /\ \A c, q, l : /\ C2!Holds(c, q, l) = L2!Holds(c, q, l)
                    /\ C2!HoldsClean(c, q, l) = L2!HoldsClean(c, q, l)
    /\ \A c, l, w : C2!Data(c, l, w) = L2!Data(c, l, w)
    /\ \A c : /\ C2!IsCache(c) <=> L2!IsCache(c)
              /\ C2!InvalidWayNext(c) <=> L2!InvalidWayNext(c)
    /\ \A c, q, resp, line : C2!Clocked(c, q, resp, line) = L2!Clocked(c, q, resp, line)
    /\ C2!Reset = L2!Reset
<1> USE DEF C2!Ways, L2!Ways, C2!Sets, L2!Sets, C2!Index, L2!Index, C2!Tag, L2!Tag,
            C2!Asks, L2!Asks, C2!Hits, L2!Hits, C2!HitWay, L2!HitWay, C2!Victim,
            L2!Victim
<1>1. \A c, q : C2!Below(c, q) = L2!Below(c, q)
  BY DEF C2!Below, L2!Below
<1>2. \A c, q : C2!RData(c, q) = L2!RData(c, q)
  BY DEF C2!RData, L2!RData, C2!Resp, L2!Resp
<1>3. \A c, q : C2!Resp(c, q) <=> L2!Resp(c, q)
  BY DEF C2!Resp, L2!Resp
<1>4. \A c, q : C2!Asks(q) <=> L2!Asks(q)
  OBVIOUS
<1>5. \A c, q, resp, line : C2!Clocked(c, q, resp, line) = L2!Clocked(c, q, resp, line)
  BY DEF C2!Clocked, L2!Clocked, C2!RwNext, L2!RwNext, C2!HitNext, L2!HitNext,
         C2!MissState, L2!MissState, C2!WriteBackNext, L2!WriteBackNext, C2!PmemNext,
         L2!PmemNext
<1>6. \A c, q, l : C2!Holds(c, q, l) = L2!Holds(c, q, l)
  BY DEF C2!Holds, L2!Holds
<1>7. \A c, q, l : C2!HoldsClean(c, q, l) = L2!HoldsClean(c, q, l)
  BY DEF C2!HoldsClean, L2!HoldsClean, C2!Holds, L2!Holds
<1>8. \A c, l, w : C2!Data(c, l, w) = L2!Data(c, l, w)
  BY DEF C2!Data, L2!Data
<1>9. \A c : C2!IsCache(c) <=> L2!IsCache(c)
  BY DEF C2!IsCache, L2!IsCache, C2!LineData, L2!LineData
<1>10. \A c : C2!InvalidWayNext(c) <=> L2!InvalidWayNext(c)
  BY DEF C2!InvalidWayNext, L2!InvalidWayNext
<1>11. C2!Reset = L2!Reset
  BY DEF C2!Reset, L2!Reset, C2!EmptyWay, L2!EmptyWay
<1> QED BY <1>1, <1>2, <1>3, <1>4, <1>5, <1>6, <1>7, <1>8, <1>9, <1>10, <1>11

---------------------------------------------------------------------------
\* The requests on the wires.
LEMMA CoreRequests ==
    ASSUME core \in Requests
    PROVE  /\ C1!IsRequest(core.fetch, CodeLines, {})
           /\ C1!IsRequest(core.data, DataLines, StoreLines)
           /\ core.fetch.read /\ ~core.fetch.write
           /\ core.fetch.line \in CodeLines
           /\ core.data.write => core.data.wdata \in LineWords
<1>1. core.fetch \in Fetches /\ core.data \in Accesses
  BY DEF Requests
<1>2. JunkLine \in LineData
  BY DEF JunkLine, LineData
<1>3. /\ C1!IsRequest(core.fetch, CodeLines, {}) /\ core.fetch.read /\ ~core.fetch.write
      /\ core.fetch.line \in CodeLines
  <2>1. PICK line \in CodeLines : core.fetch = Read(line)
    BY <1>1 DEF Fetches
  <2>2. core.fetch = [read |-> TRUE, write |-> FALSE, line |-> line, mbe |-> {},
                      wdata |-> JunkLine]
    BY <2>1 DEF Read, NoAccess
  <2>3. line \in 0 .. NumLines - 1
    BY <2>1, TheSizes DEF Lines
  <2> QED BY <1>2, <2>1, <2>2, <2>3 DEF C1!IsRequest, C1!LineData, LineData, C1!Asks
<1>4. CASE core.data = NoAccess
  <2>1. 0 \in 0 .. NumLines - 1
    BY TheSizes DEF Lines
  <2> QED BY <1>2, <1>3, <1>4, <2>1 DEF NoAccess, C1!IsRequest, C1!LineData, LineData, C1!Asks
<1>5. ASSUME NEW line \in DataLines, core.data = Read(line)
      PROVE  C1!IsRequest(core.data, DataLines, StoreLines) /\ ~core.data.write
  <2>1. core.data = [read |-> TRUE, write |-> FALSE, line |-> line, mbe |-> {},
                      wdata |-> JunkLine]
    BY <1>5 DEF Read, NoAccess
  <2>2. line \in 0 .. NumLines - 1
    BY TheSizes DEF Lines
  <2> QED BY <1>2, <2>1, <2>2 DEF C1!IsRequest, C1!LineData, LineData, C1!Asks
<1>6. ASSUME NEW line \in StoreLines, NEW beat \in StoreBeats, NEW v \in Vals,
             core.data = Write(line, beat, v)
      PROVE  C1!IsRequest(core.data, DataLines, StoreLines) /\ core.data.wdata \in LineWords
  <2> DEFINE wdata == [b \in Beats |-> <<line, b, v>>]
  <2>1. core.data = [read |-> FALSE, write |-> TRUE, line |-> line, mbe |-> {beat},
                     wdata |-> wdata]
    BY <1>6 DEF Write, NoAccess
  <2>2. line \in 0 .. NumLines - 1 /\ line \in DataLines /\ beat \in Beats
    BY TheSizes, ProgramAssumption DEF Lines, Beats
  <2>3. \A b \in Beats : <<line, b, v>> \in Words
    BY <2>2 DEF Words, Lines
  <2>4. wdata \in LineWords /\ wdata \in LineData
    BY <2>3 DEF LineWords, LineData
  <2> HIDE DEF wdata
  <2> QED BY <2>1, <2>2, <2>4 DEF C1!IsRequest, C1!LineData, LineData, C1!Asks
<1>7. \/ core.data = NoAccess
      \/ \E line \in DataLines : core.data = Read(line)
      \/ \E line \in StoreLines, beat \in StoreBeats, v \in Vals :
            core.data = Write(line, beat, v)
  BY <1>1 DEF Accesses
<1>8. core.data = NoAccess => C1!IsRequest(core.data, DataLines, StoreLines) /\ ~core.data.write
  BY <1>4 DEF NoAccess
<1> QED BY <1>3, <1>5, <1>6, <1>7, <1>8

LEMMA BelowWires ==
    ASSUME RegistersOK, CachesOK
    PROVE  /\ ICacheAsks = C1!Below(icache, core.fetch)
           /\ DCacheAsks = C1!Below(dcache, core.data)
           /\ \A q \in {ICacheAsks, DCacheAsks} :
                 q \in [read : BOOLEAN, write : BOOLEAN, line : Lines, mbe : SUBSET Beats,
                        wdata : LineData]
           /\ C2!IsRequest(ToL2, Lines, Lines)
           /\ L2!Resp(l2, ToL2) \in BOOLEAN
           /\ L2!RData(l2, ToL2) \in LineData
<1>1. /\ ICacheAsks = C1!Below(icache, core.fetch)
      /\ DCacheAsks = C1!Below(dcache, core.data)
  BY SameL1 DEF ICacheAsks, DCacheAsks
<1> DEFINE Request == [read : BOOLEAN, write : BOOLEAN, line : Lines, mbe : SUBSET Beats,
                       wdata : LineData]
<1>2. ICacheAsks \in Request
  BY <1>1, TheSizes, CoreRequests, C1!WiresTyped DEF RegistersOK, CachesOK, Lines, LineData,
     C1!LineData
<1>3. DCacheAsks \in Request
  BY <1>1, TheSizes, CoreRequests, C1!WiresTyped DEF RegistersOK, CachesOK, Lines, LineData,
     C1!LineData
<1>4. ToL2 \in Request
  BY <1>2, <1>3 DEF ToL2, RegistersOK
<1>5. C2!IsRequest(ToL2, Lines, Lines)
  BY <1>4 DEF C2!IsRequest, C2!LineData, LineData, Lines
<1>6. C2!Resp(l2, ToL2) \in BOOLEAN /\ C2!RData(l2, ToL2) \in LineData
  BY <1>5, TheSizes, C2!WiresTyped DEF CachesOK, C2!LineData, LineData
<1>7. L2!RData(l2, ToL2) = C2!RData(l2, ToL2)
  BY SameL2
<1>8. L2!Resp(l2, ToL2) \in BOOLEAN
  BY DEF L2!Resp
<1> QED BY <1>1, <1>2, <1>3, <1>5, <1>6, <1>7, <1>8

---------------------------------------------------------------------------
(* A cycle, seen from each cache *)

LEMMA CacheSteps ==
    ASSUME RegistersOK, CachesOK, NEW answers, Cycle(answers)
    PROVE  /\ icache' = C1!Clocked(icache, core.fetch, arb_iresp(ToL2), arb_irdata(ToL2))
           /\ dcache' = C1!Clocked(dcache, core.data, arb_dresp(ToL2), arb_drdata(ToL2))
           /\ l2' = C2!Clocked(l2, ToL2, cad_resp, cad.line_o)
           /\ arb_iresp(ToL2) \in BOOLEAN /\ arb_irdata(ToL2) \in C1!LineData
           /\ arb_dresp(ToL2) \in BOOLEAN /\ arb_drdata(ToL2) \in C1!LineData
           /\ cad_resp \in BOOLEAN /\ cad.line_o \in C2!LineData
           /\ core' \in Requests
<1>1. JunkLine \in LineData /\ L2!RData(l2, ToL2) \in LineData
  BY BelowWires DEF JunkLine, LineData
<1>2. arb_irdata(ToL2) \in C1!LineData /\ arb_drdata(ToL2) \in C1!LineData
  BY <1>1 DEF arb_irdata, arb_drdata, C1!LineData, LineData
<1>3. arb_iresp(ToL2) \in BOOLEAN /\ arb_dresp(ToL2) \in BOOLEAN /\ cad_resp \in BOOLEAN
  BY DEF arb_iresp, arb_dresp, cad_resp
<1>4. cad.line_o \in C2!LineData
  BY DEF RegistersOK, C2!LineData, LineData
<1>5. /\ icache' = C1!Clocked(icache, core.fetch, arb_iresp(ToL2), arb_irdata(ToL2))
      /\ dcache' = C1!Clocked(dcache, core.data, arb_dresp(ToL2), arb_drdata(ToL2))
      /\ l2' = C2!Clocked(l2, ToL2, cad_resp, cad.line_o)
  BY SameL1, SameL2 DEF Cycle
<1>6. core' \in Requests
  BY DEF Cycle, RegistersOK
<1> QED BY <1>2, <1>3, <1>4, <1>5, <1>6

\* The requests hold until both are answered.
LEMMA SteadyRequests ==
    ASSUME RegistersOK, CachesOK, NEW answers, Cycle(answers),
           icache'.state # "rw" \/ dcache'.state # "rw"
    PROVE  core' = core
<1>1. SUFFICES ASSUME ~Stall PROVE FALSE
  BY DEF Cycle
<1>2. C1!Resp(icache, core.fetch)
  BY <1>1, SameL1 DEF Stall
<1>3. C1!Resp(dcache, core.data) \/ ~C1!Asks(core.data)
  BY <1>1, SameL1 DEF Stall
<1>4. icache'.state = "rw"
  BY <1>2, TheSizes, CoreRequests, CacheSteps, C1!StaysReady DEF RegistersOK, CachesOK
<1>5. dcache'.state = "rw"
  BY <1>3, TheSizes, CoreRequests, CacheSteps, C1!StaysReady DEF RegistersOK, CachesOK
<1> QED BY <1>4, <1>5

\* Nothing is fetched through a write-back.
LEMMA ICacheReads ==
    ASSUME CachesOK
    PROVE  icache.state \in {"rw", "pmem"}
BY DEF CachesOK, C1!CacheInv, C1!IsCache, C1!MissOK

\* A cache that waits and is not answered repeats its request.
LEMMA SteadyICache ==
    ASSUME RegistersOK, CachesOK, NEW answers, Cycle(answers), icache.state # "rw",
           ~arb_iresp(ToL2)
    PROVE  /\ icache'.state = "pmem" /\ icache.state = "pmem"
           /\ ICacheAsks'.read /\ ICacheAsks.read
           /\ ~ICacheAsks'.write /\ ~ICacheAsks.write
           /\ ICacheAsks'.line = ICacheAsks.line
<1>1. icache.state = "pmem"
  BY ICacheReads
<1>2. icache'.state = "pmem"
  BY <1>1, TheSizes, CoreRequests, CacheSteps, C1!Waiting DEF RegistersOK, CachesOK
<1>3. core' = core
  BY <1>2, SteadyRequests
<1>4. /\ ICacheAsks = C1!Below(icache, core.fetch)
      /\ ICacheAsks' = C1!Below(icache', core.fetch)
  BY <1>3, SameL1 DEF ICacheAsks
<1> QED BY <1>1, <1>2, <1>4 DEF C1!Below

LEMMA SteadyDCache ==
    ASSUME RegistersOK, CachesOK, NEW answers, Cycle(answers), dcache.state # "rw",
           ~arb_dresp(ToL2)
    PROVE  /\ dcache'.state = dcache.state
           /\ DCacheAsks.read <=> dcache.state = "pmem"
           /\ DCacheAsks.write <=> dcache.state = "write_back"
           /\ DCacheAsks'.read <=> dcache.state = "pmem"
           /\ DCacheAsks'.write <=> dcache.state = "write_back"
           /\ DCacheAsks'.line = DCacheAsks.line
<1>1. /\ dcache'.state = dcache.state
      /\ C1!Below(dcache', core.data).line = C1!Below(dcache, core.data).line
  BY TheSizes, CoreRequests, CacheSteps, C1!Waiting DEF RegistersOK, CachesOK
<1>2. core' = core
  BY <1>1, SteadyRequests
<1>3. /\ DCacheAsks = C1!Below(dcache, core.data)
      /\ DCacheAsks' = C1!Below(dcache', core.data)
  BY <1>2, SameL1 DEF DCacheAsks
<1>4. /\ DCacheAsks'.line = DCacheAsks.line
  BY <1>1, <1>3
<1> QED BY <1>1, <1>3, <1>4 DEF C1!Below

\* The arbiter asks the L2 cache for a cache that waits, or to prefetch.
LEMMA ArbiterAsks ==
    ASSUME RegistersOK, CachesOK, Arbitrated
    PROVE  /\ C2!Asks(ToL2) <=> arb # "idle"
           /\ C2!Asks(ToL2) <=> L2!Asks(ToL2)
           /\ C2!Resp(l2, ToL2) <=> L2!Resp(l2, ToL2)
           /\ L2!Resp(l2, ToL2) => l2.state = "rw" /\ arb # "idle"
<1>1. C2!Asks(ToL2) <=> L2!Asks(ToL2)
  BY SameL2
<1>2. C2!Resp(l2, ToL2) <=> L2!Resp(l2, ToL2)
  BY SameL2
<1>3. icache.state # "rw" => ICacheAsks.read
  BY ICacheReads DEF ICacheAsks, L1!Below
<1>4. dcache.state # "rw" => DCacheAsks.read \/ DCacheAsks.write
  BY DEF DCacheAsks, L1!Below, CachesOK, C1!CacheInv, C1!IsCache
<1>5. C2!Asks(ToL2) <=> arb # "idle"
  BY <1>3, <1>4 DEF Arbitrated, ToL2, C2!Asks, RegistersOK
<1> QED BY <1>1, <1>2, <1>5 DEF C2!Resp

\* The L2 cache gets the same request until it has answered.
LEMMA RepeatedL2 ==
    ASSUME RegistersOK, CachesOK, Arbitrated, NEW answers, Cycle(answers),
           C2!Asks(ToL2), ~L2!Resp(l2, ToL2)
    PROVE  /\ arb' = arb /\ arb # "idle"
           /\ ToL2'.line = ToL2.line
           /\ C2!Asks(ToL2')
<1>1. C2!Asks(ToL2) /\ ~L2!Resp(l2, ToL2)
  OBVIOUS
<1>2. arb # "idle"
  BY <1>1, ArbiterAsks
<1>3. arb' = arb
  BY <1>1, <1>2 DEF Cycle, ArbNext, RegistersOK
<1>4. ~arb_iresp(ToL2) /\ ~arb_dresp(ToL2)
  BY <1>1 DEF arb_iresp, arb_dresp
<1>5. CASE arb \in {"conflict", "dc_access"}
  <2>1. dcache.state # "rw"
    BY <1>5 DEF Arbitrated
  <2>2. ToL2 = DCacheAsks /\ ToL2' = DCacheAsks'
    BY <1>3, <1>5 DEF ToL2
  <2>3. dcache.state \in {"rw", "write_back", "pmem"}
    BY DEF CachesOK, C1!CacheInv, C1!IsCache
  <2> QED BY <1>2, <1>3, <1>4, <2>1, <2>2, <2>3, SteadyDCache DEF C2!Asks
<1>6. CASE arb = "ic_access"
  <2>1. icache.state # "rw"
    BY <1>6 DEF Arbitrated
  <2>2. ToL2 = ICacheAsks /\ ToL2' = ICacheAsks'
    BY <1>3, <1>6 DEF ToL2
  <2> QED BY <1>2, <1>3, <1>4, <2>1, <2>2, SteadyICache DEF C2!Asks
<1>7. CASE arb = "prefetch"
  <2>1. prefetch_address' = prefetch_address
    BY <1>7 DEF Cycle, PrefetchNext
  <2>2. /\ ToL2 = [ICacheAsks EXCEPT !.read = TRUE, !.write = FALSE,
                                     !.line = prefetch_address]
        /\ ToL2' = [ICacheAsks' EXCEPT !.read = TRUE, !.write = FALSE,
                                       !.line = prefetch_address]
    BY <1>3, <1>7, <2>1 DEF ToL2
  <2>3. ICacheAsks = [read |-> ICacheAsks.read, write |-> ICacheAsks.write,
                      line |-> ICacheAsks.line, mbe |-> ICacheAsks.mbe,
                      wdata |-> ICacheAsks.wdata]
    BY DEF ICacheAsks, L1!Below
  <2>4. ICacheAsks' = [read |-> ICacheAsks'.read, write |-> ICacheAsks'.write,
                      line |-> ICacheAsks'.line, mbe |-> ICacheAsks'.mbe,
                      wdata |-> ICacheAsks'.wdata]
    BY DEF ICacheAsks, L1!Below
  <2>5. ToL2.line = prefetch_address /\ ToL2'.line = prefetch_address /\ ToL2'.read
    BY <2>2, <2>3, <2>4
  <2> QED BY <1>2, <1>3, <2>5 DEF C2!Asks
<1> QED BY <1>2, <1>5, <1>6, <1>7 DEF RegistersOK

LEMMA SteadyL2 ==
    ASSUME RegistersOK, CachesOK, Arbitrated, NEW answers, Cycle(answers),
           l2'.state # "rw"
    PROVE  /\ arb' = arb /\ arb # "idle"
           /\ ToL2'.line = ToL2.line
           /\ C2!Asks(ToL2')
<1>1. CASE l2.state = "rw"
  <2>1. C2!Asks(ToL2) /\ ~L2!Resp(l2, ToL2)
    BY <1>1, TheSizes, BelowWires, ArbiterAsks, CacheSteps, C2!MissesOnly DEF CachesOK
  <2> QED BY <2>1, RepeatedL2
<1>2. CASE l2.state # "rw"
  BY <1>2, ArbiterAsks, RepeatedL2 DEF Arbitrated
<1> QED BY <1>1, <1>2

LEMMA CachesStep ==
    ASSUME RegistersOK, CachesOK, Arbitrated, NEW answers, Cycle(answers), RegistersOK'
    PROVE  CachesOK'
<1>1. C1!CacheInv(icache', core.fetch, CodeLines, {})
  BY TheSizes, CoreRequests, CacheSteps, C1!CacheInvStep DEF RegistersOK, CachesOK
<1>2. C1!CacheInv(dcache', core.data, DataLines, StoreLines)
  BY TheSizes, CoreRequests, CacheSteps, C1!CacheInvStep DEF RegistersOK, CachesOK
<1>3. C2!CacheInv(l2', ToL2, Lines, Lines)
  BY TheSizes, BelowWires, CacheSteps, C2!CacheInvStep DEF CachesOK
<1>4. C1!CacheInv(icache', core'.fetch, CodeLines, {})
  <2>1. icache'.state # "rw" => core'.fetch.line = core.fetch.line /\ C1!Asks(core'.fetch)
    BY SteadyRequests, CoreRequests DEF RegistersOK, C1!Asks
  <2> QED BY <1>1, <2>1, C1!CacheInvNewRequest
<1>5. C1!CacheInv(dcache', core'.data, DataLines, StoreLines)
  <2>1. dcache'.state # "rw" => core'.data.line = core.data.line /\ C1!Asks(core'.data)
    BY <1>2, SteadyRequests DEF C1!CacheInv, C1!MissOK
  <2> QED BY <1>2, <2>1, C1!CacheInvNewRequest
<1>6. C2!CacheInv(l2', ToL2', Lines, Lines)
  BY <1>3, SteadyL2, C2!CacheInvNewRequest
<1> QED BY <1>4, <1>5, <1>6 DEF CachesOK

LEMMA ArbitratedStep ==
    ASSUME RegistersOK, CachesOK, Arbitrated, NEW answers, Cycle(answers)
    PROVE  Arbitrated'
<1>1. l2'.state # "rw" => arb' # "idle"
  BY SteadyL2
<1>2. icache.state # "rw" /\ ~arb_iresp(ToL2) => icache'.state # "rw"
  BY SteadyICache
<1>3. dcache.state # "rw" /\ ~arb_dresp(ToL2) => dcache'.state # "rw"
  BY SteadyDCache
<1>4. ICacheAsks.read \/ ICacheAsks.write <=> icache.state # "rw"
  BY ICacheReads DEF ICacheAsks, L1!Below
<1>5. DCacheAsks.read \/ DCacheAsks.write <=> dcache.state # "rw"
  BY DEF DCacheAsks, L1!Below, CachesOK, C1!CacheInv, C1!IsCache
<1>6. L2!Resp(l2, ToL2) => arb # "idle"
  BY ArbiterAsks
<1>7. PICK resp : resp = L2!Resp(l2, ToL2)
  OBVIOUS
<1>8. PICK iasks, dasks : /\ iasks = (ICacheAsks.read \/ ICacheAsks.write)
                          /\ dasks = (DCacheAsks.read \/ DCacheAsks.write)
  OBVIOUS
<1>9. /\ arb' = "conflict" => \/ arb = "idle" /\ iasks /\ dasks
                              \/ arb = "conflict" /\ ~resp
      /\ arb' = "ic_access" => \/ arb = "idle" /\ iasks
                               \/ arb = "ic_access" /\ ~resp
                               \/ arb = "conflict" /\ resp
                               \/ arb = "dc_access" /\ resp /\ iasks
      /\ arb' = "dc_access" => \/ arb = "idle" /\ dasks
                               \/ arb = "dc_access" /\ ~resp
                               \/ arb = "ic_access" /\ resp /\ dasks
  BY <1>7, <1>8 DEF Cycle, ArbNext, RegistersOK
<1>10. arb' \in {"ic_access", "conflict"} => icache'.state # "rw"
  BY <1>2, <1>4, <1>6, <1>7, <1>8, <1>9 DEF arb_iresp, Arbitrated
<1>11. arb' \in {"dc_access", "conflict"} => dcache'.state # "rw"
  BY <1>3, <1>5, <1>6, <1>7, <1>8, <1>9 DEF arb_dresp, Arbitrated
<1> QED BY <1>1, <1>10, <1>11 DEF Arbitrated

---------------------------------------------------------------------------
(* A burst *)

LEMMA BurstStates ==
    /\ Reading[1] = "read1" /\ Reading[2] = "read2" /\ Reading[3] = "read3"
    /\ Reading[4] = "read4"
    /\ Writing[1] = "write1" /\ Writing[2] = "write2" /\ Writing[3] = "write3"
    /\ Writing[4] = "write4"
    /\ \A n \in Beats : n = 1 \/ n = 2 \/ n = 3 \/ n = 4
    /\ \A n \in 2 .. 3 : n = 2 \/ n = 3
    /\ 1 \in Beats /\ 2 \in Beats /\ 3 \in Beats /\ 4 \in Beats
    /\ 2 \in 2 .. 3 /\ 3 \in 2 .. 3
BY DEF Reading, Writing, Beats

\* One state of the adaptor a beat.
LEMMA StatesDiffer ==
    ASSUME NEW n \in Beats
    PROVE  /\ \A m \in Beats : /\ Reading[n] = Reading[m] => m = n
                               /\ Writing[n] = Writing[m] => m = n
                               /\ Reading[n] # Writing[m]
                               /\ Writing[n] # Reading[m]
           /\ Reading[n] \notin {"idle", "reset", "readDone", "writeDone"}
           /\ Writing[n] \notin {"idle", "reset", "readDone", "writeDone"}
BY BurstStates

LEMMA TheBeat ==
    ASSUME NEW n \in Beats
    PROVE  /\ (CHOOSE m \in Beats : Reading[n] = Reading[m]) = n
           /\ (CHOOSE m \in Beats : Writing[n] = Writing[m]) = n
<1>1. \A m \in Beats : Reading[n] = Reading[m] => m = n
  BY StatesDiffer
<1>2. \A m \in Beats : Writing[n] = Writing[m] => m = n
  BY StatesDiffer
<1>3. (CHOOSE m \in Beats : Reading[n] = Reading[m]) = n
  BY <1>1
<1>4. (CHOOSE m \in Beats : Writing[n] = Writing[m]) = n
  BY <1>2
<1> QED BY <1>3, <1>4

\* Where the adaptor may be.
LEMMA CadCases ==
    ASSUME RegistersOK
    PROVE  \/ cad.state \in {"idle", "reset", "readDone", "writeDone"}
           \/ \E n \in Beats : cad.state = Reading[n] \/ cad.state = Writing[n]
BY DEF RegistersOK

\* The next state of the adaptor, in the order of its burst.
LEMMA CadNext ==
    ASSUME RegistersOK
    PROVE  /\ cad.state = "idle" => \/ CadStateNext = Reading[1] /\ ToCad.read
                                    \/ CadStateNext = Writing[1] /\ ToCad.write /\ ~ToCad.read
                                    \/ CadStateNext = "idle" /\ ~ToCad.read /\ ~ToCad.write
           /\ cad.state = "reset" => CadStateNext = "idle"
           /\ cad_resp => CadStateNext = IF resp_i THEN cad.state ELSE "idle"
           /\ \A n \in Beats : cad.state = Reading[n] =>
                 CadStateNext = IF n = 1 /\ ~resp_i THEN Reading[1]
                                ELSE IF n = 4 THEN "readDone" ELSE Reading[n + 1]
           /\ \A n \in Beats : cad.state = Writing[n] =>
                 CadStateNext = IF n = 1 /\ ~resp_i THEN Writing[1]
                                ELSE IF n = 4 THEN "writeDone" ELSE Writing[n + 1]
<1>1. cad.state = "idle" => \/ CadStateNext = Reading[1] /\ ToCad.read
                            \/ CadStateNext = Writing[1] /\ ToCad.write /\ ~ToCad.read
                            \/ CadStateNext = "idle" /\ ~ToCad.read /\ ~ToCad.write
  BY BurstStates DEF CadStateNext, cad_resp
<1>2. cad.state = "reset" => CadStateNext = "idle"
  BY BurstStates DEF CadStateNext, cad_resp
<1>3. cad_resp => CadStateNext = IF resp_i THEN cad.state ELSE "idle"
  BY BurstStates DEF CadStateNext, cad_resp
<1>4. ASSUME NEW n \in Beats, cad.state = Reading[n]
      PROVE  CadStateNext = IF n = 1 /\ ~resp_i THEN Reading[1]
                            ELSE IF n = 4 THEN "readDone" ELSE Reading[n + 1]
  <2>1. CASE n = 1 \/ n = 4
    BY <1>4, <2>1, BurstStates DEF CadStateNext, cad_resp
  <2>2. CASE n \in 2 .. 3
    <3>1. (CHOOSE m \in 2 .. 3 : cad.state = Reading[m]) = n
      BY <1>4, <2>2, BurstStates
    <3>2. \E m \in 2 .. 3 : cad.state = Reading[m]
      BY <1>4, <2>2
    <3>3. cad.state \notin {"idle", "reset", "read1", "read4", "write1", "write4", "readDone",
                           "writeDone", "write2", "write3"}
      BY <1>4, <2>2, BurstStates
    <3>4. ~(\E m \in 2 .. 3 : cad.state = Writing[m])
      BY <3>3, BurstStates
    <3>5. CadStateNext = Reading[1 + n]
      BY <3>1, <3>2, <3>3, <3>4 DEF CadStateNext, cad_resp
    <3> QED BY <2>2, <3>5
  <2> QED BY <2>1, <2>2, BurstStates
<1>5. ASSUME NEW n \in Beats, cad.state = Writing[n]
      PROVE  CadStateNext = IF n = 1 /\ ~resp_i THEN Writing[1]
                            ELSE IF n = 4 THEN "writeDone" ELSE Writing[n + 1]
  <2>1. CASE n = 1 \/ n = 4
    BY <1>5, <2>1, BurstStates DEF CadStateNext, cad_resp
  <2>2. CASE n \in 2 .. 3
    <3>1. (CHOOSE m \in 2 .. 3 : cad.state = Writing[m]) = n
      BY <1>5, <2>2, BurstStates
    <3>2. \E m \in 2 .. 3 : cad.state = Writing[m]
      BY <1>5, <2>2
    <3>3. cad.state \notin {"idle", "reset", "read1", "read4", "write1", "write4", "readDone",
                           "writeDone", "read2", "read3"}
      BY <1>5, <2>2, BurstStates
    <3>4. ~(\E m \in 2 .. 3 : cad.state = Reading[m])
      BY <3>3, BurstStates
    <3>5. CadStateNext = Writing[1 + n]
      BY <3>1, <3>2, <3>3, <3>4 DEF CadStateNext, cad_resp
    <3> QED BY <2>2, <3>5
  <2> QED BY <2>1, <2>2, BurstStates
<1> QED BY <1>1, <1>2, <1>3, <1>4, <1>5

\* What the adaptor asks of the memory.
LEMMA AdaptorWires ==
    ASSUME RegistersOK
    PROVE  /\ ToCad = C2!Below(l2, ToL2)
           /\ ToCad.read <=> l2.state = "pmem"
           /\ ToCad.write <=> l2.state = "write_back"
           /\ \A n \in Beats : cad.state = Reading[n] => read_o /\ ~write_o
           /\ \A n \in Beats : cad.state = Writing[n] =>
                 write_o /\ ~read_o /\ burst_o = ToCad.wdata[n]
           /\ cad.state = "idle" => (read_o <=> ToCad.read) /\ (write_o <=> ToCad.write)
           /\ cad.state \in {"reset", "readDone", "writeDone"} => ~read_o /\ ~write_o
<1>1. ToCad = C2!Below(l2, ToL2)
  BY SameL2 DEF ToCad
<1>2. (ToCad.read <=> l2.state = "pmem") /\ (ToCad.write <=> l2.state = "write_back")
  BY <1>1 DEF C2!Below
<1>3. \A n \in Beats : cad.state = Reading[n] => read_o /\ ~write_o
  BY StatesDiffer DEF read_o, write_o
<1>4. ASSUME NEW n \in Beats, cad.state = Writing[n]
      PROVE  write_o /\ ~read_o /\ burst_o = ToCad.wdata[n]
  <2>1. write_o /\ ~read_o
    BY <1>4, StatesDiffer DEF read_o, write_o
  <2>2. (CHOOSE m \in Beats : cad.state = Writing[m]) = n
    BY <1>4, TheBeat
  <2> QED BY <2>1, <2>2 DEF burst_o
<1>5. cad.state = "idle" => (read_o <=> ToCad.read) /\ (write_o <=> ToCad.write)
  BY StatesDiffer DEF read_o, write_o
<1>6. cad.state \in {"reset", "readDone", "writeDone"} => ~read_o /\ ~write_o
  BY StatesDiffer DEF read_o, write_o
<1> QED BY <1>1, <1>2, <1>3, <1>4, <1>5, <1>6

\* The memory goes on by a beat, or waits.
LEMMA BeatNext ==
    ASSUME RegistersOK, NEW answers, Cycle(answers)
    PROVE  /\ ~burst.busy => /\ burst'.busy <=> read_o \/ write_o
                             /\ burst'.beat = burst.beat
           /\ burst.busy => IF burst.beat = 4 THEN ~burst'.busy /\ burst'.beat = 0
                            ELSE /\ burst'.busy
                                 /\ \/ burst'.beat = burst.beat + 1
                                    \/ burst.beat = 0 /\ burst'.beat = 0 /\ Waits(answers)
<1>1. burst' = BurstNext(answers)
  BY DEF Cycle
<1>2. burst.busy \in BOOLEAN /\ burst.beat \in 0 .. 4
  BY DEF RegistersOK
<1>3. burst = [busy |-> burst.busy, beat |-> burst.beat]
  BY DEF RegistersOK
<1>4. CASE ~burst.busy
  BY <1>1, <1>3, <1>4 DEF BurstNext
<1>5. CASE burst.busy /\ burst.beat = 4
  BY <1>1, <1>5 DEF BurstNext
<1>6. CASE burst.busy /\ burst.beat # 4
  BY <1>1, <1>2, <1>3, <1>6 DEF BurstNext, Waits
<1> QED BY <1>4, <1>5, <1>6

\* The L2 cache repeats what it asks of the adaptor until it is answered.
LEMMA SteadyToCad ==
    ASSUME RegistersOK, CachesOK, Arbitrated, NEW answers, Cycle(answers),
           l2.state # "rw", ~cad_resp
    PROVE  /\ l2'.state = l2.state
           /\ ToCad'.line = ToCad.line
           /\ ToCad'.read <=> ToCad.read
           /\ ToCad'.write <=> ToCad.write
           /\ l2.state = "write_back" => ToCad'.wdata = ToCad.wdata
<1>1. /\ l2'.state = l2.state
      /\ C2!Below(l2', ToL2).line = C2!Below(l2, ToL2).line
      /\ l2.state = "write_back" => C2!Below(l2', ToL2).wdata = C2!Below(l2, ToL2).wdata
  BY TheSizes, BelowWires, CacheSteps, C2!Waiting DEF CachesOK
<1>2. ToL2'.line = ToL2.line
  BY <1>1, SteadyL2
<1>3. ToCad = C2!Below(l2, ToL2) /\ ToCad' = C2!Below(l2', ToL2')
  BY SameL2 DEF ToCad
<1>4. C2!Below(l2', ToL2').line = C2!Below(l2', ToL2).line
  BY <1>2 DEF C2!Below, C2!Victim
<1>5. C2!Below(l2', ToL2').wdata = C2!Below(l2', ToL2).wdata
  BY <1>2 DEF C2!Below, C2!Victim
<1>6. /\ C2!Below(l2', ToL2').read <=> C2!Below(l2, ToL2).read
      /\ C2!Below(l2', ToL2').write <=> C2!Below(l2, ToL2).write
  BY <1>1 DEF C2!Below
<1> QED BY <1>1, <1>3, <1>4, <1>5, <1>6

LEMMA BurstingStep ==
    ASSUME RegistersOK, CachesOK, Arbitrated, Bursting, NEW answers, Cycle(answers)
    PROVE  Bursting'
<1>1. cad'.state = CadStateNext
  BY DEF Cycle
<1>2. resp_i <=> burst.beat \in Beats
  BY DEF resp_i
<1>3. CASE cad.state \in {"reset", "readDone", "writeDone"}
  <2>1. ~burst.busy /\ burst.beat = 0 /\ ~resp_i /\ ~read_o /\ ~write_o
    BY <1>2, <1>3, AdaptorWires DEF Bursting, Beats
  <2>2. cad'.state = "idle"
    BY <1>1, <1>3, <2>1, CadNext DEF cad_resp
  <2>3. ~burst'.busy /\ burst'.beat = 0
    BY <2>1, BeatNext
  <2> QED BY <2>2, <2>3, StatesDiffer DEF Bursting
<1>4. CASE cad.state = "idle"
  <2>1. ~burst.busy /\ burst.beat = 0 /\ ~cad_resp
    BY <1>4 DEF Bursting, cad_resp
  <2>2. burst'.busy <=> ToCad.read \/ ToCad.write
    BY <1>4, <2>1, BeatNext, AdaptorWires
  <2>3. burst'.beat = 0
    BY <2>1, BeatNext
  <2>4. CASE cad'.state = Reading[1] /\ ToCad.read
    <3>1. l2'.state = "pmem"
      BY <2>1, <2>4, AdaptorWires, SteadyToCad
    <3> QED BY <2>2, <2>3, <2>4, <3>1, StatesDiffer, BurstStates DEF Bursting
  <2>5. CASE cad'.state = Writing[1] /\ ToCad.write
    <3>1. l2'.state = "write_back"
      BY <2>1, <2>5, AdaptorWires, SteadyToCad
    <3> QED BY <2>2, <2>3, <2>5, <3>1, StatesDiffer, BurstStates DEF Bursting
  <2>6. CASE cad'.state = "idle" /\ ~ToCad.read /\ ~ToCad.write
    BY <2>2, <2>3, <2>6, StatesDiffer DEF Bursting
  <2> QED BY <1>1, <1>4, <2>4, <2>5, <2>6, CadNext
<1>5. ASSUME NEW n \in Beats, cad.state = Reading[n]
      PROVE  Bursting'
  <2>1. burst.busy /\ (burst.beat = n \/ (n = 1 /\ burst.beat = 0)) /\ l2.state = "pmem"
    BY <1>5 DEF Bursting
  <2>2. ~cad_resp
    BY <1>5, StatesDiffer DEF cad_resp
  <2>3. l2'.state = "pmem"
    BY <2>1, <2>2, SteadyToCad
  <2>4. CASE burst.beat = 0
    <3>1. cad'.state = Reading[1] /\ burst'.busy /\ burst'.beat \in {0, 1}
      BY <1>1, <1>2, <1>5, <2>1, <2>4, CadNext, BeatNext DEF Beats
    <3> QED BY <2>3, <3>1, StatesDiffer, BurstStates DEF Bursting
  <2>5. CASE burst.beat = n /\ n # 4
    <3>1. cad'.state = Reading[n + 1] /\ n + 1 \in Beats
      BY <1>1, <1>2, <1>5, <2>5, CadNext DEF Beats
    <3>2. burst'.busy /\ burst'.beat = n + 1
      BY <2>1, <2>5, BeatNext DEF Beats
    <3> QED BY <2>3, <3>1, <3>2, StatesDiffer DEF Bursting
  <2>6. CASE burst.beat = n /\ n = 4
    <3>1. cad'.state = "readDone"
      BY <1>1, <1>5, <2>6, CadNext
    <3>2. ~burst'.busy /\ burst'.beat = 0
      BY <2>1, <2>6, BeatNext
    <3> QED BY <2>3, <3>1, <3>2, StatesDiffer DEF Bursting
  <2> QED BY <2>1, <2>4, <2>5, <2>6
<1>6. ASSUME NEW n \in Beats, cad.state = Writing[n]
      PROVE  Bursting'
  <2>1. burst.busy /\ (burst.beat = n \/ (n = 1 /\ burst.beat = 0)) /\ l2.state = "write_back"
    BY <1>6 DEF Bursting
  <2>2. ~cad_resp
    BY <1>6, StatesDiffer DEF cad_resp
  <2>3. l2'.state = "write_back"
    BY <2>1, <2>2, SteadyToCad
  <2>4. CASE burst.beat = 0
    <3>1. cad'.state = Writing[1] /\ burst'.busy /\ burst'.beat \in {0, 1}
      BY <1>1, <1>2, <1>6, <2>1, <2>4, CadNext, BeatNext DEF Beats
    <3> QED BY <2>3, <3>1, StatesDiffer, BurstStates DEF Bursting
  <2>5. CASE burst.beat = n /\ n # 4
    <3>1. cad'.state = Writing[n + 1] /\ n + 1 \in Beats
      BY <1>1, <1>2, <1>6, <2>5, CadNext DEF Beats
    <3>2. burst'.busy /\ burst'.beat = n + 1
      BY <2>1, <2>5, BeatNext DEF Beats
    <3> QED BY <2>3, <3>1, <3>2, StatesDiffer DEF Bursting
  <2>6. CASE burst.beat = n /\ n = 4
    <3>1. cad'.state = "writeDone"
      BY <1>1, <1>6, <2>6, CadNext
    <3>2. ~burst'.busy /\ burst'.beat = 0
      BY <2>1, <2>6, BeatNext
    <3> QED BY <2>3, <3>1, <3>2, StatesDiffer DEF Bursting
  <2> QED BY <2>1, <2>4, <2>5, <2>6
<1> QED BY <1>3, <1>4, <1>5, <1>6, CadCases

---------------------------------------------------------------------------
(* What a burst transfers *)

\* The line written back is the copy of the L2 cache, which keeps it until the
\* memory has it.
LEMMA LineBelow ==
    ASSUME RegistersOK, CachesOK
    PROVE  /\ ToCad.line \in Lines /\ ToCad.wdata \in LineData /\ address_o = ToCad.line
           /\ l2.state = "pmem" => ToCad.line = ToL2.line
           /\ l2.state = "write_back" =>
                 /\ C2!Has(l2, ToL2, ToCad.line) /\ ~C2!HasClean(l2, ToL2, ToCad.line)
                 /\ C2!Copy(l2, ToL2, ToCad.line) = ToCad.wdata
<1>1. ToCad = C2!Below(l2, ToL2)
  BY SameL2 DEF ToCad
<1>2. ToCad.line \in Lines /\ ToCad.wdata \in LineData
  BY <1>1, TheSizes, BelowWires, C2!WiresTyped DEF CachesOK, Lines, LineData, C2!LineData
<1>3. l2.state = "pmem" => ToCad.line = ToL2.line
  BY <1>1 DEF C2!Below
<1>4. ASSUME l2.state = "write_back"
      PROVE  /\ C2!Has(l2, ToL2, ToCad.line) /\ ~C2!HasClean(l2, ToL2, ToCad.line)
             /\ C2!Copy(l2, ToL2, ToCad.line) = ToCad.wdata
  BY <1>1, <1>4, TheSizes, BelowWires, C2!BelowHeld DEF CachesOK
<1> QED BY <1>2, <1>3, <1>4 DEF address_o

\* The memory changes by a beat of a write-back.
LEMMA MemoryStep ==
    ASSUME RegistersOK, CachesOK, Bursting, NEW answers, Cycle(answers)
    PROVE  /\ l2.state # "write_back" => memory' = memory
           /\ \A n \in Beats :
                 cad.state = Writing[n] /\ resp_i =>
                    /\ burst.beat = n
                    /\ memory' = [memory EXCEPT ![ToCad.line][n] = ToCad.wdata[n]]
           /\ (~resp_i \/ \A n \in Beats : cad.state # Writing[n]) => memory' = memory
<1>1. memory' = MemoryNext
  BY DEF Cycle
<1>2. resp_i => burst.beat \in Beats
  BY DEF resp_i
<1>3. ASSUME NEW n \in Beats, cad.state = Writing[n], resp_i
      PROVE  /\ burst.beat = n
             /\ memory' = [memory EXCEPT ![ToCad.line][n] = ToCad.wdata[n]]
  <2>1. burst.beat = n
    BY <1>2, <1>3 DEF Bursting, Beats
  <2>2. write_o /\ burst_o = ToCad.wdata[n]
    BY <1>3, AdaptorWires
  <2> QED BY <1>1, <1>3, <2>1, <2>2 DEF MemoryNext, address_o
<1>4. ASSUME ~resp_i \/ \A n \in Beats : cad.state # Writing[n]
      PROVE  memory' = memory
  <2>1. CASE ~resp_i
    BY <1>1, <2>1 DEF MemoryNext
  <2>2. CASE resp_i /\ \A n \in Beats : cad.state # Writing[n]
    <3>1. cad.state # "idle"
      BY <1>2, <2>2 DEF Bursting, Beats
    <3>2. ~write_o
      BY <2>2, <3>1 DEF write_o
    <3> QED BY <1>1, <3>2 DEF MemoryNext
  <2> QED BY <1>4, <2>1, <2>2
<1>5. l2.state # "write_back" => memory' = memory
  BY <1>4 DEF Bursting
<1> QED BY <1>3, <1>4, <1>5

LEMMA RegistersStep ==
    ASSUME RegistersOK, CachesOK, Arbitrated, Bursting, NoJunk, NEW answers, Cycle(answers)
    PROVE  RegistersOK'
<1>1. core' \in Requests
  BY CacheSteps
<1>2. arb' \in {"idle", "conflict", "ic_access", "dc_access", "prefetch"}
  BY DEF Cycle, ArbNext, RegistersOK
<1>3. prefetch_address' \in Lines
  <2>1. \A n \in Nat : n % NumLines \in Lines
    BY TheSizes DEF Lines
  <2>2. ICacheAsks.line \in Lines
    BY BelowWires
  <2>3. ICacheAsks.line + 1 \in Nat
    BY <2>2, TheSizes DEF Lines
  <2> QED BY <2>1, <2>3 DEF Cycle, PrefetchNext, RegistersOK
<1>4. cad'.state \in {"idle", "reset", "readDone", "writeDone"}
                       \cup {Reading[n] : n \in Beats} \cup {Writing[n] : n \in Beats}
  <2>1. cad'.state = CadStateNext
    BY DEF Cycle
  <2>2. CASE cad.state \in {"idle", "reset", "readDone", "writeDone"}
    BY <2>1, <2>2, CadNext, BurstStates DEF cad_resp
  <2>3. ASSUME NEW n \in Beats, cad.state = Reading[n]
        PROVE  \/ CadStateNext = "readDone"
               \/ \E m \in Beats : CadStateNext = Reading[m]
    BY <2>3, CadNext DEF Beats
  <2>4. ASSUME NEW n \in Beats, cad.state = Writing[n]
        PROVE  \/ CadStateNext = "writeDone"
               \/ \E m \in Beats : CadStateNext = Writing[m]
    BY <2>4, CadNext DEF Beats
  <2> QED BY <2>1, <2>2, <2>3, <2>4, CadCases
<1>5. cad'.line_o \in LineData
  <2>1. burst_i \in Words \cup {Junk}
    BY LineBelow DEF burst_i, resp_i, RegistersOK, LineWords
  <2>2. \A b \in Beats : [cad.line_o EXCEPT ![b] = burst_i] \in LineData
    BY <2>1 DEF RegistersOK, LineData
  <2>3. JunkLine \in LineData
    BY DEF JunkLine, LineData
  <2>4. \A n \in Beats : cad.state = Reading[n] =>
           (CHOOSE m \in Beats : cad.state = Reading[m]) = n
    BY TheBeat
  <2>5. cad'.line_o = CadLineNext
    BY DEF Cycle
  <2>6. CASE cad.state = "readDone"
    <3>1. cad'.line_o = cad.line_o
      BY <2>5, <2>6, StatesDiffer DEF CadLineNext
    <3> QED BY <3>1 DEF RegistersOK
  <2>7. ASSUME NEW n \in Beats, cad.state = Reading[n]
        PROVE  cad'.line_o \in LineData
    <3>1. cad'.line_o = [cad.line_o EXCEPT ![n] = burst_i]
      BY <2>4, <2>5, <2>7, StatesDiffer DEF CadLineNext
    <3> QED BY <2>2, <3>1
  <2>8. CASE cad.state # "readDone" /\ \A n \in Beats : cad.state # Reading[n]
    <3>1. cad'.line_o = JunkLine
      BY <2>5, <2>8 DEF CadLineNext
    <3> QED BY <2>3, <3>1
  <2> QED BY <2>6, <2>7, <2>8
<1>6. memory' \in [Lines -> LineWords]
  <2>1. ASSUME NEW n \in Beats, cad.state = Writing[n], resp_i
        PROVE  memory' \in [Lines -> LineWords]
    <3>1. ToCad.wdata \in LineWords
      BY <2>1, LineBelow DEF Bursting, NoJunk
    <3>2. memory' = [memory EXCEPT ![ToCad.line][n] = ToCad.wdata[n]]
      BY <2>1, MemoryStep
    <3> QED BY <3>1, <3>2 DEF RegistersOK, LineWords
  <2>2. CASE ~resp_i \/ \A n \in Beats : cad.state # Writing[n]
    BY <2>2, MemoryStep DEF RegistersOK
  <2> QED BY <2>1, <2>2
<1>7. burst' \in [busy : BOOLEAN, beat : 0 .. 4]
  <2>1. burst' = BurstNext(answers)
    BY DEF Cycle
  <2>2. burst \in [busy : BOOLEAN, beat : 0 .. 4]
    BY DEF RegistersOK
  <2>3. CASE ~burst.busy
    <3>1. (read_o \/ write_o) \in BOOLEAN
      OBVIOUS
    <3>2. burst' = [burst EXCEPT !.busy = read_o \/ write_o]
      BY <2>1, <2>3 DEF BurstNext
    <3> QED BY <2>2, <3>1, <3>2
  <2>4. CASE burst.busy
    BY <2>1, <2>2, <2>4 DEF BurstNext, Waits
  <2> QED BY <2>3, <2>4
<1>8. cad' = [state |-> cad'.state, line_o |-> cad'.line_o]
  BY DEF Cycle
<1>9. cad' \in [state : {"idle", "reset", "readDone", "writeDone"}
                          \cup {Reading[n] : n \in Beats} \cup {Writing[n] : n \in Beats},
                line_o : LineData]
  BY <1>4, <1>5, <1>8
<1> QED BY <1>1, <1>2, <1>3, <1>6, <1>7, <1>9 DEF RegistersOK

LEMMA TransferredStep ==
    ASSUME RegistersOK, CachesOK, Arbitrated, Bursting, Transferred,
           NEW answers, Cycle(answers)
    PROVE  Transferred'
<1>1. cad'.state = CadStateNext /\ cad'.line_o = CadLineNext
  BY DEF Cycle
<1>2. address_o = ToCad.line /\ address_o' = ToCad'.line
  BY DEF address_o
<1>3. resp_i <=> burst.beat \in Beats
  BY DEF resp_i
<1>4. CASE cad.state \in {"reset", "readDone", "writeDone"}
  <2>1. ~resp_i
    BY <1>3, <1>4 DEF Bursting, Beats
  <2>2. cad'.state = "idle"
    BY <1>1, <1>4, <2>1, CadNext DEF cad_resp
  <2> QED BY <2>2, StatesDiffer DEF Transferred
<1>5. CASE cad.state = "idle"
  <2>1. cad'.state \in {Reading[1], Writing[1], "idle"}
    BY <1>1, <1>5, CadNext
  <2>2. \A n \in Beats : cad'.state = Reading[n] => n = 1
    BY <2>1, StatesDiffer, BurstStates
  <2>3. \A n \in Beats : cad'.state = Writing[n] => n = 1
    BY <2>1, StatesDiffer, BurstStates
  <2>4. cad'.state \notin {"readDone", "writeDone"}
    BY <2>1, BurstStates
  <2>5. 1 .. 1 - 1 = {}
    OBVIOUS
  <2> QED BY <2>2, <2>3, <2>4, <2>5 DEF Transferred
<1>6. ASSUME NEW n \in Beats, cad.state = Reading[n]
      PROVE  Transferred'
  <2>1. burst.beat = n \/ (n = 1 /\ burst.beat = 0)
    BY <1>6 DEF Bursting
  <2>2. l2.state = "pmem" /\ ~cad_resp
    BY <1>6, StatesDiffer DEF Bursting, cad_resp
  <2>3. memory' = memory /\ address_o' = address_o /\ address_o \in Lines
    BY <1>2, <2>2, MemoryStep, SteadyToCad, LineBelow
  <2>4. CASE burst.beat = 0
    <3>1. cad'.state = Reading[1]
      BY <1>1, <1>3, <1>6, <2>1, <2>4, CadNext DEF Beats
    <3>2. \A m \in Beats : cad'.state = Reading[m] => 1 .. m - 1 = {}
      BY <3>1, StatesDiffer, BurstStates
    <3>3. /\ \A m \in Beats : cad'.state # Writing[m]
          /\ cad'.state \notin {"readDone", "writeDone"}
      BY <3>1, StatesDiffer, BurstStates
    <3> QED BY <3>2, <3>3 DEF Transferred
  <2>5. CASE burst.beat = n
    <3>1. cad'.line_o = [cad.line_o EXCEPT ![n] = memory[address_o][n]]
      <4>1. burst_i = memory[address_o][n]
        BY <1>3, <2>5 DEF burst_i
      <4>2. (CHOOSE m \in Beats : cad.state = Reading[m]) = n
        BY <1>6, TheBeat
      <4> QED BY <1>1, <1>6, <4>1, <4>2, StatesDiffer DEF CadLineNext
    <3>2. \A b \in 1 .. n - 1 : cad.line_o[b] = memory[address_o][b]
      BY <1>6 DEF Transferred
    <3>3. cad.line_o \in LineData /\ memory[address_o] \in LineWords
      BY <2>3 DEF RegistersOK
    <3>4. \A b \in 1 .. n : cad'.line_o[b] = memory[address_o][b]
      <4>1. \A b \in 1 .. n : b \in Beats /\ (b = n \/ b \in 1 .. n - 1)
        BY DEF Beats
      <4> QED BY <3>1, <3>2, <3>3, <4>1 DEF LineData
    <3>5. CASE n # 4
      <4>1. cad'.state = Reading[n + 1] /\ n + 1 \in Beats
        BY <1>1, <1>3, <1>6, <2>5, <3>5, CadNext DEF Beats
      <4>2. \A m \in Beats : cad'.state = Reading[m] => m = n + 1
        BY <4>1, StatesDiffer
      <4>3. /\ \A m \in Beats : cad'.state # Writing[m]
            /\ cad'.state \notin {"readDone", "writeDone"}
        BY <4>1, StatesDiffer
      <4>4. 1 .. (n + 1) - 1 = 1 .. n
        BY DEF Beats
      <4> QED BY <2>3, <3>4, <4>2, <4>3, <4>4 DEF Transferred
    <3>6. CASE n = 4
      <4>1. cad'.state = "readDone"
        BY <1>1, <1>6, <3>6, CadNext
      <4>2. cad'.line_o = memory[address_o]
        <5>1. cad'.line_o = [b \in Beats |-> cad'.line_o[b]]
          BY <3>1, <3>3 DEF LineData
        <5>2. memory[address_o] = [b \in Beats |-> memory[address_o][b]]
          BY <3>3 DEF LineWords
        <5> QED BY <3>4, <3>6, <5>1, <5>2 DEF Beats
      <4> QED BY <2>3, <4>1, <4>2, StatesDiffer DEF Transferred
    <3> QED BY <3>5, <3>6
  <2> QED BY <2>1, <2>4, <2>5
<1>7. ASSUME NEW n \in Beats, cad.state = Writing[n]
      PROVE  Transferred'
  <2>1. burst.beat = n \/ (n = 1 /\ burst.beat = 0)
    BY <1>7 DEF Bursting
  <2>2. l2.state = "write_back" /\ ~cad_resp
    BY <1>7, StatesDiffer DEF Bursting, cad_resp
  <2>3. address_o' = address_o /\ address_o \in Lines /\ ToCad'.wdata = ToCad.wdata
    BY <1>2, <2>2, SteadyToCad, LineBelow
  <2>4. CASE burst.beat = 0
    <3>1. cad'.state = Writing[1]
      BY <1>1, <1>3, <1>7, <2>1, <2>4, CadNext DEF Beats
    <3>2. \A m \in Beats : cad'.state = Writing[m] => 1 .. m - 1 = {}
      BY <3>1, StatesDiffer, BurstStates
    <3>3. /\ \A m \in Beats : cad'.state # Reading[m]
          /\ cad'.state \notin {"readDone", "writeDone"}
      BY <3>1, StatesDiffer, BurstStates
    <3> QED BY <3>2, <3>3 DEF Transferred
  <2>5. CASE burst.beat = n
    <3>1. memory' = [memory EXCEPT ![address_o][n] = ToCad.wdata[n]]
      BY <1>2, <1>3, <1>7, <2>5, MemoryStep
    <3>2. \A b \in 1 .. n - 1 : memory[address_o][b] = ToCad.wdata[b]
      BY <1>7 DEF Transferred
    <3>3. ToCad.wdata \in LineData /\ memory[address_o] \in LineWords
      BY <2>3, LineBelow DEF RegistersOK
    <3>4. memory'[address_o] = [memory[address_o] EXCEPT ![n] = ToCad.wdata[n]]
      BY <2>3, <3>1 DEF RegistersOK
    <3>5. \A b \in 1 .. n : memory'[address_o][b] = ToCad.wdata[b]
      <4>1. \A b \in 1 .. n : b \in Beats /\ (b = n \/ b \in 1 .. n - 1)
        BY DEF Beats
      <4> QED BY <3>2, <3>3, <3>4, <4>1 DEF LineWords
    <3>6. CASE n # 4
      <4>1. cad'.state = Writing[n + 1] /\ n + 1 \in Beats
        BY <1>1, <1>3, <1>7, <2>5, <3>6, CadNext DEF Beats
      <4>2. \A m \in Beats : cad'.state = Writing[m] => m = n + 1
        BY <4>1, StatesDiffer
      <4>3. /\ \A m \in Beats : cad'.state # Reading[m]
            /\ cad'.state \notin {"readDone", "writeDone"}
        BY <4>1, StatesDiffer
      <4>4. 1 .. (n + 1) - 1 = 1 .. n
        BY DEF Beats
      <4> QED BY <2>3, <3>5, <4>2, <4>3, <4>4 DEF Transferred
    <3>7. CASE n = 4
      <4>1. cad'.state = "writeDone"
        BY <1>1, <1>7, <3>7, CadNext
      <4>2. memory'[address_o] = ToCad.wdata
        <5>1. memory'[address_o] = [b \in Beats |-> memory'[address_o][b]]
          BY <3>3, <3>4 DEF LineWords
        <5>2. ToCad.wdata = [b \in Beats |-> ToCad.wdata[b]]
          BY <3>3 DEF LineData
        <5> QED BY <3>5, <3>7, <5>1, <5>2 DEF Beats
      <4> QED BY <2>3, <4>1, <4>2, StatesDiffer DEF Transferred
    <3> QED BY <3>6, <3>7
  <2> QED BY <2>1, <2>4, <2>5
<1> QED BY <1>4, <1>5, <1>6, <1>7, CadCases

---------------------------------------------------------------------------
(* Where the newest copy of a line is *)

\* The L2 cache is written with the copy of the data cache, of a line of the
\* program's stores.
LEMMA WrittenBack ==
    ASSUME RegistersOK, CachesOK, Arbitrated, ToL2.write
    PROVE  /\ arb \in {"conflict", "dc_access"} /\ dcache.state = "write_back"
           /\ ToL2.line \in StoreLines /\ ToL2.line \in Lines
           /\ C1!Has(dcache, core.data, ToL2.line)
           /\ ~C1!HasClean(dcache, core.data, ToL2.line)
           /\ C1!Copy(dcache, core.data, ToL2.line) = ToL2.wdata
           /\ C1!Below(dcache, core.data) = ToL2
           /\ ToL2.mbe = Beats /\ ~ToL2.read
<1>1. ~ICacheAsks.write
  BY ICacheReads DEF ICacheAsks, L1!Below
<1>2. ICacheAsks = [read |-> ICacheAsks.read, write |-> ICacheAsks.write,
                    line |-> ICacheAsks.line, mbe |-> ICacheAsks.mbe,
                    wdata |-> ICacheAsks.wdata]
  BY DEF ICacheAsks, L1!Below
<1>3. DCacheAsks = [read |-> DCacheAsks.read, write |-> DCacheAsks.write,
                    line |-> DCacheAsks.line, mbe |-> DCacheAsks.mbe,
                    wdata |-> DCacheAsks.wdata]
  BY DEF DCacheAsks, L1!Below
<1>4. arb \in {"conflict", "dc_access"} /\ ToL2 = DCacheAsks
  <2>1. arb # "ic_access"
    BY <1>1 DEF ToL2
  <2>2. arb # "prefetch"
    BY <1>2 DEF ToL2
  <2>3. arb # "idle"
    BY <1>3 DEF ToL2
  <2> QED BY <2>1, <2>2, <2>3 DEF ToL2, RegistersOK
<1>5. ToL2 = C1!Below(dcache, core.data)
  BY <1>4, BelowWires
<1>6. dcache.state = "write_back" /\ ToL2.mbe = Beats /\ ~ToL2.read
  BY <1>5 DEF C1!Below
<1>7. C1!IsRequest(core.data, DataLines, StoreLines)
  BY CoreRequests DEF RegistersOK
<1>8. C1!CacheInv(dcache, core.data, DataLines, StoreLines)
  BY DEF CachesOK
<1>9. PICK l : l = ToL2.line
  OBVIOUS
<1>10. /\ l \in StoreLines /\ l \in 0 .. NumLines - 1 /\ C1!Has(dcache, core.data, l)
       /\ ~C1!HasClean(dcache, core.data, l)
       /\ C1!Copy(dcache, core.data, l) = C1!Below(dcache, core.data).wdata
  BY <1>5, <1>6, <1>7, <1>8, <1>9, TheSizes, C1!BelowHeld
<1> QED BY <1>4, <1>5, <1>6, <1>9, <1>10 DEF Lines

\* What the adaptor brings is the line of the memory; what it has written is
\* in the memory.
LEMMA BurstDone ==
    ASSUME RegistersOK, CachesOK, Bursting, Transferred, cad_resp
    PROVE  /\ l2.state \in {"pmem", "write_back"}
           /\ l2.state = "pmem" => cad.line_o = memory[ToL2.line]
           /\ l2.state = "write_back" => memory[ToCad.line] = ToCad.wdata
<1>1. CASE cad.state = "readDone"
  BY <1>1, LineBelow DEF Bursting, Transferred
<1>2. CASE cad.state = "writeDone"
  BY <1>2, LineBelow DEF Bursting, Transferred
<1> QED BY <1>1, <1>2 DEF cad_resp

\* Another line of the memory is not written.
LEMMA OtherLines ==
    ASSUME RegistersOK, CachesOK, Bursting, NEW answers, Cycle(answers),
           NEW l \in Lines, l # ToCad.line
    PROVE  memory'[l] = memory[l]
<1>1. ASSUME NEW n \in Beats, cad.state = Writing[n], resp_i
      PROVE  memory'[l] = memory[l]
  BY <1>1, MemoryStep, LineBelow DEF RegistersOK
<1>2. CASE ~resp_i \/ \A n \in Beats : cad.state # Writing[n]
  BY <1>2, MemoryStep
<1> QED BY <1>1, <1>2

StoredInL2(line) == C2!Resp(l2, ToL2) /\ ToL2.write /\ line = ToL2.line

\* A cycle changes a line below the L1 caches by a store of the L2 cache only,
\* and what the L2 cache may drop stays what the memory has.
LEMMA BelowStep ==
    ASSUME RegistersOK, CachesOK, Arbitrated, Bursting, Transferred, Coherent, NoJunk,
           NEW answers, Cycle(answers), CachesOK', NEW l \in Lines
    PROVE  /\ FromL2(l)' = IF StoredInL2(l) THEN ToL2.wdata ELSE FromL2(l)
           /\ C2!HasClean(l2', ToL2', l) => C2!Copy(l2', ToL2', l) = memory'[l]
           /\ C2!Has(l2', ToL2', l) => C2!Copy(l2', ToL2', l) \in LineWords
<1>1. FromL2(l)' = IF C2!Has(l2', ToL2', l) THEN C2!Copy(l2', ToL2', l) ELSE memory'[l]
  BY DEF FromL2
<1>2. FromL2(l) = IF C2!Has(l2, ToL2, l) THEN C2!Copy(l2, ToL2, l) ELSE memory[l]
  BY DEF FromL2
<1>3. /\ C2!HasClean(l2, ToL2, l) => C2!Copy(l2, ToL2, l) = memory[l]
      /\ C2!Has(l2, ToL2, l) => C2!Copy(l2, ToL2, l) \in LineWords
      /\ memory[l] \in LineWords
  BY DEF Coherent, NoJunk, RegistersOK
<1>4. /\ C2!IsRequest(ToL2, Lines, Lines)
      /\ C2!CacheInv(l2, ToL2, Lines, Lines)
      /\ C2!CacheInv(l2', ToL2', Lines, Lines)
      /\ l2' = C2!Clocked(l2, ToL2, cad_resp, cad.line_o)
      /\ cad_resp \in BOOLEAN /\ cad.line_o \in C2!LineData
      /\ l2'.state # "rw" => ToL2'.line = ToL2.line
      /\ l \in 0 .. NumLines - 1
  BY BelowWires, CacheSteps, SteadyL2 DEF CachesOK, Lines
<1>5. CASE l2.state = "rw"
  <2>1. memory' = memory
    BY <1>5, MemoryStep
  <2>2. IF C2!Resp(l2, ToL2) /\ ToL2.write /\ l = ToL2.line
        THEN C2!Stored(l2, ToL2, l2', ToL2', l)
        ELSE C2!Kept(l2, ToL2, l2', ToL2', l)
               \/ (C2!HasClean(l2, ToL2, l) /\ C2!Dropped(l2, ToL2, l2', ToL2', l))
    BY <1>4, <1>5, TheSizes, C2!RwContents
  <2>3. CASE C2!Kept(l2, ToL2, l2', ToL2', l) /\ ~StoredInL2(l)
    BY <1>1, <1>2, <1>3, <2>1, <2>3 DEF C2!Kept, C2!HasClean, C2!HoldsClean, C2!Has
  <2>4. CASE /\ C2!HasClean(l2, ToL2, l) /\ C2!Dropped(l2, ToL2, l2', ToL2', l)
             /\ ~StoredInL2(l)
    BY <1>1, <1>2, <1>3, <2>1, <2>4 DEF C2!Dropped
  <2>5. CASE C2!Stored(l2, ToL2, l2', ToL2', l) /\ StoredInL2(l)
    <3>1. ToL2.mbe = Beats /\ ToL2.wdata \in LineWords
      BY <2>5, WrittenBack DEF StoredInL2, NoJunk
    <3>2. C2!Merged(ToL2, C2!Copy(l2, ToL2, l)) = ToL2.wdata
      BY <2>5, <3>1 DEF StoredInL2, C2!Merged, LineWords
    <3> QED BY <1>1, <2>5, <3>1, <3>2 DEF C2!Stored
  <2> QED BY <2>2, <2>3, <2>4, <2>5 DEF StoredInL2
<1>6. ASSUME l2.state # "rw"
      PROVE  ~StoredInL2(l)
  BY <1>6 DEF StoredInL2, C2!Resp
<1>7. CASE l2.state = "write_back"
  <2>1. IF cad_resp /\ l = C2!Below(l2, ToL2).line
        THEN C2!Dropped(l2, ToL2, l2', ToL2', l)
        ELSE C2!Kept(l2, ToL2, l2', ToL2', l)
    BY <1>4, <1>7, TheSizes, C2!WriteBackContents
  <2>2. ToCad = C2!Below(l2, ToL2)
    BY AdaptorWires
  <2>3. /\ C2!Has(l2, ToL2, ToCad.line) /\ ~C2!HasClean(l2, ToL2, ToCad.line)
        /\ C2!Copy(l2, ToL2, ToCad.line) = ToCad.wdata
    BY <1>7, LineBelow
  <2>4. CASE cad_resp /\ l = ToCad.line
    <3>1. memory[l] = C2!Copy(l2, ToL2, l)
      BY <1>7, <2>3, <2>4, BurstDone
    <3>2. memory' = memory
      BY <2>4, StatesDiffer, MemoryStep DEF cad_resp
    <3> QED BY <1>1, <1>2, <1>6, <1>7, <2>1, <2>2, <2>3, <2>4, <3>1, <3>2 DEF C2!Dropped
  <2>5. CASE C2!Kept(l2, ToL2, l2', ToL2', l) /\ l = ToCad.line
    BY <1>1, <1>2, <1>3, <1>6, <1>7, <2>3, <2>5 DEF C2!Kept
  <2>6. CASE C2!Kept(l2, ToL2, l2', ToL2', l) /\ l # ToCad.line
    <3>1. memory'[l] = memory[l]
      BY <2>6, OtherLines
    <3> QED BY <1>1, <1>2, <1>3, <1>6, <1>7, <2>6, <3>1
            DEF C2!Kept, C2!HasClean, C2!HoldsClean, C2!Has
  <2> QED BY <2>1, <2>2, <2>4, <2>5, <2>6
<1>8. CASE l2.state = "pmem"
  <2>1. memory' = memory
    BY <1>8, MemoryStep
  <2>2. IF cad_resp /\ l = ToL2.line THEN C2!Filled(l2, ToL2, l2', ToL2', l, cad.line_o)
        ELSE C2!Kept(l2, ToL2, l2', ToL2', l)
    BY <1>4, <1>8, TheSizes, C2!PmemContents
  <2>3. CASE cad_resp /\ l = ToL2.line
    <3>1. cad.line_o = memory[l]
      BY <1>8, <2>3, BurstDone
    <3> QED BY <1>1, <1>2, <1>3, <1>6, <1>8, <2>1, <2>2, <2>3, <3>1 DEF C2!Filled
  <2>4. CASE C2!Kept(l2, ToL2, l2', ToL2', l)
    BY <1>1, <1>2, <1>3, <1>6, <1>8, <2>1, <2>4
       DEF C2!Kept, C2!HasClean, C2!HoldsClean, C2!Has
  <2> QED BY <2>2, <2>3, <2>4
<1>9. l2.state \in {"rw", "write_back", "pmem"}
  BY DEF CachesOK, C2!CacheInv, C2!IsCache
<1> QED BY <1>5, <1>7, <1>8, <1>9

\* An L1 cache is filled with the line as the level below has it.
LEMMA FillData ==
    ASSUME RegistersOK, CachesOK, Arbitrated
    PROVE  /\ arb_dresp(ToL2) /\ dcache.state = "pmem" =>
                /\ arb_drdata(ToL2) = FromL2(core.data.line)
                /\ C2!Has(l2, ToL2, core.data.line)
                /\ C2!Copy(l2, ToL2, core.data.line) = FromL2(core.data.line)
           /\ arb_iresp(ToL2) /\ icache.state = "pmem" =>
                arb_irdata(ToL2) = FromL2(core.fetch.line)
           /\ arb_dresp(ToL2) /\ dcache.state = "write_back" =>
                StoredInL2(C1!Below(dcache, core.data).line)
<1>1. ASSUME L2!Resp(l2, ToL2)
      PROVE  /\ C2!Resp(l2, ToL2)
             /\ C2!Has(l2, ToL2, ToL2.line)
             /\ L2!RData(l2, ToL2) = C2!Copy(l2, ToL2, ToL2.line)
  <2>1. C2!Resp(l2, ToL2) /\ L2!RData(l2, ToL2) = C2!RData(l2, ToL2)
    BY <1>1, ArbiterAsks, SameL2
  <2> QED BY <2>1, TheSizes, BelowWires, C2!Answers DEF CachesOK
<1>2. ASSUME arb_dresp(ToL2)
      PROVE  /\ L2!Resp(l2, ToL2) /\ ToL2 = C1!Below(dcache, core.data)
             /\ arb_drdata(ToL2) = L2!RData(l2, ToL2)
  BY <1>2, BelowWires DEF arb_dresp, arb_drdata, ToL2
<1>3. ASSUME arb_iresp(ToL2)
      PROVE  /\ L2!Resp(l2, ToL2) /\ ToL2 = C1!Below(icache, core.fetch)
             /\ arb_irdata(ToL2) = L2!RData(l2, ToL2)
  BY <1>3, BelowWires DEF arb_iresp, arb_irdata, ToL2
<1>4. ASSUME arb_dresp(ToL2), dcache.state = "pmem"
      PROVE  /\ arb_drdata(ToL2) = FromL2(core.data.line)
             /\ C2!Has(l2, ToL2, core.data.line)
             /\ C2!Copy(l2, ToL2, core.data.line) = FromL2(core.data.line)
  <2>1. ToL2.line = core.data.line
    BY <1>2, <1>4 DEF C1!Below
  <2> QED BY <1>1, <1>2, <1>4, <2>1 DEF FromL2
<1>5. ASSUME arb_iresp(ToL2), icache.state = "pmem"
      PROVE  arb_irdata(ToL2) = FromL2(core.fetch.line)
  <2>1. ToL2.line = core.fetch.line
    BY <1>3, <1>5 DEF C1!Below
  <2> QED BY <1>1, <1>3, <1>5, <2>1 DEF FromL2
<1>6. ASSUME arb_dresp(ToL2), dcache.state = "write_back"
      PROVE  StoredInL2(C1!Below(dcache, core.data).line)
  <2>1. C1!Below(dcache, core.data).write
    BY <1>6 DEF C1!Below
  <2> QED BY <1>1, <1>2, <1>6, <2>1 DEF StoredInL2
<1> QED BY <1>4, <1>5, <1>6

\* A line as the processor sees it.
Newest(line) ==
    IF C1!Has(dcache, core.data, line) THEN C1!Copy(dcache, core.data, line)
    ELSE FromL2(line)

Stores(line) == C1!Resp(dcache, core.data) /\ core.data.write /\ line = core.data.line

\* A cycle changes a line of the processor by a store of the data cache only.
LEMMA DataStep ==
    ASSUME RegistersOK, CachesOK, Arbitrated, Bursting, Transferred, Coherent, NoJunk,
           NEW answers, Cycle(answers), CachesOK', NEW l \in Lines
    PROVE  /\ Newest(l)' = IF Stores(l) THEN C1!Merged(core.data, Newest(l)) ELSE Newest(l)
           /\ C1!HasClean(dcache', core'.data, l) =>
                 C1!Copy(dcache', core'.data, l) = FromL2(l)'
           /\ C1!Has(dcache', core'.data, l) => C1!Copy(dcache', core'.data, l) \in LineWords
<1>1. Newest(l)' = IF C1!Has(dcache', core'.data, l) THEN C1!Copy(dcache', core'.data, l)
                   ELSE FromL2(l)'
  BY DEF Newest
<1>2. Newest(l) = IF C1!Has(dcache, core.data, l) THEN C1!Copy(dcache, core.data, l)
                  ELSE FromL2(l)
  BY DEF Newest
<1>3. PICK below : below = FromL2(l)'
  OBVIOUS
<1>4. below = IF StoredInL2(l) THEN ToL2.wdata ELSE FromL2(l)
  BY <1>3, BelowStep
<1>5. /\ C1!HasClean(dcache, core.data, l) => C1!Copy(dcache, core.data, l) = FromL2(l)
      /\ C1!Has(dcache, core.data, l) => C1!Copy(dcache, core.data, l) \in LineWords
      /\ C1!HasClean(dcache, core.data, l) => C1!Has(dcache, core.data, l)
  BY DEF Coherent, NoJunk, C1!HasClean, C1!HoldsClean, C1!Has
<1>6. /\ C1!IsRequest(core.data, DataLines, StoreLines)
      /\ C1!CacheInv(dcache, core.data, DataLines, StoreLines)
      /\ C1!CacheInv(dcache', core'.data, DataLines, StoreLines)
      /\ dcache' = C1!Clocked(dcache, core.data, arb_dresp(ToL2), arb_drdata(ToL2))
      /\ arb_dresp(ToL2) \in BOOLEAN /\ arb_drdata(ToL2) \in C1!LineData
      /\ dcache'.state # "rw" => core'.data.line = core.data.line
      /\ l \in 0 .. NumLines - 1
  BY CoreRequests, CacheSteps, SteadyRequests DEF CachesOK, Lines, RegistersOK
<1>7. ASSUME StoredInL2(l)
      PROVE  /\ dcache.state = "write_back" /\ arb_dresp(ToL2)
             /\ l = C1!Below(dcache, core.data).line
             /\ C1!Has(dcache, core.data, l) /\ C1!Copy(dcache, core.data, l) = ToL2.wdata
  BY <1>7, WrittenBack, ArbiterAsks DEF StoredInL2, arb_dresp
<1>8. CASE dcache.state = "rw"
  <2>1. below = FromL2(l)
    BY <1>4, <1>7, <1>8
  <2>2. IF C1!Resp(dcache, core.data) /\ core.data.write /\ l = core.data.line
        THEN C1!Stored(dcache, core.data, dcache', core'.data, l)
        ELSE C1!Kept(dcache, core.data, dcache', core'.data, l)
               \/ (/\ C1!HasClean(dcache, core.data, l)
                   /\ C1!Dropped(dcache, core.data, dcache', core'.data, l))
    BY <1>6, <1>8, TheSizes, C1!RwContents
  <2>3. CASE C1!Kept(dcache, core.data, dcache', core'.data, l) /\ ~Stores(l)
    BY <1>1, <1>2, <1>3, <1>5, <2>1, <2>3 DEF C1!Kept
  <2>4. CASE /\ C1!HasClean(dcache, core.data, l)
             /\ C1!Dropped(dcache, core.data, dcache', core'.data, l) /\ ~Stores(l)
    BY <1>1, <1>2, <1>3, <1>5, <2>1, <2>4 DEF C1!Dropped
  <2>5. CASE C1!Stored(dcache, core.data, dcache', core'.data, l) /\ Stores(l)
    <3>1. core.data.wdata \in LineWords
      BY <2>5, CoreRequests DEF Stores, RegistersOK
    <3>2. C1!Copy(dcache, core.data, l) \in LineWords
      BY <1>5, <2>5 DEF C1!Stored
    <3>3. C1!Merged(core.data, C1!Copy(dcache, core.data, l)) \in LineWords
      BY <3>1, <3>2 DEF C1!Merged, LineWords
    <3> QED BY <1>1, <1>2, <2>5, <3>3 DEF C1!Stored
  <2> QED BY <2>2, <2>3, <2>4, <2>5 DEF Stores
<1>9. ASSUME dcache.state # "rw"
      PROVE  ~Stores(l)
  BY <1>9 DEF Stores, C1!Resp
<1>10. CASE dcache.state = "write_back"
  <2>1. IF arb_dresp(ToL2) /\ l = C1!Below(dcache, core.data).line
        THEN C1!Dropped(dcache, core.data, dcache', core'.data, l)
        ELSE C1!Kept(dcache, core.data, dcache', core'.data, l)
    BY <1>6, <1>10, TheSizes, C1!WriteBackContents
  <2>2. CASE arb_dresp(ToL2) /\ l = C1!Below(dcache, core.data).line
    <3>1. StoredInL2(l)
      BY <1>10, <2>2, FillData
    <3> QED BY <1>1, <1>2, <1>3, <1>4, <1>7, <1>9, <1>10, <2>1, <2>2, <3>1 DEF C1!Dropped
  <2>3. CASE /\ C1!Kept(dcache, core.data, dcache', core'.data, l)
             /\ ~(arb_dresp(ToL2) /\ l = C1!Below(dcache, core.data).line)
    <3>1. below = FromL2(l)
      BY <1>4, <1>7, <2>3
    <3> QED BY <1>1, <1>2, <1>3, <1>5, <1>9, <1>10, <2>3, <3>1 DEF C1!Kept
  <2> QED BY <2>1, <2>2, <2>3
<1>11. CASE dcache.state = "pmem"
  <2>1. IF arb_dresp(ToL2) /\ l = core.data.line
        THEN C1!Filled(dcache, core.data, dcache', core'.data, l, arb_drdata(ToL2))
        ELSE C1!Kept(dcache, core.data, dcache', core'.data, l)
    BY <1>6, <1>11, TheSizes, C1!PmemContents
  <2>2. below = FromL2(l)
    BY <1>4, <1>7, <1>11
  <2>3. CASE arb_dresp(ToL2) /\ l = core.data.line
    <3>1. /\ arb_drdata(ToL2) = FromL2(l) /\ C2!Has(l2, ToL2, l)
          /\ C2!Copy(l2, ToL2, l) = FromL2(l)
      BY <1>11, <2>3, FillData
    <3>2. arb_drdata(ToL2) \in LineWords
      BY <3>1 DEF NoJunk
    <3> QED BY <1>1, <1>2, <1>3, <1>9, <1>11, <2>1, <2>2, <2>3, <3>1, <3>2 DEF C1!Filled
  <2>4. CASE C1!Kept(dcache, core.data, dcache', core'.data, l)
    BY <1>1, <1>2, <1>3, <1>5, <1>9, <1>11, <2>2, <2>4 DEF C1!Kept
  <2> QED BY <2>1, <2>3, <2>4
<1>12. dcache.state \in {"rw", "write_back", "pmem"}
  BY DEF CachesOK, C1!CacheInv, C1!IsCache
<1> QED BY <1>8, <1>10, <1>11, <1>12

\* The instruction cache holds no line that is stored to.
LEMMA FetchStep ==
    ASSUME RegistersOK, CachesOK, Arbitrated, Bursting, Transferred, Coherent, NoJunk,
           NEW answers, Cycle(answers), CachesOK', NEW l \in Lines,
           C1!HasClean(icache', core'.fetch, l)
    PROVE  C1!Copy(icache', core'.fetch, l) = FromL2(l)'
<1>1. /\ C1!IsRequest(core.fetch, CodeLines, {})
      /\ C1!CacheInv(icache, core.fetch, CodeLines, {})
      /\ C1!CacheInv(icache', core'.fetch, CodeLines, {})
      /\ icache' = C1!Clocked(icache, core.fetch, arb_iresp(ToL2), arb_irdata(ToL2))
      /\ arb_iresp(ToL2) \in BOOLEAN /\ arb_irdata(ToL2) \in C1!LineData
      /\ icache'.state # "rw" => core'.fetch.line = core.fetch.line
      /\ l \in 0 .. NumLines - 1
  BY CoreRequests, CacheSteps, SteadyRequests DEF CachesOK, Lines, RegistersOK
<1>2. l \in CodeLines
  <2>1. C1!Has(icache', core'.fetch, l)
    BY DEF C1!HasClean, C1!HoldsClean, C1!Has
  <2> QED BY <1>1, <2>1, TheSizes, C1!HeldLines
<1>3. ~StoredInL2(l)
  BY <1>2, WrittenBack, TheSizes DEF StoredInL2
<1>4. PICK below : below = FromL2(l)'
  OBVIOUS
<1>5. below = FromL2(l)
  BY <1>3, <1>4, BelowStep
<1>6. /\ C1!HasClean(icache, core.fetch, l) => C1!Copy(icache, core.fetch, l) = FromL2(l)
      /\ C1!HasClean(icache, core.fetch, l) => C1!Has(icache, core.fetch, l)
  BY DEF Coherent, C1!HasClean, C1!HoldsClean, C1!Has
<1>7. CASE C1!Kept(icache, core.fetch, icache', core'.fetch, l)
  BY <1>4, <1>5, <1>6, <1>7 DEF C1!Kept
<1>8. CASE icache.state = "rw"
  <2>1. C1!Kept(icache, core.fetch, icache', core'.fetch, l)
          \/ C1!Dropped(icache, core.fetch, icache', core'.fetch, l)
    BY <1>1, <1>8, TheSizes, CoreRequests, C1!RwContents DEF RegistersOK
  <2> QED BY <1>7, <2>1 DEF C1!Dropped
<1>9. CASE icache.state = "pmem"
  <2>1. IF arb_iresp(ToL2) /\ l = core.fetch.line
        THEN C1!Filled(icache, core.fetch, icache', core'.fetch, l, arb_irdata(ToL2))
        ELSE C1!Kept(icache, core.fetch, icache', core'.fetch, l)
    BY <1>1, <1>9, TheSizes, C1!PmemContents
  <2>2. CASE arb_iresp(ToL2) /\ l = core.fetch.line
    BY <1>4, <1>5, <1>9, <2>1, <2>2, FillData DEF C1!Filled
  <2> QED BY <1>7, <2>1, <2>2
<1> QED BY <1>8, <1>9, ICacheReads

LEMMA DataInvStep ==
    ASSUME RegistersOK, CachesOK, Arbitrated, Bursting, Transferred, Coherent, NoJunk,
           NEW answers, Cycle(answers), CachesOK'
    PROVE  Coherent' /\ NoJunk'
<1>1. ASSUME NEW l \in Lines
      PROVE  /\ C2!HasClean(l2', ToL2', l) => C2!Copy(l2', ToL2', l) = memory'[l]
             /\ C1!HasClean(dcache', core'.data, l) =>
                   C1!Copy(dcache', core'.data, l) = FromL2(l)'
             /\ C1!HasClean(icache', core'.fetch, l) =>
                   C1!Copy(icache', core'.fetch, l) = FromL2(l)'
             /\ C2!Has(l2', ToL2', l) => C2!Copy(l2', ToL2', l) \in LineWords
             /\ C1!Has(dcache', core'.data, l) =>
                   C1!Copy(dcache', core'.data, l) \in LineWords
  BY BelowStep, DataStep, FetchStep
<1>2. Lines' = Lines
  BY DEF Lines
<1>3. Coherent'
  BY <1>1, <1>2 DEF Coherent
<1>4. NoJunk'
  BY <1>1, <1>2 DEF NoJunk
<1> QED BY <1>3, <1>4

---------------------------------------------------------------------------
(* The invariant *)

LEMMA InitInvariant ==
    ASSUME Init
    PROVE  IInv
<1>1. icache = C1!Reset /\ dcache = C1!Reset /\ l2 = C2!Reset
  BY SameL1, SameL2 DEF Init
<1>2. RegistersOK
  <2>1. JunkLine \in LineData
    BY DEF JunkLine, LineData
  <2>2. memory \in [Lines -> LineWords]
    <3>1. \A line \in Lines : [b \in Beats |-> <<line, b, InitVal>>] \in LineWords
      BY DEF LineWords, Words
    <3> QED BY <3>1 DEF Init
  <2>3. cad = [state |-> "reset", line_o |-> JunkLine] /\ burst = [busy |-> FALSE, beat |-> 0]
    BY DEF Init
  <2>4. core \in Requests /\ arb = "idle" /\ prefetch_address = 0
    BY DEF Init
  <2> QED BY <2>1, <2>2, <2>3, <2>4, TheSizes DEF RegistersOK
<1>3. CachesOK
  BY <1>1, TheSizes, C1!CacheInvInit, C2!CacheInvInit DEF CachesOK
<1>4. l2.state = "rw" /\ icache.state = "rw" /\ dcache.state = "rw"
  BY <1>1 DEF C1!Reset, C2!Reset
<1>5. Arbitrated
  BY <1>4 DEF Arbitrated, Init
<1>6. cad.state = "reset" /\ ~burst.busy /\ burst.beat = 0
  BY DEF Init
<1>7. Bursting
  BY <1>6, StatesDiffer DEF Bursting
<1>8. Transferred
  BY <1>6, StatesDiffer DEF Transferred
<1>9. \A l \in Lines : /\ ~C2!Has(l2, ToL2, l) /\ ~C2!HasClean(l2, ToL2, l)
                       /\ ~C1!Has(dcache, core.data, l) /\ ~C1!HasClean(dcache, core.data, l)
                       /\ ~C1!HasClean(icache, core.fetch, l)
  BY <1>1, TheSizes, C1!EmptyContents, C2!EmptyContents DEF Lines
<1>10. Coherent /\ NoJunk
  BY <1>9 DEF Coherent, NoJunk
<1> QED BY <1>2, <1>3, <1>5, <1>7, <1>8, <1>10 DEF IInv

\* Every register is the same, and so is every wire.
LEMMA StutterInvariant ==
    ASSUME IInv, UNCHANGED vars
    PROVE  IInv'
<1>1. /\ core' = core /\ icache' = icache /\ dcache' = dcache /\ l2' = l2 /\ arb' = arb
      /\ prefetch_address' = prefetch_address /\ cad' = cad /\ memory' = memory
      /\ burst' = burst
  BY DEF vars
<1>2. ToL2' = ToL2
  BY <1>1 DEF ToL2, ICacheAsks, DCacheAsks
<1>3. ToCad' = ToCad /\ address_o' = address_o
  BY <1>1, <1>2 DEF ToCad, address_o
<1>4. RegistersOK' /\ CachesOK' /\ Arbitrated' /\ Bursting' /\ Transferred'
  BY <1>1, <1>2, <1>3 DEF IInv, RegistersOK, CachesOK, Arbitrated, Bursting, Transferred
<1>5. Coherent' /\ NoJunk'
  BY <1>1, <1>2 DEF IInv, Coherent, NoJunk, FromL2
<1> QED BY <1>4, <1>5 DEF IInv

LEMMA StepInvariant ==
    ASSUME IInv, [Next]_vars
    PROVE  IInv'
<1>1. ASSUME NEW answers, Cycle(answers)
      PROVE  IInv'
  <2>1. RegistersOK'
    BY <1>1, RegistersStep DEF IInv
  <2>2. CachesOK'
    BY <1>1, <2>1, CachesStep DEF IInv
  <2>3. Arbitrated' /\ Bursting' /\ Transferred'
    BY <1>1, ArbitratedStep, BurstingStep, TransferredStep DEF IInv
  <2>4. Coherent' /\ NoJunk'
    BY <1>1, <2>2, DataInvStep DEF IInv
  <2> QED BY <2>1, <2>2, <2>3, <2>4 DEF IInv
<1> QED BY <1>1, StutterInvariant DEF Next

\* IInv is an invariant of the hierarchy.
THEOREM Inductive == Spec => []IInv
<1> QED BY InitInvariant, StepInvariant, PTL DEF Spec

---------------------------------------------------------------------------
(* The properties of MemoryHierarchy *)

LEMMA InvariantTypeOK ==
    ASSUME IInv
    PROVE  TypeOK
<1>1. C1!IsCache(icache) /\ C1!IsCache(dcache) /\ C2!IsCache(l2)
  BY DEF IInv, CachesOK, C1!CacheInv, C2!CacheInv
<1>2. L1!IsCache(icache) /\ L1!IsCache(dcache) /\ L2!IsCache(l2)
  BY <1>1, SameL1, SameL2
<1> QED BY <1>2 DEF IInv, RegistersOK, TypeOK, LineWords, LineData

\* Every register of the caches, the arbiter, the adaptor and the memory holds
\* what it is declared to hold.
THEOREM Types == Spec => []TypeOK
<1> QED BY Inductive, InvariantTypeOK, PTL

LEMMA InvariantInvalidWayFirst ==
    ASSUME IInv
    PROVE  InvalidWayFirst
<1>1. C1!InvalidWayNext(icache) /\ C1!InvalidWayNext(dcache) /\ C2!InvalidWayNext(l2)
  BY DEF IInv, CachesOK, C1!CacheInv, C2!CacheInv
<1> QED BY <1>1, SameL1, SameL2 DEF InvalidWayFirst

\* A miss that does not look at the dirty bits of its set overwrites no dirty
\* way, in caches of any number of sets.
THEOREM InvalidWays == Spec => []InvalidWayFirst
<1> QED BY Inductive, InvariantInvalidWayFirst, PTL

LEMMA StepBurstSteady ==
    ASSUME IInv, [Next]_vars, burst.busy, burst'.busy
    PROVE  read_o' = read_o /\ write_o' = write_o /\ address_o' = address_o
<1>1. CASE UNCHANGED vars
  BY <1>1 DEF vars, read_o, write_o, address_o, ToCad, ToL2, ICacheAsks, DCacheAsks
<1>2. ASSUME NEW answers, Cycle(answers)
      PROVE  read_o' = read_o /\ write_o' = write_o /\ address_o' = address_o
  <2>1. RegistersOK /\ CachesOK /\ Arbitrated /\ Bursting
    BY DEF IInv
  <2>2. RegistersOK' /\ Bursting'
    BY StepInvariant DEF IInv
  <2>3. PICK n \in Beats : cad.state = Reading[n] \/ cad.state = Writing[n]
    BY <2>1, CadCases DEF Bursting
  <2>4. PICK m \in Beats : cad'.state = Reading[m] \/ cad'.state = Writing[m]
    <3>1. cad'.state \notin {"idle", "reset", "readDone", "writeDone"}
      BY <2>2 DEF Bursting
    <3> QED BY <2>2, <3>1 DEF RegistersOK
  <2>5. l2.state # "rw" /\ ~cad_resp
    BY <2>1, <2>3, StatesDiffer DEF Bursting, cad_resp
  <2>6. address_o' = address_o /\ l2'.state = l2.state
    BY <1>2, <2>1, <2>5, SteadyToCad DEF address_o
  <2>7. CASE cad.state = Reading[n]
    <3>1. l2.state = "pmem" /\ l2'.state = "pmem"
      BY <2>1, <2>6, <2>7 DEF Bursting
    <3>2. cad'.state = Reading[m]
      BY <2>2, <2>4, <3>1 DEF Bursting
    <3>3. read_o /\ ~write_o
      BY <2>1, <2>7, AdaptorWires
    <3>4. read_o' /\ ~write_o'
      BY <3>2, StatesDiffer DEF read_o, write_o
    <3> QED BY <2>6, <3>3, <3>4 DEF read_o, write_o
  <2>8. CASE cad.state = Writing[n]
    <3>1. l2.state = "write_back" /\ l2'.state = "write_back"
      BY <2>1, <2>6, <2>8 DEF Bursting
    <3>2. cad'.state = Writing[m]
      BY <2>2, <2>4, <3>1 DEF Bursting
    <3>3. ~read_o /\ write_o
      BY <2>1, <2>8, AdaptorWires
    <3>4. ~read_o' /\ write_o'
      BY <3>2, StatesDiffer DEF read_o, write_o
    <3> QED BY <2>6, <3>3, <3>4 DEF read_o, write_o
  <2> QED BY <2>3, <2>7, <2>8
<1> QED BY <1>1, <1>2 DEF Next

\* A burst once begun keeps its direction and address until its last beat: the
\* steady assertions of the burst memory hold.
THEOREM SteadyBursts == Spec => BurstSteady
<1>1. IInv /\ [Next]_vars =>
        [burst.busy /\ burst'.busy => /\ read_o' = read_o
                                      /\ write_o' = write_o
                                      /\ address_o' = address_o]_vars
  BY StepBurstSteady
<1> QED BY <1>1, Inductive, PTL DEF Spec, BurstSteady

\* The lines as the properties speak of them.
LEMMA LinesBelow ==
    ASSUME NEW line
    PROVE  BelowL1(ToL2, line) = FromL2(line)
<1>1. L2!Holds(l2, ToL2, line) = C2!Holds(l2, ToL2, line)
  BY SameL2
<1>2. \A w : L2!Data(l2, line, w) = C2!Data(l2, line, w)
  BY SameL2
<1> QED BY <1>1, <1>2 DEF BelowL1, FromL2, C2!Has, C2!Copy

LEMMA ProgramLinesAreLines == ProgramLines \subseteq Lines
BY TheSizes DEF ProgramLines

LEMMA InvariantCleanCopiesAgree ==
    ASSUME IInv
    PROVE  CleanCopiesAgree
<1> SUFFICES ASSUME NEW line \in ProgramLines
             PROVE  /\ \A w \in L2!HoldsClean(l2, ToL2, line) :
                          L2!Data(l2, line, w) = memory[line]
                    /\ \A w \in L1!HoldsClean(dcache, core.data, line) :
                          L1!Data(dcache, line, w) = BelowL1(ToL2, line)
                    /\ \A w \in L1!HoldsClean(icache, core.fetch, line) :
                          L1!Data(icache, line, w) = BelowL1(ToL2, line)
  BY DEF CleanCopiesAgree
<1>1. line \in Lines /\ line \in 0 .. NumLines - 1
  BY ProgramLinesAreLines DEF Lines
<1>2. /\ C1!CacheInv(icache, core.fetch, CodeLines, {})
      /\ C1!CacheInv(dcache, core.data, DataLines, StoreLines)
      /\ C2!CacheInv(l2, ToL2, Lines, Lines)
  BY DEF IInv, CachesOK
<1>3. ASSUME NEW w \in L2!HoldsClean(l2, ToL2, line)
      PROVE  L2!Data(l2, line, w) = memory[line]
  <2>1. w \in C2!HoldsClean(l2, ToL2, line)
    BY SameL2
  <2>2. w \in C2!Holds(l2, ToL2, line) /\ C2!HasClean(l2, ToL2, line)
    BY <2>1 DEF C2!HoldsClean, C2!HasClean
  <2>3. C2!Copy(l2, ToL2, line) = C2!Data(l2, line, w)
    BY <1>1, <1>2, <2>2, TheSizes, C2!OneWay
  <2> QED BY <1>1, <2>2, <2>3, SameL2 DEF IInv, Coherent
<1>4. ASSUME NEW w \in L1!HoldsClean(dcache, core.data, line)
      PROVE  L1!Data(dcache, line, w) = BelowL1(ToL2, line)
  <2>1. w \in C1!HoldsClean(dcache, core.data, line)
    BY SameL1
  <2>2. w \in C1!Holds(dcache, core.data, line) /\ C1!HasClean(dcache, core.data, line)
    BY <2>1 DEF C1!HoldsClean, C1!HasClean
  <2>3. C1!Copy(dcache, core.data, line) = C1!Data(dcache, line, w)
    BY <1>1, <1>2, <2>2, TheSizes, C1!OneWay
  <2> QED BY <1>1, <2>2, <2>3, SameL1, LinesBelow DEF IInv, Coherent
<1>5. ASSUME NEW w \in L1!HoldsClean(icache, core.fetch, line)
      PROVE  L1!Data(icache, line, w) = BelowL1(ToL2, line)
  <2>1. w \in C1!HoldsClean(icache, core.fetch, line)
    BY SameL1
  <2>2. w \in C1!Holds(icache, core.fetch, line) /\ C1!HasClean(icache, core.fetch, line)
    BY <2>1 DEF C1!HoldsClean, C1!HasClean
  <2>3. C1!Copy(icache, core.fetch, line) = C1!Data(icache, line, w)
    BY <1>1, <1>2, <2>2, TheSizes, C1!OneWay
  <2> QED BY <1>1, <2>2, <2>3, SameL1, LinesBelow DEF IInv, Coherent
<1> QED BY <1>3, <1>4, <1>5

\* A clean copy may be dropped: the level below has the same line, whatever
\* the order of fills, write-backs and prefetches.
THEOREM CleanCopies == Spec => []CleanCopiesAgree
<1> QED BY Inductive, InvariantCleanCopiesAgree, PTL

---------------------------------------------------------------------------
(* The hierarchy implements one memory *)

CurrentOK == Current = [line \in ProgramLines |-> Newest(line)]

LEMMA CurrentIsNewest == CurrentOK
<1>1. ASSUME NEW line
      PROVE  (IF L1!Holds(dcache, core.data, line) = {} THEN BelowL1(ToL2, line)
              ELSE L1!Data(dcache, line, CHOOSE w \in L1!Holds(dcache, core.data, line) : TRUE))
                = Newest(line)
  <2>1. L1!Holds(dcache, core.data, line) = C1!Holds(dcache, core.data, line)
    BY SameL1
  <2>2. \A w : L1!Data(dcache, line, w) = C1!Data(dcache, line, w)
    BY SameL1
  <2> QED BY <2>1, <2>2, LinesBelow DEF Newest, C1!Has, C1!Copy
<1> QED BY <1>1 DEF Current, CurrentOK

LEMMA NewestIsALine ==
    ASSUME IInv, NEW line \in Lines
    PROVE  Newest(line) \in LineWords
BY DEF IInv, NoJunk, RegistersOK, Newest, FromL2

\* A line that is not stored to is the same everywhere.
LEMMA CodeIsBelow ==
    ASSUME IInv, NEW line \in CodeLines
    PROVE  Newest(line) = FromL2(line)
<1>1. line \in 0 .. NumLines - 1 /\ line \in Lines /\ line \notin StoreLines
  BY TheSizes DEF Lines
<1>2. C1!CacheInv(dcache, core.data, DataLines, StoreLines)
  BY DEF IInv, CachesOK
<1>3. C1!Has(dcache, core.data, line) => C1!HasClean(dcache, core.data, line)
  BY <1>1, <1>2, TheSizes, C1!HeldLines
<1> QED BY <1>1, <1>3 DEF IInv, Coherent, Newest

\* What the pipeline gets, as ImplementsMemory has it.
Reply ==
    IF Stall THEN None
    ELSE [inst |-> L1!RData(icache, core.fetch),
          data |-> IF core.data.read THEN L1!RData(dcache, core.data) ELSE None]

ReplyOK ==
    IF Stall THEN Reply = None
    ELSE Reply = Abstract!Answer(Current, core) /\ Reply # None

LEMMA InvariantReplyOK ==
    ASSUME IInv
    PROVE  ReplyOK
<1> SUFFICES ASSUME ~Stall
             PROVE  Reply = Abstract!Answer(Current, core) /\ Reply # None
  BY DEF ReplyOK, Reply
<1> DEFINE inst == L1!RData(icache, core.fetch)
           data == IF core.data.read THEN L1!RData(dcache, core.data) ELSE None
<1>0. /\ C1!IsRequest(core.fetch, CodeLines, {})
      /\ C1!IsRequest(core.data, DataLines, StoreLines)
      /\ C1!CacheInv(icache, core.fetch, CodeLines, {})
      /\ C1!CacheInv(dcache, core.data, DataLines, StoreLines)
      /\ core.fetch.line \in CodeLines
  BY CoreRequests DEF IInv, RegistersOK, CachesOK
<1>1. inst = Newest(core.fetch.line) /\ core.fetch.line \in ProgramLines
  <2>1. C1!Resp(icache, core.fetch) /\ inst = C1!RData(icache, core.fetch)
    BY SameL1 DEF Stall
  <2>2. /\ C1!Has(icache, core.fetch, core.fetch.line)
        /\ inst = C1!Copy(icache, core.fetch, core.fetch.line)
    BY <1>0, <2>1, TheSizes, C1!Answers
  <2>3. core.fetch.line \in 0 .. NumLines - 1 /\ core.fetch.line \in Lines
    BY <1>0, TheSizes DEF Lines
  <2>4. C1!HasClean(icache, core.fetch, core.fetch.line)
    BY <1>0, <2>2, <2>3, TheSizes, C1!HeldLines
  <2>5. inst = FromL2(core.fetch.line)
    BY <2>2, <2>3, <2>4 DEF IInv, Coherent
  <2> QED BY <1>0, <2>5, CodeIsBelow DEF ProgramLines
<1>2. ASSUME core.data.read
      PROVE  data = Newest(core.data.line) /\ core.data.line \in ProgramLines
  <2>1. C1!Resp(dcache, core.data) /\ data = C1!RData(dcache, core.data)
    BY <1>2, SameL1 DEF Stall, L1!Asks
  <2>2. /\ C1!Has(dcache, core.data, core.data.line)
        /\ data = C1!Copy(dcache, core.data, core.data.line)
    BY <1>0, <2>1, TheSizes, C1!Answers
  <2>3. core.data.line \in DataLines
    BY <1>0, <1>2 DEF C1!IsRequest, C1!Asks
  <2> QED BY <2>2, <2>3 DEF Newest, ProgramLines
<1>3. Current[core.fetch.line] = inst
  BY <1>1, CurrentIsNewest DEF CurrentOK
<1>4. core.data.read => Current[core.data.line] = data
  BY <1>2, CurrentIsNewest DEF CurrentOK
<1>5. inst \in [Beats -> Words] /\ data \in [Beats -> Words] \cup {None}
  <2>1. inst \in LineWords
    BY <1>1, ProgramLinesAreLines, NewestIsALine
  <2>2. CASE core.data.read
    <3>1. data \in LineWords
      BY <1>2, <2>2, ProgramLinesAreLines, NewestIsALine
    <3> QED BY <2>1, <3>1 DEF LineWords
  <2>3. CASE ~core.data.read
    BY <2>1, <2>3 DEF LineWords
  <2> QED BY <2>2, <2>3
<1>6. Reply = [inst |-> inst, data |-> data]
  BY DEF Reply
<1>7. Reply # None
  <2> HIDE DEF inst, data
  <2> QED BY <1>5, <1>6, NoneAssumption
<1>8. data = IF core.data.read THEN Current[core.data.line] ELSE None
  BY <1>4
<1> QED BY <1>3, <1>6, <1>7, <1>8 DEF Abstract!Answer

\* A cycle changes what the processor sees by the store of the request only.
LEMMA CurrentStep ==
    ASSUME IInv, IInv', CurrentOK', NEW answers, Cycle(answers)
    PROVE  Current' = IF C1!Resp(dcache, core.data) /\ core.data.write
                      THEN Abstract!Apply(Current, core) ELSE Current
<1>1. CachesOK'
  BY DEF IInv
<1>2. \A l \in ProgramLines :
         Newest(l)' = IF Stores(l) THEN C1!Merged(core.data, Newest(l)) ELSE Newest(l)
  BY <1>1, ProgramLinesAreLines, DataStep DEF IInv
<1>3. Current' = [l \in ProgramLines |-> Newest(l)']
  BY DEF CurrentOK, ProgramLines
<1>4. Current = [l \in ProgramLines |-> Newest(l)]
  BY CurrentIsNewest DEF CurrentOK
<1>5. CASE ~(C1!Resp(dcache, core.data) /\ core.data.write)
  BY <1>2, <1>3, <1>4, <1>5 DEF Stores
<1>6. CASE C1!Resp(dcache, core.data) /\ core.data.write
  <2>1. PICK k : k = core.data.line
    OBVIOUS
  <2>2. k \in ProgramLines
    <3>1. C1!IsRequest(core.data, DataLines, StoreLines)
      BY CoreRequests DEF IInv, RegistersOK
    <3> QED BY <1>6, <2>1, <3>1, TheSizes DEF C1!IsRequest, ProgramLines
  <2>3. Newest(k) \in LineWords
    BY <2>2, ProgramLinesAreLines, NewestIsALine
  <2>4. C1!Merged(core.data, Newest(k))
          = [b \in DOMAIN Newest(k) |-> IF b \in core.data.mbe THEN core.data.wdata[b]
                                        ELSE Newest(k)[b]]
    BY <1>6, <2>3 DEF C1!Merged, LineWords
  <2>5. Current[k] = Newest(k)
    BY <1>4, <2>2
  <2>6. Abstract!Apply(Current, core) = [Current EXCEPT ![k] = C1!Merged(core.data, Newest(k))]
    BY <1>6, <2>1, <2>4, <2>5 DEF Abstract!Apply
  <2>7. \A l \in ProgramLines : Stores(l) <=> l = k
    BY <1>6, <2>1 DEF Stores
  <2>8. Current' = [Current EXCEPT ![k] = C1!Merged(core.data, Newest(k))]
    BY <1>2, <1>3, <1>4, <2>2, <2>7
  <2> QED BY <1>6, <2>6, <2>8
<1> QED BY <1>5, <1>6

LEMMA InitImplements ==
    ASSUME Init
    PROVE  Abstract!Init
<1>1. IInv
  BY InitInvariant
<1>2. icache = C1!Reset /\ dcache = C1!Reset /\ l2 = C2!Reset
  BY SameL1, SameL2 DEF Init
<1>3. \A l \in Lines : ~C2!Has(l2, ToL2, l) /\ ~C1!Has(dcache, core.data, l)
  BY <1>2, TheSizes, C1!EmptyContents, C2!EmptyContents DEF Lines
<1>4. \A l \in ProgramLines : Newest(l) = [b \in Beats |-> <<l, b, InitVal>>]
  BY <1>3, ProgramLinesAreLines DEF Newest, FromL2, Init
<1>5. Current = [l \in ProgramLines |-> [b \in Beats |-> <<l, b, InitVal>>]]
  BY <1>4, CurrentIsNewest DEF CurrentOK
<1>6. Stall
  <2>1. core.fetch.line \in 0 .. NumLines - 1
    BY <1>1, CoreRequests, TheSizes DEF IInv, RegistersOK, Lines
  <2>2. ~C1!Has(icache, core.fetch, core.fetch.line)
    BY <1>2, <2>1, TheSizes, C1!EmptyContents
  <2>3. ~C1!Resp(icache, core.fetch)
    <3>1. /\ C1!IsRequest(core.fetch, CodeLines, {})
          /\ C1!CacheInv(icache, core.fetch, CodeLines, {})
      BY <1>1, CoreRequests DEF IInv, RegistersOK, CachesOK
    <3> QED BY <2>2, <3>1, TheSizes, C1!Answers
  <2> QED BY <2>3, SameL1 DEF Stall
<1> QED BY <1>5, <1>6 DEF Abstract!Init, Init

LEMMA StepImplements ==
    ASSUME IInv, IInv', CurrentOK', ReplyOK, ReplyOK', [Next]_vars
    PROVE  [Abstract!Next]_(Abstract!vars)
<1>1. CASE UNCHANGED vars
  <2>1. /\ core' = core /\ icache' = icache /\ dcache' = dcache /\ l2' = l2 /\ arb' = arb
        /\ prefetch_address' = prefetch_address /\ memory' = memory
    BY <1>1 DEF vars
  <2>2. ToL2' = ToL2
    BY <2>1 DEF ToL2, ICacheAsks, DCacheAsks
  <2>3. Current' = Current
    BY <2>1, <2>2 DEF Current, BelowL1
  <2>4. Reply' = Reply
    BY <2>1 DEF Reply, Stall
  <2> QED BY <2>1, <2>3, <2>4 DEF Abstract!vars, Reply
<1>2. ASSUME NEW answers, Cycle(answers)
      PROVE  Abstract!Next
  <2>1. Reply' \in {None, Abstract!Answer(Current', core')}
    BY DEF ReplyOK, Abstract!Answer
  <2>2. Current' = IF C1!Resp(dcache, core.data) /\ core.data.write
                   THEN Abstract!Apply(Current, core) ELSE Current
    BY <1>2, CurrentStep
  <2>3. CASE Stall
    <3>1. core' = core
      BY <1>2, <2>3 DEF Cycle
    <3>2. Reply = None
      BY <2>3 DEF ReplyOK
    <3>3. Current' \in {Current, Abstract!Apply(Current, core)}
      BY <2>2
    <3>4. Abstract!Work
      BY <2>1, <3>1, <3>2, <3>3 DEF Abstract!Work, Reply
    <3> QED BY <3>4 DEF Abstract!Next
  <2>4. CASE ~Stall
    <3>1. core' \in Requests
      BY <1>2, CacheSteps DEF IInv
    <3>2. Reply # None
      BY <2>4 DEF ReplyOK
    <3>3. Current' = Abstract!Apply(Current, core)
      <4>1. core.data.write => C1!Resp(dcache, core.data)
        BY <2>4, SameL1 DEF Stall, L1!Asks
      <4>2. ~core.data.write => Abstract!Apply(Current, core) = Current
        BY DEF Abstract!Apply
      <4> QED BY <2>2, <4>1, <4>2
    <3>4. Abstract!Complete
      BY <2>1, <3>1, <3>2, <3>3 DEF Abstract!Complete, Reply
    <3> QED BY <3>4 DEF Abstract!Next
  <2> QED BY <2>3, <2>4
<1> QED BY <1>1, <1>2 DEF Next

\* The pipeline sees one memory, which nothing but its stores changes.
THEOREM Implementation == Spec => ImplementsMemory
<1>1. Init => Abstract!Init
  BY InitImplements
<1>2. IInv => ReplyOK
  BY InvariantReplyOK
<1>3. CurrentOK
  BY CurrentIsNewest
<1>4. IInv /\ IInv' /\ CurrentOK' /\ ReplyOK /\ ReplyOK' /\ [Next]_vars
         => [Abstract!Next]_(Abstract!vars)
  BY StepImplements
<1> QED BY <1>1, <1>2, <1>3, <1>4, Inductive, PTL DEF Spec, ImplementsMemory, Abstract!Spec

---------------------------------------------------------------------------
(* How long the pipeline waits *)

\* The cycles until the adaptor and then the L2 cache answer, the waits of the
\* memory apart.
CadLeft == IF burst.busy THEN 6 - burst.beat ELSE IF cad_resp THEN 1 ELSE 7
L2Left ==
    CASE l2.state = "rw"         -> IF C2!Resp(l2, ToL2) THEN 1 ELSE 16
      [] l2.state = "write_back" -> CadLeft + 8
      [] l2.state = "pmem"       -> CadLeft + 1

\* The accesses of the L2 cache that the L1 caches need to answer.
ICacheNeeds == IF C1!Resp(icache, core.fetch) THEN 0 ELSE 1
DCacheNeeds ==
    IF C1!Resp(dcache, core.data) \/ ~C1!Asks(core.data) THEN 0
    ELSE IF dcache.state = "pmem" THEN 1 ELSE 2
Needs == ICacheNeeds + DCacheNeeds

\* The first cycle of the requests.
Starting == icache.state = "rw" /\ dcache.state = "rw"

\* The cycles until both caches answer: of the access that the L2 cache is in,
\* and 17 for each of the others, the cycle in between included.
Left ==
    CASE arb = "idle"     -> 17 * Needs + (IF Starting THEN 1 ELSE 0)
      [] arb = "prefetch" -> L2Left + 17 * Needs
      [] OTHER            -> L2Left + 17 * (Needs - 1)

\* The L1 caches miss together, and the adaptor is ready when the L2 cache does.
Together ==
    /\ icache.state = "rw" /\ ~C1!Resp(icache, core.fetch) => dcache.state = "rw"
    /\ dcache.state = "rw" /\ C1!Asks(core.data) /\ ~C1!Resp(dcache, core.data) =>
          icache.state = "rw"
    /\ cad.state = "reset" => l2.state = "rw"

Paced ==
    /\ Together
    /\ stalled \in 0 .. MaxStall
    /\ Stall => stalled + Left <= MaxStall
---------------------------------------------------------------------------
LEMMA CadRange == RegistersOK /\ Bursting => CadLeft \in 1 .. 7
<1> SUFFICES ASSUME RegistersOK, Bursting PROVE CadLeft \in 1 .. 7
  OBVIOUS
<1>1. burst.busy \in BOOLEAN /\ burst.beat \in 0 .. 4
  BY DEF RegistersOK
<1> QED BY <1>1 DEF CadLeft

LEMMA CadRangeNext == (RegistersOK /\ Bursting => CadLeft \in 1 .. 7)'
BY CadRange, PTL

LEMMA L2Range == RegistersOK /\ CachesOK /\ Bursting => L2Left \in 1 .. 16
<1> SUFFICES ASSUME RegistersOK, CachesOK, Bursting PROVE L2Left \in 1 .. 16
  OBVIOUS
<1>1. l2.state \in {"rw", "write_back", "pmem"}
  BY DEF CachesOK, C2!CacheInv, C2!IsCache
<1> QED BY <1>1, CadRange DEF L2Left

LEMMA L2RangeNext == (RegistersOK /\ CachesOK /\ Bursting => L2Left \in 1 .. 16)'
BY L2Range, PTL

\* The adaptor comes nearer to its answer, unless the memory waits.
LEMMA CadPace ==
    ASSUME RegistersOK, CachesOK, Arbitrated, Bursting, Bursting',
           NEW answers, Cycle(answers),
           l2.state # "rw", cad.state # "reset", ~cad_resp
    PROVE  CadLeft' = CadLeft - 1 \/ (Waits(answers) /\ CadLeft' = CadLeft)
<1>1. burst.busy \in BOOLEAN /\ burst.beat \in 0 .. 4
  BY DEF RegistersOK
<1>2. CASE cad.state = "idle"
  <2>1. ~burst.busy /\ burst.beat = 0
    BY <1>2 DEF Bursting
  <2>2. l2.state \in {"write_back", "pmem"}
    BY DEF CachesOK, C2!CacheInv, C2!IsCache
  <2>3. read_o \/ write_o
    BY <1>2, <2>2, AdaptorWires
  <2>4. burst'.busy /\ burst'.beat = 0
    BY <2>1, <2>3, BeatNext
  <2> QED BY <2>1, <2>4 DEF CadLeft
<1>3. ASSUME NEW n \in Beats, cad.state = Reading[n] \/ cad.state = Writing[n]
      PROVE  CadLeft' = CadLeft - 1 \/ (Waits(answers) /\ CadLeft' = CadLeft)
  <2>1. burst.busy /\ (burst.beat = n \/ (n = 1 /\ burst.beat = 0))
    BY <1>3 DEF Bursting
  <2>2. CadLeft = 6 - burst.beat
    BY <2>1 DEF CadLeft
  <2>3. CASE burst.beat = 4
    <3>1. n = 4
      BY <2>1, <2>3, BurstStates
    <3>2. resp_i
      BY <2>3 DEF resp_i, Beats
    <3>3. CadStateNext \in {"readDone", "writeDone"}
      BY <1>3, <3>1, CadNext, BurstStates
    <3>4. cad'.state \in {"readDone", "writeDone"}
      BY <3>3 DEF Cycle
    <3>5. ~burst'.busy
      BY <2>1, <2>3, BeatNext
    <3>6. cad_resp'
      BY <3>4 DEF cad_resp
    <3>7. CadLeft' = 1
      BY <3>5, <3>6 DEF CadLeft
    <3> QED BY <2>2, <2>3, <3>7
  <2>4. CASE burst.beat # 4
    <3>1. /\ burst'.busy
          /\ \/ burst'.beat = burst.beat + 1
             \/ burst.beat = 0 /\ burst'.beat = 0 /\ Waits(answers)
      BY <2>1, <2>4, BeatNext
    <3>2. CadLeft' = 6 - burst'.beat
      BY <3>1 DEF CadLeft
    <3> QED BY <1>1, <2>2, <3>1, <3>2
  <2> QED BY <2>3, <2>4
<1> QED BY <1>2, <1>3, CadCases DEF cad_resp

\* The L2 cache comes nearer to its answer.
LEMMA L2Pace ==
    ASSUME RegistersOK, CachesOK, Arbitrated, Bursting, Together,
           NEW answers, Cycle(answers), RegistersOK', CachesOK', Bursting',
           arb # "idle", ~L2!Resp(l2, ToL2)
    PROVE  L2Left' <= L2Left - 1 \/ (Waits(answers) /\ L2Left' <= L2Left)
<1>1. CadLeft \in 1 .. 7 /\ CadLeft' \in 1 .. 7
  BY CadRange, CadRangeNext
<1>2. C2!Asks(ToL2) /\ ~C2!Resp(l2, ToL2)
  BY ArbiterAsks
<1>3. l2.state \in {"rw", "write_back", "pmem"} /\ C2!CacheInv(l2, ToL2, Lines, Lines)
  BY DEF CachesOK, C2!CacheInv, C2!IsCache
<1>4. CASE l2.state = "rw"
  <2>1. l2'.state \in {"write_back", "pmem"}
    BY <1>2, <1>3, <1>4, TheSizes, BelowWires, CacheSteps, C2!MissStarts
  <2> QED BY <1>1, <1>2, <1>4, <2>1 DEF L2Left
<1>5. CASE l2.state # "rw" /\ ~cad_resp
  <2>1. l2'.state = l2.state
    BY <1>5, SteadyToCad
  <2>2. CadLeft' = CadLeft - 1 \/ (Waits(answers) /\ CadLeft' = CadLeft)
    BY <1>5, CadPace DEF Together
  <2> QED BY <1>1, <1>3, <1>5, <2>1, <2>2 DEF L2Left
<1>6. CASE l2.state = "write_back" /\ cad_resp
  <2>1. l2.state # "rw"
    BY <1>6
  <2>2. C2!Fills(l2')
    BY <1>3, <1>6, <2>1, TheSizes, BelowWires, CacheSteps, C2!WrittenThenFilled
  <2>3. l2'.state = "pmem"
    BY <2>2 DEF C2!Fills
  <2> QED BY <1>1, <1>6, <2>3 DEF L2Left
<1>7. CASE l2.state = "pmem" /\ cad_resp
  <2>1. C2!Resp(l2', ToL2)
    BY <1>3, <1>7, TheSizes, BelowWires, CacheSteps, C2!FilledAnswers
  <2>2. ToL2'.line = ToL2.line /\ C2!Asks(ToL2')
    BY <1>2, RepeatedL2
  <2>3. C2!Resp(l2', ToL2')
    BY <1>2, <2>1, <2>2, C2!SameAnswer
  <2>4. L2Left' = 1
    BY <2>3 DEF L2Left, C2!Resp
  <2>5. L2Left = CadLeft + 1
    BY <1>7 DEF L2Left
  <2> QED BY <1>1, <2>4, <2>5
<1> QED BY <1>3, <1>4, <1>5, <1>6, <1>7

\* An L1 cache that answers goes on answering, and one that was answered does.
LEMMA ICachePace ==
    ASSUME RegistersOK, CachesOK, Arbitrated, NEW answers, Cycle(answers), core' = core
    PROVE  /\ ICacheNeeds \in 0 .. 1 /\ ICacheNeeds' \in 0 .. 1
           /\ ICacheNeeds' <= ICacheNeeds
           /\ icache'.state = "rw" => C1!Resp(icache', core'.fetch)
           /\ icache.state # "rw" => ICacheNeeds = 1
           /\ arb_iresp(ToL2) => ICacheNeeds = 1 /\ ICacheNeeds' = 0
<1>1. /\ C1!CacheInv(icache, core.fetch, CodeLines, {}) /\ C1!Asks(core.fetch)
      /\ C1!IsRequest(core.fetch, CodeLines, {})
  BY CoreRequests DEF RegistersOK, CachesOK, C1!Asks
<1>2. C1!Resp(icache, core.fetch) => C1!Resp(icache', core'.fetch)
  BY <1>1, TheSizes, CacheSteps, C1!AnswersAgain
<1>3. icache.state = "rw" /\ ~C1!Resp(icache, core.fetch) => icache'.state # "rw"
  BY <1>1, TheSizes, CacheSteps, C1!MissStarts
<1>4. icache.state # "rw" /\ ~arb_iresp(ToL2) => icache'.state # "rw"
  BY SteadyICache
<1>5. arb_iresp(ToL2) => icache.state = "pmem"
  BY ICacheReads DEF arb_iresp, Arbitrated
<1>6. arb_iresp(ToL2) => C1!Resp(icache', core'.fetch)
  BY <1>1, <1>5, TheSizes, CacheSteps, C1!FilledAnswers
<1>7. icache.state # "rw" => ~C1!Resp(icache, core.fetch)
  BY DEF C1!Resp
<1> QED BY <1>2, <1>3, <1>4, <1>5, <1>6, <1>7 DEF ICacheNeeds

LEMMA DCachePace ==
    ASSUME RegistersOK, CachesOK, Arbitrated, NEW answers, Cycle(answers), core' = core
    PROVE  /\ DCacheNeeds \in 0 .. 2 /\ DCacheNeeds' \in 0 .. 2
           /\ DCacheNeeds' <= DCacheNeeds
           /\ dcache'.state = "rw" /\ C1!Asks(core'.data) => C1!Resp(dcache', core'.data)
           /\ dcache.state # "rw" => DCacheNeeds >= 1
           /\ arb_dresp(ToL2) => DCacheNeeds' = DCacheNeeds - 1
<1>1. /\ C1!CacheInv(dcache, core.data, DataLines, StoreLines)
      /\ C1!IsRequest(core.data, DataLines, StoreLines)
      /\ dcache.state \in {"rw", "write_back", "pmem"}
  BY CoreRequests DEF RegistersOK, CachesOK, C1!CacheInv, C1!IsCache
<1>2. C1!Resp(dcache, core.data) => C1!Resp(dcache', core'.data)
  BY <1>1, TheSizes, CacheSteps, C1!AnswersAgain
<1>3. dcache.state = "rw" /\ C1!Asks(core.data) /\ ~C1!Resp(dcache, core.data) =>
         dcache'.state \in {"write_back", "pmem"}
  BY <1>1, TheSizes, CacheSteps, C1!MissStarts
<1>4. dcache.state # "rw" /\ ~arb_dresp(ToL2) => dcache'.state = dcache.state
  BY SteadyDCache
<1>5. arb_dresp(ToL2) => dcache.state # "rw"
  BY DEF arb_dresp, Arbitrated
<1>6. arb_dresp(ToL2) /\ dcache.state = "pmem" => C1!Resp(dcache', core'.data)
  BY <1>1, TheSizes, CacheSteps, C1!FilledAnswers
<1>7. ASSUME arb_dresp(ToL2), dcache.state = "write_back"
      PROVE  dcache'.state = "pmem"
  <2>1. dcache.state # "rw"
    BY <1>7
  <2>2. C1!Fills(dcache')
    BY <1>1, <1>7, <2>1, TheSizes, CacheSteps, C1!WrittenThenFilled
  <2> QED BY <2>2 DEF C1!Fills
<1>8. dcache.state # "rw" => ~C1!Resp(dcache, core.data) /\ C1!Asks(core.data)
  BY <1>1 DEF C1!Resp, C1!CacheInv, C1!MissOK
<1>9. dcache'.state # "rw" => ~C1!Resp(dcache', core'.data)
  BY DEF C1!Resp
<1> QED BY <1>1, <1>2, <1>3, <1>4, <1>5, <1>6, <1>7, <1>8, <1>9 DEF DCacheNeeds

\* The pipeline waits for as long as a cache needs an access.
NeedsOK ==
    /\ Stall <=> Needs # 0
    /\ ICacheNeeds \in 0 .. 1 /\ DCacheNeeds \in 0 .. 2
    /\ ICacheNeeds = 0 <=> C1!Resp(icache, core.fetch)
    /\ DCacheNeeds = 0 <=> C1!Resp(dcache, core.data) \/ ~C1!Asks(core.data)

LEMMA StallNeeds == NeedsOK
<1>1. Stall <=> \/ ~C1!Resp(icache, core.fetch)
                \/ C1!Asks(core.data) /\ ~C1!Resp(dcache, core.data)
  <2>1. /\ C1!Resp(icache, core.fetch) <=> L1!Resp(icache, core.fetch)
        /\ C1!Resp(dcache, core.data) <=> L1!Resp(dcache, core.data)
        /\ C1!Asks(core.data) <=> L1!Asks(core.data)
    BY SameL1
  <2> QED BY <2>1 DEF Stall
<1>2. /\ ICacheNeeds \in 0 .. 1 /\ DCacheNeeds \in 0 .. 2
      /\ ICacheNeeds = 0 <=> C1!Resp(icache, core.fetch)
      /\ DCacheNeeds = 0 <=> C1!Resp(dcache, core.data) \/ ~C1!Asks(core.data)
  BY DEF ICacheNeeds, DCacheNeeds
<1>3. ICacheNeeds + DCacheNeeds = 0 <=> ICacheNeeds = 0 /\ DCacheNeeds = 0
  BY <1>2
<1>4. Stall <=> Needs # 0
  BY <1>1, <1>2, <1>3 DEF Needs
<1> QED BY <1>2, <1>4 DEF NeedsOK

LEMMA StallNeedsNext == NeedsOK'
BY StallNeeds, PTL

LEMMA TogetherStep ==
    ASSUME RegistersOK, CachesOK, Arbitrated, NEW answers, Cycle(answers)
    PROVE  Together'
<1>1. cad'.state # "reset"
  <2>1. CadStateNext # "reset"
    BY CadCases, CadNext, BurstStates DEF cad_resp
  <2> QED BY <2>1 DEF Cycle
<1>2. CASE core' = core
  <2>1. icache'.state = "rw" => C1!Resp(icache', core'.fetch)
    BY <1>2, ICachePace
  <2>2. dcache'.state = "rw" /\ C1!Asks(core'.data) => C1!Resp(dcache', core'.data)
    BY <1>2, DCachePace
  <2> QED BY <1>1, <2>1, <2>2 DEF Together
<1>3. CASE core' # core
  <2>1. icache'.state = "rw" /\ dcache'.state = "rw"
    BY <1>3, SteadyRequests
  <2> QED BY <1>1, <2>1 DEF Together
<1> QED BY <1>2, <1>3

\* What is left, in every state in which the pipeline waits.
LEMMA LeftRange == IInv /\ Stall => Left \in 1 .. 67
<1> SUFFICES ASSUME IInv, Stall PROVE Left \in 1 .. 67
  OBVIOUS
<1>1. Needs \in 1 .. 3
  BY StallNeeds DEF NeedsOK, Needs
<1>2. L2Left \in 1 .. 16
  BY L2Range DEF IInv
<1> QED BY <1>1, <1>2 DEF Left

LEMMA LeftRangeNext == (IInv /\ Stall => Left \in 1 .. 67)'
BY LeftRange, PTL

\* A cycle of waiting brings both answers nearer, unless the memory waits.
LEMMA LeftStep ==
    ASSUME RegistersOK, CachesOK, Arbitrated, Bursting, Together,
           NEW answers, Cycle(answers), RegistersOK', CachesOK', Bursting',
           core' = core, Stall, Stall'
    PROVE  Left' <= Left - 1 \/ (Waits(answers) /\ Left' <= Left)
<1>1. /\ Needs \in 1 .. 3 /\ Needs' \in 1 .. 3 /\ Needs' <= Needs
      /\ arb_iresp(ToL2) \/ arb_dresp(ToL2) => Needs' <= Needs - 1
  <2>1. ~(arb_iresp(ToL2) /\ arb_dresp(ToL2))
    BY DEF arb_iresp, arb_dresp
  <2>2. Needs # 0 /\ Needs' # 0
    BY StallNeeds, StallNeedsNext DEF NeedsOK
  <2> QED BY <2>1, <2>2, ICachePace, DCachePace DEF Needs
<1>2. ~Starting'
  <2>1. Needs' # 0 /\ NeedsOK'
    BY StallNeedsNext DEF NeedsOK
  <2>2. CASE ICacheNeeds' # 0
    <3>1. ~C1!Resp(icache', core'.fetch)
      BY <2>1, <2>2 DEF NeedsOK
    <3> QED BY <3>1, ICachePace DEF Starting
  <2>3. CASE DCacheNeeds' # 0
    <3>1. ~C1!Resp(dcache', core'.data) /\ C1!Asks(core'.data)
      BY <2>1, <2>3 DEF NeedsOK
    <3> QED BY <3>1, DCachePace DEF Starting
  <2> QED BY <2>1, <2>2, <2>3 DEF Needs
<1>3. L2Left \in 1 .. 16 /\ L2Left' \in 1 .. 16
  BY L2Range, L2RangeNext
<1>4. /\ ICacheAsks.read \/ ICacheAsks.write <=> icache.state # "rw"
      /\ DCacheAsks.read \/ DCacheAsks.write <=> dcache.state # "rw"
  BY ICacheReads DEF ICacheAsks, DCacheAsks, L1!Below, CachesOK, C1!CacheInv, C1!IsCache
<1>5. arb' = ArbNext(L2!Resp(l2, ToL2))
  BY DEF Cycle
<1>6. arb \in {"idle", "conflict", "ic_access", "dc_access", "prefetch"}
  BY DEF RegistersOK
<1>7. CASE arb = "idle" /\ Starting
  <2>1. arb' = "idle"
    BY <1>4, <1>5, <1>7 DEF ArbNext, Starting
  <2> QED BY <1>1, <1>2, <1>7, <2>1 DEF Left
<1>8. CASE arb = "idle" /\ ~Starting
  <2>1. arb' \in {"conflict", "ic_access", "dc_access"}
    BY <1>4, <1>5, <1>8 DEF ArbNext, Starting
  <2> QED BY <1>1, <1>3, <1>8, <2>1 DEF Left
<1>9. CASE arb # "idle" /\ ~L2!Resp(l2, ToL2)
  <2>1. arb' = arb
    BY <1>5, <1>9 DEF ArbNext
  <2>2. L2Left' <= L2Left - 1 \/ (Waits(answers) /\ L2Left' <= L2Left)
    BY <1>9, L2Pace
  <2> QED BY <1>1, <1>3, <1>6, <1>9, <2>1, <2>2 DEF Left
<1>10. L2!Resp(l2, ToL2) => L2Left = 1
  BY ArbiterAsks DEF L2Left
<1>11. CASE arb = "prefetch" /\ L2!Resp(l2, ToL2)
  <2>1. arb' = "idle"
    BY <1>5, <1>11 DEF ArbNext
  <2> QED BY <1>1, <1>2, <1>10, <1>11, <2>1 DEF Left
<1>12. ASSUME arb \in {"conflict", "ic_access", "dc_access"}, L2!Resp(l2, ToL2)
       PROVE  Left = 1 + 17 * (Needs - 1) /\ Needs' <= Needs - 1
  BY <1>1, <1>10, <1>12 DEF Left, arb_iresp, arb_dresp
<1>13. ASSUME arb \in {"conflict", "ic_access", "dc_access"}, L2!Resp(l2, ToL2)
       PROVE  arb' \in {"idle", "ic_access", "dc_access"}
  <2>1. CASE arb = "conflict"
    BY <1>5, <1>13, <2>1 DEF ArbNext
  <2>2. CASE arb = "ic_access"
    <3>1. dcache.state # "rw"
      <4>1. icache.state # "rw" /\ arb_iresp(ToL2)
        BY <1>13, <2>2 DEF Arbitrated, arb_iresp
      <4>2. ICacheNeeds' = 0 /\ DCacheNeeds' # 0
        BY <1>1, <4>1, ICachePace DEF Needs
      <4>3. DCacheNeeds # 0
        BY <4>2, DCachePace
      <4> QED BY <4>1, <4>3, StallNeeds DEF NeedsOK, Together
    <3> QED BY <1>4, <1>5, <1>13, <2>2, <3>1 DEF ArbNext
  <2>3. CASE arb = "dc_access"
    BY <1>5, <1>13, <2>3 DEF ArbNext
  <2> QED BY <1>13, <2>1, <2>2, <2>3
<1>14. CASE arb \in {"conflict", "ic_access", "dc_access"} /\ L2!Resp(l2, ToL2)
  BY <1>1, <1>2, <1>3, <1>12, <1>13, <1>14 DEF Left
<1> QED BY <1>6, <1>7, <1>8, <1>9, <1>11, <1>14

LEMMA PacedStep ==
    ASSUME IInv, Paced, Next, IInv'
    PROVE  Paced'
<1>1. PICK answers \in BOOLEAN : Cycle(answers)
  BY DEF Next
<1>2. Together'
  BY <1>1, TogetherStep DEF IInv
<1>3. stalled' = IF ~Stall THEN 0 ELSE IF Waits(answers) THEN stalled ELSE stalled + 1
  BY <1>1 DEF Cycle
<1>4. stalled \in 0 .. MaxStall /\ MaxStall = 70
  BY DEF Paced, MaxStall
<1>5. Stall' => Left' \in 1 .. 67
  BY LeftRangeNext
<1>6. CASE ~Stall
  BY <1>2, <1>3, <1>4, <1>5, <1>6 DEF Paced
<1>7. CASE Stall
  <2>1. Left \in 1 .. 67 /\ stalled + Left <= MaxStall
    BY <1>7, LeftRange DEF Paced
  <2>2. core' = core
    BY <1>1, <1>7 DEF Cycle
  <2>3. Stall' => Left' <= Left - 1 \/ (Waits(answers) /\ Left' <= Left)
    BY <1>1, <1>7, <2>2, LeftStep DEF IInv, Paced
  <2>4. stalled' \in 0 .. MaxStall
    BY <1>3, <1>4, <1>7, <2>1
  <2>5. Stall' => stalled' + Left' <= MaxStall
    BY <1>3, <1>4, <1>5, <1>7, <2>1, <2>3
  <2> QED BY <1>2, <2>4, <2>5 DEF Paced
<1> QED BY <1>6, <1>7

LEMMA PacedStutters ==
    ASSUME Paced, UNCHANGED vars
    PROVE  Paced'
<1>1. UNCHANGED <<core, icache, dcache, l2, arb, prefetch_address, cad, burst, stalled>>
  BY DEF vars
<1>2. ToL2' = ToL2
  BY <1>1 DEF ToL2, ICacheAsks, DCacheAsks
<1>3. Stall' = Stall
  BY <1>1 DEF Stall
<1>4. Left' = Left
  BY <1>1, <1>2 DEF Left, L2Left, CadLeft, cad_resp, Needs, ICacheNeeds, DCacheNeeds, Starting
<1> QED BY <1>1, <1>3, <1>4 DEF Paced, Together, MaxStall

LEMMA InitPaced ==
    ASSUME Init
    PROVE  Paced
<1>1. /\ icache.state = "rw" /\ dcache.state = "rw" /\ l2.state = "rw" /\ arb = "idle"
      /\ stalled = 0
  BY DEF Init, L1!Reset, L2!Reset
<1>2. Needs \in 0 .. 3
  BY StallNeeds DEF NeedsOK, Needs
<1>3. Left \in 0 .. 52
  BY <1>1, <1>2 DEF Left, Starting
<1> QED BY <1>1, <1>3 DEF Paced, Together, MaxStall

\* Both requests are answered within MaxStall cycles, the waits of the memory
\* apart, for caches and memories of any size, whatever misses, write-backs and
\* prefetches are in the way.
THEOREM AnswersInTime == Spec => []AnsweredInTime
<1>1. Init => Paced
  BY InitPaced
<1>2. IInv /\ IInv' /\ Paced /\ [Next]_vars => Paced'
  BY PacedStep, PacedStutters
<1>3. Paced => AnsweredInTime
  BY DEF Paced, AnsweredInTime, MaxStall
<1> QED BY <1>1, <1>2, <1>3, Inductive, PTL DEF Spec
---------------------------------------------------------------------------
(***************************************************************************)
(* The pipeline, which asks for what the caches answer, implements the     *)
(* sequential processor, for every word size, number of registers and set  *)
(* of instructions, on code without the sequences that Unforwarded names.  *)
(*                                                                         *)
(* An instruction is executed, for the sequential processor, when it       *)
(* leaves the memory stage.  So the invariant says what the stages before  *)
(* know at that moment: Computed, that the memory stage holds what the     *)
(* architectural registers give; Fetched, that an operand read in decode   *)
(* is right unless it is forwarded; Padded, that a result that is          *)
(* forwarded too early is not used; Chained, that each stage holds the     *)
(* successor of the one ahead; and NoLostJump, that a load hazard does not *)
(* hold the PC when a jump leaves.                                         *)
(***************************************************************************)
Loaded == Instrs \cup {Bubble}

\* Every stage holds an instruction of the program or a bubble.
StagesOK ==
    /\ if_id.instr \in Loaded /\ id_ex.instr \in Loaded
    /\ ex_mem.instr \in Loaded /\ mem_wb.instr \in Loaded
    /\ regfile = [r \in Regs |-> regfile[r]]

Jump(i) == i.op \in {"br", "jal", "jalr"}

\* The memory stage holds what its instruction computes from the registers as
\* the instructions before it leave them.
Computed ==
    LET i == ex_mem.instr
        a == Regfile(i.rs1)
        b == Regfile(i.rs2)
    IN  /\ i.op \notin {"none", "lui", "slti"} => ex_mem.alu_out = Alu(i, ex_mem.pc, a, b)
        /\ i.op \in {"br", "slti"} => (ex_mem.br_en <=> BrEn(i, a, b))
        /\ i.op = "store" => MemForward(i.rs2, ex_mem.rs2) = b

\* An operand read in decode is current unless writeback forwards it.
Fetched ==
    LET i == id_ex.instr IN
    /\ ~Forwards(mem_wb, i.rs1) => id_ex.rs1 = Regfile(i.rs1)
    /\ ~Forwards(mem_wb, i.rs2) => id_ex.rs2 = Regfile(i.rs2)

\* What the memory stage forwards to execute is the result, if it is used there.
Padded ==
    /\ ex_mem.instr.op \in {"lui", "slti", "load"} /\ ex_mem.instr.rd # 0 =>
          ~UsesInExecute(id_ex.instr, ex_mem.instr.rd)
    /\ id_ex.instr.op \in {"lui", "slti"} /\ id_ex.instr.rd # 0 =>
          ~UsesInExecute(if_id.instr, id_ex.instr.rd)
    /\ id_ex.instr.op = "load" /\ id_ex.instr.rd # 0 =>
          ~(if_id.instr.op = "load" /\ if_id.instr.rs1 = id_ex.instr.rd)

NoLostJump == Jump(ex_mem.instr) => ~Hazard

\* Stages hold instructions from successive addresses, with bubbles between them.
Chained ==
    LET afterDecode == IF if_id.instr # Bubble THEN if_id.pc ELSE pc
        afterExecute == IF id_ex.instr # Bubble THEN id_ex.pc ELSE afterDecode
    IN  /\ ex_mem.instr # Bubble => afterExecute = Plus(ex_mem.pc, 1)
        /\ id_ex.instr # Bubble => afterDecode = Plus(id_ex.pc, 1)
        /\ if_id.instr # Bubble => pc = Plus(if_id.pc, 1)

PipelineInv == StagesOK /\ Computed /\ Fetched /\ Padded /\ NoLostJump /\ Chained

---------------------------------------------------------------------------
\* A clock cycle in which both caches answer: every stage moves on, unless a
\* hazard holds fetch and decode or a jump empties the stages behind it.
Moves(instr, rdata) ==
    /\ pc' = IF Hazard THEN pc ELSE IF PcMuxSel THEN ex_mem.alu_out ELSE Plus(pc, 1)
    /\ if_id' = IF PcMuxSel THEN IfId0
                ELSE IF Hazard THEN if_id
                ELSE [pc |-> pc, instr |-> instr]
    /\ id_ex' = IF PcMuxSel \/ Hazard THEN IdEx0
                ELSE [pc |-> if_id.pc, instr |-> if_id.instr,
                      rs1 |-> Regfile(if_id.instr.rs1),
                      rs2 |-> Regfile(if_id.instr.rs2)]
    /\ ex_mem' = IF PcMuxSel THEN ExMem0 ELSE Execute
    /\ mem_wb' = [pc |-> ex_mem.pc, instr |-> ex_mem.instr, alu_out |-> ex_mem.alu_out,
                  br_en |-> ex_mem.br_en, mem |-> rdata]
    /\ regfile' = IF ~Forwards(mem_wb, mem_wb.instr.rd) THEN regfile
               ELSE [regfile EXCEPT ![mem_wb.instr.rd] = RegfileMux]
    /\ stored' = MemWData

\* A stalled cycle changes nothing; in any other, the stages move.
LEMMA StallOrMove ==
    ASSUME PipelineNext
    PROVE  \/ UNCHANGED pipeline_vars
           \/ \E instr \in Instrs, rdata \in DataRead :
                 Fetchable(instr) /\ Moves(instr, rdata)
<1>1. CASE Answered
  <2>1. PICK instr \in Instrs, rdata \in DataRead :
            Fetchable(instr) /\ Clock(TRUE, instr, TRUE, rdata)
    BY <1>1 DEF Answered
  <2>2. Moves(instr, rdata)
    BY <2>1 DEF Clock, Moves, Stalls, Squash, IdExReset
  <2> QED BY <2>1, <2>2
<1>2. ASSUME NEW inst_resp \in BOOLEAN, NEW data_resp \in BOOLEAN,
             Stalls(inst_resp, data_resp), Clock(inst_resp, Bubble, data_resp, 0)
      PROVE  UNCHANGED pipeline_vars
  BY <1>2 DEF Clock, Squash, IdExReset, pipeline_vars
<1> QED BY <1>1, <1>2 DEF PipelineNext

\* What an instruction or a bubble is, for the decoder.
LEMMA Decoded ==
    /\ Bubble \notin Instrs
    /\ \A i \in Loaded :
          /\ i.op \in {"none", "lui", "auipc", "jal", "jalr", "br", "load", "store",
                       "addi", "slti", "add"}
          /\ i.op = "none" <=> i = Bubble
          /\ {i.rd, i.rs1, i.rs2} \subseteq Regs
BY PipelineAssumption DEF Loaded, Bubble

\* The registers after the instruction in the memory stage.
LEMMA RegfileMoves ==
    ASSUME StagesOK, NEW instr, NEW rdata, Moves(instr, rdata), NEW r \in Regs
    PROVE  Regfile(r)' = IF Forwards(ex_mem, r) THEN RegfileMux' ELSE Regfile(r)
<1>1. mem_wb'.instr = ex_mem.instr
  BY DEF Moves
<1>2. CASE r = 0
  BY <1>2 DEF Regfile, Forwards
<1>3. CASE r # 0
  <2>1. LoadRegfile(mem_wb.instr) /\ r = mem_wb.instr.rd => regfile'[r] = RegfileMux
    BY <1>3 DEF Moves, StagesOK, Forwards
  <2>2. ~(LoadRegfile(mem_wb.instr) /\ r = mem_wb.instr.rd) => regfile'[r] = regfile[r]
    BY <1>3 DEF Moves, StagesOK, Forwards
  <2> QED BY <1>1, <1>3, <2>1, <2>2 DEF Regfile, Forwards, LoadRegfile
<1> QED BY <1>2, <1>3

LEMMA StagesStep ==
    ASSUME StagesOK, NEW instr \in Instrs, NEW rdata, Moves(instr, rdata)
    PROVE  StagesOK'
<1>1. Bubble \in Loaded /\ instr \in Loaded
  BY DEF Loaded
<1>2. if_id'.instr \in Loaded
  BY <1>1 DEF Moves, StagesOK, IfId0
<1>3. id_ex'.instr \in Loaded
  BY <1>1 DEF Moves, StagesOK, IdEx0
<1>4. ex_mem'.instr \in Loaded
  BY <1>1 DEF Moves, StagesOK, ExMem0, Execute
<1>5. mem_wb'.instr \in Loaded
  BY DEF Moves, StagesOK
<1>6. regfile' = [r \in Regs |-> regfile'[r]]
  BY DEF Moves, StagesOK
<1> QED BY <1>2, <1>3, <1>4, <1>5, <1>6 DEF StagesOK

\* The operand that execute uses is what the instruction in memory leaves in the
\* register, if that instruction's result is forwarded rightly.
LEMMA OperandCurrent ==
    ASSUME StagesOK, NEW instr, NEW rdata, Moves(instr, rdata),
           NEW r \in Regs, NEW value,
           ~Forwards(mem_wb, r) => value = Regfile(r),
           Forwards(ex_mem, r) => ex_mem.instr.op \in {"auipc", "addi", "add"}
    PROVE  ExForward(r, value) = Regfile(r)'
<1>1. CASE Forwards(ex_mem, r)
  <2>1. RegfileMux' = ex_mem.alu_out
    BY <1>1 DEF RegfileMux, Moves
  <2> QED BY <1>1, <2>1, RegfileMoves DEF ExForward
<1>2. CASE ~Forwards(ex_mem, r) /\ Forwards(mem_wb, r)
  <2>1. Regfile(r) = RegfileMux
    BY <1>2 DEF Regfile, Forwards
  <2> QED BY <1>2, <2>1, RegfileMoves DEF ExForward
<1>3. CASE ~Forwards(ex_mem, r) /\ ~Forwards(mem_wb, r)
  BY <1>3, RegfileMoves DEF ExForward
<1> QED BY <1>1, <1>2, <1>3

LEMMA ComputedStep ==
    ASSUME PipelineInv,
           NEW instr \in Instrs, NEW rdata, Moves(instr, rdata)
    PROVE  Computed'
<1>1. CASE PcMuxSel
  <2>1. ex_mem'.instr = Bubble
    BY <1>1 DEF Moves, ExMem0
  <2> QED BY <2>1 DEF Computed, Bubble
<1>2. CASE ~PcMuxSel
  <2>0. PICK i : i = id_ex.instr
    OBVIOUS
  <2> DEFINE a == ExForward(i.rs1, id_ex.rs1)
             b == ExForward(i.rs2, id_ex.rs2)
  <2>1. /\ ex_mem'.instr = i /\ ex_mem'.pc = id_ex.pc /\ ex_mem'.rs2 = b
        /\ ex_mem'.alu_out = Alu(i, id_ex.pc, a, b) /\ ex_mem'.br_en = BrEn(i, a, b)
    BY <1>2, <2>0 DEF Moves, Execute
  <2>2. i \in Loaded /\ ex_mem.instr \in Loaded /\ i.rs1 \in Regs /\ i.rs2 \in Regs
    BY <2>0, Decoded DEF PipelineInv, StagesOK
  <2>3. \A r \in Regs : UsesInExecute(i, r) /\ Forwards(ex_mem, r) =>
            ex_mem.instr.op \in {"auipc", "addi", "add"}
    BY <1>2, <2>0, <2>2, Decoded DEF PipelineInv, Padded, Forwards, LoadRegfile,
       PcMuxSel, AllowJmp
  <2>4. UsesInExecute(i, i.rs1) => a = Regfile(i.rs1)'
    BY <2>0, <2>2, <2>3, OperandCurrent DEF PipelineInv, Fetched
  <2>5. UsesInExecute(i, i.rs2) => b = Regfile(i.rs2)'
    BY <2>0, <2>2, <2>3, OperandCurrent DEF PipelineInv, Fetched
  <2> DEFINE p == Regfile(i.rs1)'
             q == Regfile(i.rs2)'
  <2> HIDE DEF a, b, p, q
  <2>6. i.op \notin {"none", "lui", "slti"} => Alu(i, id_ex.pc, a, b) = Alu(i, id_ex.pc, p, q)
    <3>1. i.op \in {"auipc", "jal", "br"} => Alu(i, id_ex.pc, a, b) = Alu(i, id_ex.pc, p, q)
      BY DEF Alu
    <3>2. i.op = "add" => a = p /\ b = q
      BY <2>4, <2>5 DEF UsesInExecute, p, q
    <3>3. i.op \in {"jalr", "load", "store", "addi"} => a = p
      BY <2>4 DEF UsesInExecute, p
    <3>4. i.op = "add" => Alu(i, id_ex.pc, a, b) = Alu(i, id_ex.pc, p, q)
      BY <3>2 DEF Alu
    <3>5. i.op \in {"jalr", "load", "store", "addi"} =>
              Alu(i, id_ex.pc, a, b) = Alu(i, id_ex.pc, p, q)
      BY <3>3 DEF Alu
    <3> QED BY <3>1, <3>4, <3>5, <2>2, Decoded
  <2>7. i.op \in {"br", "slti"} => (BrEn(i, a, b) <=> BrEn(i, p, q))
    <3>1. i.op = "br" => a = p /\ b = q
      BY <2>4, <2>5 DEF UsesInExecute, p, q
    <3>2. i.op = "slti" => a = p
      BY <2>4 DEF UsesInExecute, p
    <3> QED BY <3>1, <3>2 DEF BrEn
  <2>8. i.op = "store" => MemForward(i.rs2, ex_mem.rs2)' = q
    <3>1. MemForward(i.rs2, ex_mem.rs2)' = IF Forwards(mem_wb, i.rs2)' THEN RegfileMux' ELSE b
      BY <2>1 DEF MemForward
    <3>2. q = IF Forwards(ex_mem, i.rs2) THEN RegfileMux' ELSE Regfile(i.rs2)
      BY <2>2, RegfileMoves DEF q, PipelineInv
    <3>3. Forwards(mem_wb, i.rs2)' <=> Forwards(ex_mem, i.rs2)
      BY DEF Forwards, Moves
    <3>4. ~Forwards(ex_mem, i.rs2) => b = Regfile(i.rs2)
      BY <2>0 DEF b, ExForward, PipelineInv, Fetched, Regfile, Forwards
    <3> QED BY <3>1, <3>2, <3>3, <3>4
  <2> QED BY <2>1, <2>6, <2>7, <2>8 DEF Computed, p, q
<1> QED BY <1>1, <1>2

LEMMA FetchedStep ==
    ASSUME PipelineInv,
           NEW instr \in Instrs, NEW rdata, Moves(instr, rdata)
    PROVE  Fetched'
<1>1. CASE PcMuxSel \/ Hazard
  <2>1. id_ex' = IdEx0
    BY <1>1 DEF Moves
  <2> QED BY <2>1 DEF Fetched, IdEx0, Bubble, Regfile
<1>2. CASE ~(PcMuxSel \/ Hazard)
  <2>1. /\ id_ex'.instr = if_id.instr
        /\ id_ex'.rs1 = Regfile(if_id.instr.rs1) /\ id_ex'.rs2 = Regfile(if_id.instr.rs2)
    BY <1>2 DEF Moves
  <2>2. if_id.instr.rs1 \in Regs /\ if_id.instr.rs2 \in Regs
    BY Decoded DEF PipelineInv, StagesOK
  <2>3. \A r \in Regs : ~Forwards(mem_wb, r)' => Regfile(r)' = Regfile(r)
    <3>1. \A r \in Regs : Forwards(mem_wb, r)' <=> Forwards(ex_mem, r)
      BY DEF Forwards, Moves
    <3> QED BY <3>1, RegfileMoves DEF PipelineInv
  <2>4. \A r \in Regs : (~Forwards(mem_wb, r))' => Regfile(r)' = Regfile(r)
    BY <2>3
  <2> QED BY <2>1, <2>2, <2>4 DEF Fetched
<1> QED BY <1>1, <1>2

\* No sequence that the pipeline cannot forward, or that loses a jump, comes in.
LEMMA PaddedStep ==
    ASSUME PipelineInv, NEW instr \in Instrs, NEW rdata, Moves(instr, rdata),
           ~Unforwarded(instr, if_id.instr, id_ex.instr)
    PROVE  Padded' /\ NoLostJump'
<1>1. CASE PcMuxSel
  <2>1. ex_mem' = ExMem0 /\ id_ex' = IdEx0
    BY <1>1 DEF Moves
  <2> QED BY <2>1 DEF Padded, NoLostJump, Jump, ExMem0, IdEx0, Bubble
<1>2. CASE ~PcMuxSel /\ Hazard
  <2>1. id_ex' = IdEx0
    BY <1>2 DEF Moves
  <2> QED BY <2>1 DEF Padded, NoLostJump, Hazard, HazardDetector,
             UsesInExecute, IdEx0, Bubble
<1>3. CASE ~PcMuxSel /\ ~Hazard
  <2>1. /\ ex_mem'.instr = id_ex.instr /\ id_ex'.instr = if_id.instr
        /\ if_id'.instr = instr
    BY <1>3 DEF Moves, Execute
  <2>2. id_ex.instr.op \in {"lui", "slti", "load"} /\ id_ex.instr.rd # 0 =>
            ~UsesInExecute(if_id.instr, id_ex.instr.rd)
    BY <1>3 DEF PipelineInv, Padded, Hazard, HazardDetector, UsesInExecute
  <2>3. Padded'
    BY <2>1, <2>2 DEF Padded, Unforwarded
  <2>4. NoLostJump'
    BY <2>1 DEF NoLostJump, Hazard, Jump, Unforwarded
  <2> QED BY <2>3, <2>4
<1> QED BY <1>1, <1>2, <1>3

LEMMA ChainedStep ==
    ASSUME PipelineInv,
           NEW instr \in Instrs, NEW rdata, Moves(instr, rdata)
    PROVE  Chained'
<1>1. CASE PcMuxSel
  <2>1. ex_mem' = ExMem0 /\ id_ex' = IdEx0 /\ if_id' = IfId0
    BY <1>1 DEF Moves
  <2> QED BY <2>1 DEF Chained, ExMem0, IdEx0, IfId0
<1>2. CASE ~PcMuxSel /\ Hazard
  <2>1. /\ ex_mem'.instr = id_ex.instr /\ ex_mem'.pc = id_ex.pc
        /\ id_ex' = IdEx0 /\ if_id' = if_id /\ pc' = pc
    BY <1>2 DEF Moves, Execute
  <2> QED BY <2>1 DEF PipelineInv, Chained, IdEx0
<1>3. CASE ~PcMuxSel /\ ~Hazard
  <2>1. /\ ex_mem'.instr = id_ex.instr /\ ex_mem'.pc = id_ex.pc
        /\ id_ex'.instr = if_id.instr /\ id_ex'.pc = if_id.pc
        /\ if_id'.instr = instr /\ if_id'.pc = pc /\ pc' = Plus(pc, 1)
    BY <1>3 DEF Moves, Execute
  <2>2. instr # Bubble
    BY Decoded
  <2> QED BY <2>1, <2>2 DEF PipelineInv, Chained
<1> QED BY <1>1, <1>2, <1>3

LEMMA PipelineInvInit == PipelineInit => PipelineInv
<1>1. ASSUME PipelineInit
      PROVE  StagesOK /\ Padded /\ NoLostJump /\ Chained
  BY <1>1 DEF PipelineInit, IfId0, IdEx0, ExMem0, MemWb0, Loaded, StagesOK,
     Padded, NoLostJump,
              Jump, Chained, Bubble
<1>2. ASSUME PipelineInit
      PROVE  Computed /\ Fetched
  BY <1>2 DEF PipelineInit, IdEx0, ExMem0, Computed, Fetched, Bubble, Regfile
<1> QED BY <1>1, <1>2 DEF PipelineInv

LEMMA PipelineInvStep ==
    ASSUME PaddedCode, PipelineInv, [PipelineNext]_pipeline_vars
    PROVE  PipelineInv'
<1>1. CASE UNCHANGED pipeline_vars
  BY <1>1 DEF pipeline_vars, PipelineInv, StagesOK, Computed, Fetched, Padded, NoLostJump, Chained,
              Regfile, RegfileMux, MemForward, Forwards, Hazard
<1>2. ASSUME NEW instr \in Instrs, NEW rdata \in DataRead,
             Fetchable(instr), Moves(instr, rdata)
      PROVE  PipelineInv'
  <2>1. ~Unforwarded(instr, if_id.instr, id_ex.instr)
    BY <1>2 DEF Fetchable
  <2> QED BY <1>2, <2>1, StagesStep, ComputedStep, FetchedStep, PaddedStep, ChainedStep
          DEF PipelineInv
<1> QED BY <1>1, <1>2, StallOrMove

\* The invariant holds in every state, if the code is padded.
THEOREM PipelineInductive ==
    ASSUME PaddedCode
    PROVE  PipelineSpec => []PipelineInv
BY PipelineInvInit, PipelineInvStep, PTL DEF PipelineSpec

---------------------------------------------------------------------------
\* A cycle in which the memory stage holds a bubble executes nothing.
LEMMA BubbleIsIdle ==
    ASSUME PipelineInv,
           NEW instr \in Instrs, NEW rdata, Moves(instr, rdata),
           ex_mem.instr = Bubble
    PROVE  Sequential!Idle
<1>1. ~PcMuxSel /\ (Hazard => id_ex.instr # Bubble)
  BY DEF PcMuxSel, AllowJmp, Hazard, HazardDetector, Bubble
<1>2. Executed' = Nothing
  BY DEF Moves, Executed
<1>3. OldestPc' = OldestPc
  <2>1. ex_mem'.instr = id_ex.instr /\ ex_mem'.pc = id_ex.pc
    BY <1>1 DEF Moves, Execute
  <2>2. CASE Hazard
    BY <2>1, <2>2, <1>1 DEF OldestPc
  <2>3. CASE ~Hazard
    <3>1. /\ id_ex'.instr = if_id.instr /\ id_ex'.pc = if_id.pc
          /\ if_id'.instr = instr /\ if_id'.pc = pc
      BY <1>1, <2>3 DEF Moves
    <3>2. instr # Bubble
      BY Decoded
    <3> QED BY <2>1, <3>1, <3>2 DEF OldestPc
  <2> QED BY <2>2, <2>3
<1>4. [r \in Regs |-> Regfile(r)]' = [r \in Regs |-> Regfile(r)]
  <2>1. \A r \in Regs : Regfile(r)' = Regfile(r)
    BY RegfileMoves DEF PipelineInv, Forwards, LoadRegfile, Bubble
  <2> QED BY <2>1
<1> QED BY <1>2, <1>3, <1>4 DEF Sequential!Idle

\* A cycle in which the memory stage holds an instruction executes it.
LEMMA InstructionIsExecuted ==
    ASSUME PipelineInv,
           NEW instr \in Instrs, NEW rdata, Moves(instr, rdata),
           NEW i \in Instrs, i = ex_mem.instr
    PROVE  Sequential!Exec(i, rdata)
<1> DEFINE regs == [r \in Regs |-> Regfile(r)]
           a == Regfile(i.rs1)
           b == Regfile(i.rs2)
<1>1. /\ i # Bubble /\ i \in Loaded
      /\ i.rd \in Regs /\ i.rs1 \in Regs /\ i.rs2 \in Regs
      /\ i.op \in {"lui", "auipc", "jal", "jalr", "br", "load", "store", "addi", "slti", "add"}
  BY Decoded, PipelineAssumption DEF Loaded
<1>2. /\ OldestPc = ex_mem.pc
      /\ regs[i.rs1] = a /\ regs[i.rs2] = b
  BY <1>1 DEF OldestPc
<1>3. /\ i.op \notin {"lui", "slti"} => ex_mem.alu_out = Alu(i, ex_mem.pc, a, b)
      /\ i.op \in {"br", "slti"} => (ex_mem.br_en <=> BrEn(i, a, b))
      /\ i.op = "store" => MemWData = b
  BY <1>1 DEF PipelineInv, Computed, MemWData
<1>4. /\ mem_wb'.instr = i /\ mem_wb'.pc = ex_mem.pc /\ mem_wb'.alu_out = ex_mem.alu_out
      /\ mem_wb'.br_en = ex_mem.br_en /\ mem_wb'.mem = rdata /\ stored' = MemWData
  BY DEF Moves
<1> HIDE DEF a, b
<1>5. Executed' = [instr |-> i, pc |-> ex_mem.pc, access |-> Sequential!Access(i, a, b, rdata)]
  <2>1. i.op \in {"load", "store"} => ex_mem.alu_out = Sequential!Plus(a, i.imm)
    BY <1>3 DEF Alu, Plus, Sequential!Plus
  <2> QED BY <1>1, <1>3, <1>4, <2>1 DEF Executed, Sequential!Access
<1>6. regs' = IF Sequential!Writes(i)
              THEN [regs EXCEPT ![i.rd] = Sequential!Result(i, ex_mem.pc, a, b, rdata)]
              ELSE regs
  <2>1. \A r \in Regs : Forwards(ex_mem, r) <=> Sequential!Writes(i) /\ r = i.rd
    BY <1>1 DEF Forwards, LoadRegfile, Sequential!Writes
  <2>2. Sequential!Writes(i) => RegfileMux' = Sequential!Result(i, ex_mem.pc, a, b, rdata)
    BY <1>1, <1>3, <1>4 DEF RegfileMux, Sequential!Writes, Sequential!Result,
       Alu, BrEn,
                            Plus, Sequential!Plus
  <2>3. \A r \in Regs : Regfile(r)' = IF Sequential!Writes(i) /\ r = i.rd
                                      THEN Sequential!Result(i, ex_mem.pc, a, b, rdata)
                                      ELSE Regfile(r)
    BY <2>1, <2>2, RegfileMoves DEF PipelineInv
  <2> QED BY <1>1, <2>3
<1>7. OldestPc' = Sequential!Target(i, ex_mem.pc, a, b)
  <2>1. CASE PcMuxSel
    <3>1. ~Hazard
      BY <2>1 DEF PipelineInv, NoLostJump, Jump, PcMuxSel, AllowJmp
    <3>2. pc' = ex_mem.alu_out /\ ex_mem' = ExMem0 /\ id_ex' = IdEx0 /\ if_id' = IfId0
      BY <2>1, <3>1 DEF Moves
    <3>3. OldestPc' = ex_mem.alu_out
      BY <3>2 DEF OldestPc, ExMem0, IdEx0, IfId0
    <3>4. ex_mem.alu_out = Sequential!Target(i, ex_mem.pc, a, b)
      BY <1>3, <2>1 DEF PcMuxSel, AllowJmp, Sequential!Target, Alu,
         BrEn, Plus, Sequential!Plus
    <3> QED BY <3>3, <3>4
  <2>2. CASE ~PcMuxSel
    <3>1. OldestPc' = Plus(ex_mem.pc, 1)
      <4>1. ex_mem'.instr = id_ex.instr /\ ex_mem'.pc = id_ex.pc
        BY <2>2 DEF Moves, Execute
      <4>2. CASE Hazard
        <5>1. id_ex.instr # Bubble
          BY <4>2 DEF Hazard, HazardDetector, Bubble
        <5> QED BY <1>1, <4>1, <5>1 DEF OldestPc, PipelineInv, Chained
      <4>3. CASE ~Hazard
        <5>1. /\ id_ex'.instr = if_id.instr /\ id_ex'.pc = if_id.pc
              /\ if_id'.instr = instr /\ if_id'.pc = pc
          BY <2>2, <4>3 DEF Moves
        <5>2. instr # Bubble
          BY Decoded
        <5> QED BY <1>1, <4>1, <5>1, <5>2 DEF OldestPc, PipelineInv, Chained
      <4> QED BY <4>2, <4>3
    <3>2. Sequential!Target(i, ex_mem.pc, a, b) = Plus(ex_mem.pc, 1)
      BY <1>1, <1>3, <2>2 DEF PcMuxSel, AllowJmp, BrEn,
         Sequential!Target, Plus, Sequential!Plus
    <3> QED BY <3>1, <3>2
  <2> QED BY <2>1, <2>2
<1> QED BY <1>2, <1>5, <1>6, <1>7 DEF Sequential!Exec, a, b

\* Every cycle is a step of the sequential processor, or changes nothing it has.
LEMMA StepRefines ==
    ASSUME PipelineInv, [PipelineNext]_pipeline_vars
    PROVE  [Sequential!Next]_(Sequential!vars)
<1>1. CASE UNCHANGED pipeline_vars
  BY <1>1 DEF pipeline_vars, Sequential!vars, OldestPc, Executed, Regfile,
     RegfileMux
<1>2. ASSUME NEW instr \in Instrs, NEW rdata \in DataRead, Moves(instr, rdata)
      PROVE  Sequential!Next
  <2>1. rdata \in Sequential!Word
    BY PipelineAssumption DEF DataRead, Word, Sequential!Word
  <2>2. ex_mem.instr = Bubble \/ ex_mem.instr \in Instrs
    BY DEF PipelineInv, StagesOK, Loaded
  <2> QED BY <1>2, <2>1, <2>2, BubbleIsIdle, InstructionIsExecuted DEF Sequential!Next
<1> QED BY <1>1, <1>2, StallOrMove

\* The pipeline starts as the sequential processor does.
LEMMA InitRefines == PipelineInit => Sequential!Init
BY DEF PipelineInit, Sequential!Init, OldestPc, Executed, Regfile,
   IfId0, IdEx0, ExMem0, MemWb0,
       LoadRegfile, Bubble

\* On padded code the pipeline executes instructions as the sequential processor
\* does: in the order of their addresses and jumps, with the registers and the
\* accesses to memory that this order gives, however long the caches take.
THEOREM PipelineImplementation ==
    ASSUME PaddedCode
    PROVE  PipelineSpec => ImplementsIsa
<1>1. PipelineSpec => []PipelineInv
  BY PipelineInductive
<1> QED BY <1>1, InitRefines, StepRefines, PTL DEF PipelineSpec, ImplementsIsa,
           Sequential!Spec
====
