---- MODULE CacheProofs ----
(***************************************************************************)
(* What a cycle does to a cache, for every number of sets and every size   *)
(* of a line: the invariant of its ways, and what it means for the lines   *)
(* it holds.  S is the set of lines that are asked for, D of those that    *)
(* are written.                                                            *)
(***************************************************************************)
EXTENDS Cache, TLAPS

\* The sizes, and a request.
AreLines(S) == S \subseteq 0 .. NumLines - 1
Sizes == NumSets \in Nat \ {0} /\ NumLines \in Nat \ {0}

IsRequest(q, S, D) ==
    /\ q \in [read : BOOLEAN, write : BOOLEAN, line : 0 .. NumLines - 1,
              mbe : SUBSET Beats, wdata : LineData]
    /\ Asks(q) => q.line \in S
    /\ q.write => q.line \in D

LineOf(s, way) == way.tag * NumSets + s

\* A line is in one way at most, and only dirty if it is written.
WaysOK(c, S, D) ==
    \A s \in Sets :
        /\ \A w \in Ways :
              /\ c.way[s][w].valid => LineOf(s, c.way[s][w]) \in S
              /\ c.way[s][w].valid /\ c.way[s][w].dirty => LineOf(s, c.way[s][w]) \in D
              /\ ~c.way[s][w].valid => ~c.way[s][w].dirty
        /\ c.way[s][0].valid /\ c.way[s][1].valid => c.way[s][0].tag # c.way[s][1].tag

\* What a miss goes on with.
MissOK(c, q, D) ==
    LET s == Index(q.line)
        victim == c.way[s][Victim(c, q)]
        other == c.way[s][1 - Victim(c, q)]
    IN  c.state # "rw" =>
          /\ Asks(q)
          /\ ~(other.valid /\ other.tag = Tag(q.line))
          /\ c.state = "write_back" => victim.valid /\ LineOf(s, victim) \in D
          /\ c.state = "pmem" => ~victim.dirty

CacheInv(c, q, S, D) ==
    IsCache(c) /\ WaysOK(c, S, D) /\ InvalidWayNext(c) /\ MissOK(c, q, D)

---------------------------------------------------------------------------
\* A line is its tag and its index.
LEMMA Division ==
    ASSUME Sizes
    PROVE  /\ \A l \in Nat : /\ Index(l) \in Sets /\ Tag(l) \in 0 .. l
                             /\ Tag(l) * NumSets + Index(l) = l
           /\ \A t \in Nat, s \in Sets : /\ t * NumSets + s \in Nat
                                         /\ Index(t * NumSets + s) = s
                                         /\ Tag(t * NumSets + s) = t
<1>1. \A l \in Nat : Index(l) \in Sets /\ Tag(l) \in 0 .. l
  BY DEF Sizes, Index, Tag, Sets
<1>2. \A l \in Nat : Tag(l) * NumSets + Index(l) = l
  BY DEF Sizes, Index, Tag
<1>3. \A t \in Nat, s \in Sets : t * NumSets + s \in Nat /\ Index(t * NumSets + s) = s
  BY DEF Sizes, Index, Sets
<1>4. \A t \in Nat, s \in Sets : Tag(t * NumSets + s) = t
  BY DEF Sizes, Tag, Sets
<1> QED BY <1>1, <1>2, <1>3, <1>4

LEMMA SameLine ==
    ASSUME Sizes, NEW l \in Nat, NEW k \in Nat, Tag(l) = Tag(k), Index(l) = Index(k)
    PROVE  l = k
<1>1. Tag(l) * NumSets + Index(l) = l
  BY Division
<1>2. Tag(k) * NumSets + Index(k) = k
  BY Division
<1> QED BY <1>1, <1>2

\* What the wires carry is what it should be.
LEMMA Places ==
    ASSUME Sizes, NEW c, IsCache(c), NEW l \in 0 .. NumLines - 1
    PROVE  /\ Index(l) \in Sets /\ Tag(l) \in 0 .. NumLines - 1
           /\ c.lru[Index(l)] \in Ways
           /\ \A w \in Ways : c.way[Index(l)][w] \in
                  [valid : BOOLEAN, dirty : BOOLEAN, tag : 0 .. NumLines - 1, data : LineData]
<1>1. Index(l) \in Sets /\ Tag(l) \in 0 .. l
  BY Division DEF Sizes
<1>2. Tag(l) \in 0 .. NumLines - 1
  BY <1>1 DEF Sizes
<1> QED BY <1>1, <1>2 DEF IsCache

LEMMA HitWayHits ==
    ASSUME NEW c, NEW q, Hits(c, q) # {}
    PROVE  /\ HitWay(c, q) \in Ways
           /\ c.way[Index(q.line)][HitWay(c, q)].valid
           /\ c.way[Index(q.line)][HitWay(c, q)].tag = Tag(q.line)
BY DEF Hits, HitWay, Ways

\* The cases of a cycle.
LEMMA Cases ==
    ASSUME NEW c, NEW q, NEW resp, NEW line, IsCache(c)
    PROVE  \/ c.state = "rw" /\ ~Asks(q) /\ Clocked(c, q, resp, line) = c
           \/ c.state = "rw" /\ Asks(q) /\ Hits(c, q) # {}
                /\ Clocked(c, q, resp, line) = HitNext(c, q)
           \/ c.state = "rw" /\ Asks(q) /\ Hits(c, q) = {}
                /\ Clocked(c, q, resp, line) = [c EXCEPT !.state = MissState(c, q)]
           \/ c.state = "write_back" /\ Clocked(c, q, resp, line) = WriteBackNext(c, q, resp)
           \/ c.state = "pmem" /\ Clocked(c, q, resp, line) = PmemNext(c, q, resp, line)
BY DEF IsCache, Clocked, RwNext

\* One way of one set is replaced.
States == {"rw", "write_back", "pmem"}
Lrus == [Sets -> Ways]
Way == [valid : BOOLEAN, dirty : BOOLEAN, tag : 0 .. NumLines - 1, data : LineData]
Replaced(c, state, lru, s, w, way) ==
    [state |-> state, lru |-> lru, way |-> [c.way EXCEPT ![s] = [@ EXCEPT ![w] = way]]]

LEMMA ReplacedWay ==
    ASSUME NEW c, IsCache(c), NEW state \in States,
           NEW lru \in Lrus, NEW s \in Sets, NEW w \in Ways, NEW way \in Way,
           NEW d, d = Replaced(c, state, lru, s, w, way)
    PROVE  /\ IsCache(d)
           /\ d.state = state /\ d.lru = lru
           /\ d.way[s][w] = way
           /\ \A r \in Sets \ {s} : d.way[r] = c.way[r]
           /\ \A v \in Ways \ {w} : d.way[s][v] = c.way[s][v]
<1>1. d.state = state /\ d.lru = lru /\ d.way = [c.way EXCEPT ![s] = [@ EXCEPT ![w] = way]]
  BY DEF Replaced
<1>2. d.way \in [Sets -> [Ways -> Way]]
  BY <1>1 DEF IsCache, Way
<1>3. IsCache(d)
  BY <1>1, <1>2 DEF IsCache, Way, Replaced, States, Lrus
<1>4. d.way[s][w] = way
  BY <1>1 DEF IsCache
<1>5. \A r \in Sets \ {s} : d.way[r] = c.way[r]
  BY <1>1 DEF IsCache
<1>6. \A v \in Ways \ {w} : d.way[s][v] = c.way[s][v]
  BY <1>1 DEF IsCache
<1> QED BY <1>1, <1>3, <1>4, <1>5, <1>6

\* A hit changes the way that hits, and makes the other one the next victim.
Merged(q, data) ==
    [b \in Beats |-> IF q.write /\ b \in q.mbe THEN q.wdata[b] ELSE data[b]]

LEMMA HitEffect ==
    ASSUME Sizes, NEW c, IsCache(c), NEW q, NEW S, NEW D, IsRequest(q, S, D),
           Hits(c, q) # {},
           NEW s, s = Index(q.line), NEW w, w = HitWay(c, q),
           NEW d, d = HitNext(c, q)
    PROVE  /\ IsCache(d)
           /\ d.state = c.state
           /\ d.lru[s] = 1 - w
           /\ \A r \in Sets \ {s} : d.lru[r] = c.lru[r] /\ d.way[r] = c.way[r]
           /\ \A v \in Ways \ {w} : d.way[s][v] = c.way[s][v]
           /\ d.way[s][w].valid = c.way[s][w].valid
           /\ d.way[s][w].tag = c.way[s][w].tag
           /\ d.way[s][w].dirty <=> c.way[s][w].dirty \/ q.write
           /\ d.way[s][w].data = Merged(q, c.way[s][w].data)
<1> DEFINE old == c.way[s][w]
           data == Merged(q, old.data)
           new == [old EXCEPT !.dirty = old.dirty \/ q.write, !.data = data]
           lru == [c.lru EXCEPT ![s] = 1 - w]
<1>1. s \in Sets /\ w \in Ways /\ 1 - w \in Ways /\ old \in Way
  BY Places, HitWayHits DEF IsRequest, Ways, Way
<1>2. data \in LineData
  BY <1>1 DEF Merged, IsRequest, LineData, Way
<1>3. /\ new \in Way /\ new.valid = old.valid /\ new.tag = old.tag /\ new.data = data
      /\ new.dirty <=> old.dirty \/ q.write
  BY <1>1, <1>2 DEF IsRequest, Way
<1>4. d = [c EXCEPT !.lru[s] = 1 - w, !.way[s][w] = new]
  BY DEF HitNext, Merged
<1> HIDE DEF new, data, old
<1>5. d = Replaced(c, c.state, lru, s, w, new)
  BY <1>4 DEF IsCache, Replaced
<1>6. /\ lru \in Lrus /\ lru[s] = 1 - w
      /\ \A r \in Sets \ {s} : lru[r] = c.lru[r]
  BY <1>1 DEF IsCache, Lrus
<1>7. c.state \in States
  BY DEF IsCache, States
<1> HIDE DEF lru
<1>8. /\ IsCache(d) /\ d.state = c.state /\ d.lru = lru /\ d.way[s][w] = new
      /\ \A r \in Sets \ {s} : d.way[r] = c.way[r]
      /\ \A v \in Ways \ {w} : d.way[s][v] = c.way[s][v]
  BY <1>1, <1>3, <1>5, <1>6, <1>7, ReplacedWay
<1> QED BY <1>3, <1>6, <1>8 DEF data, old

\* The victim counts as clean, and nothing else changes.
LEMMA WriteBackEffect ==
    ASSUME Sizes, NEW c, IsCache(c), NEW q, NEW S, NEW D, IsRequest(q, S, D), NEW resp,
           NEW s, s = Index(q.line), NEW v, v = Victim(c, q),
           NEW d, d = WriteBackNext(c, q, resp)
    PROVE  /\ IsCache(d)
           /\ d.state = IF resp THEN "pmem" ELSE c.state
           /\ d.lru = c.lru
           /\ \A r \in Sets \ {s} : d.way[r] = c.way[r]
           /\ \A w \in Ways \ {v} : d.way[s][w] = c.way[s][w]
           /\ d.way[s][v].valid = c.way[s][v].valid
           /\ d.way[s][v].tag = c.way[s][v].tag
           /\ d.way[s][v].data = c.way[s][v].data
           /\ ~d.way[s][v].dirty
<1> DEFINE old == c.way[s][v]
           new == [old EXCEPT !.dirty = FALSE]
           state == IF resp THEN "pmem" ELSE c.state
<1>1. s \in Sets /\ v \in Ways /\ old \in Way
  BY Places DEF IsRequest, Way, Victim
<1>2. /\ new \in Way /\ new.valid = old.valid /\ new.tag = old.tag /\ new.data = old.data
      /\ new.dirty = FALSE
  BY <1>1 DEF Way
<1>3. d = [c EXCEPT !.state = state, !.way[s][v].dirty = FALSE]
  BY DEF WriteBackNext
<1>4. d = Replaced(c, state, c.lru, s, v, new)
  BY <1>3 DEF IsCache, Replaced
<1>5. state \in States /\ c.lru \in Lrus
  BY DEF IsCache, States, Lrus
<1> HIDE DEF new, old, state
<1>6. /\ IsCache(d) /\ d.state = state /\ d.lru = c.lru /\ d.way[s][v] = new
      /\ \A r \in Sets \ {s} : d.way[r] = c.way[r]
      /\ \A w \in Ways \ {v} : d.way[s][w] = c.way[s][w]
  BY <1>1, <1>2, <1>4, <1>5, ReplacedWay
<1> QED BY <1>2, <1>6 DEF old, state

\* The victim takes what the level below drives.
LEMMA PmemEffect ==
    ASSUME Sizes, NEW c, IsCache(c), NEW q, NEW S, NEW D, IsRequest(q, S, D), NEW resp,
           NEW line \in LineData,
           NEW s, s = Index(q.line), NEW v, v = Victim(c, q),
           NEW d, d = PmemNext(c, q, resp, line)
    PROVE  /\ IsCache(d)
           /\ d.state = IF resp THEN "rw" ELSE c.state
           /\ d.lru = c.lru
           /\ \A r \in Sets \ {s} : d.way[r] = c.way[r]
           /\ \A w \in Ways \ {v} : d.way[s][w] = c.way[s][w]
           /\ d.way[s][v].valid
           /\ d.way[s][v].tag = Tag(q.line)
           /\ d.way[s][v].data = line
           /\ d.way[s][v].dirty = c.way[s][v].dirty
<1> DEFINE old == c.way[s][v]
           new == [old EXCEPT !.valid = TRUE, !.tag = Tag(q.line), !.data = line]
           state == IF resp THEN "rw" ELSE c.state
<1>1. s \in Sets /\ v \in Ways /\ old \in Way /\ Tag(q.line) \in 0 .. NumLines - 1
  BY Places DEF IsRequest, Way, Victim
<1>2. /\ new \in Way /\ new.valid = TRUE /\ new.tag = Tag(q.line) /\ new.data = line
      /\ new.dirty = old.dirty
  BY <1>1 DEF Way
<1>3. d = [c EXCEPT !.state = state, !.way[s][v] = new]
  BY DEF PmemNext
<1>4. d = Replaced(c, state, c.lru, s, v, new)
  BY <1>3 DEF IsCache, Replaced
<1>5. state \in States /\ c.lru \in Lrus
  BY DEF IsCache, States, Lrus
<1> HIDE DEF new, old, state
<1>6. /\ IsCache(d) /\ d.state = state /\ d.lru = c.lru /\ d.way[s][v] = new
      /\ \A r \in Sets \ {s} : d.way[r] = c.way[r]
      /\ \A w \in Ways \ {v} : d.way[s][w] = c.way[s][w]
  BY <1>1, <1>2, <1>4, <1>5, ReplacedWay
<1> QED BY <1>2, <1>6 DEF old, state

\* A miss changes the state only.
LEMMA MissEffect ==
    ASSUME NEW c, IsCache(c), NEW q
    PROVE  LET d == [c EXCEPT !.state = MissState(c, q)]
           IN  /\ IsCache(d)
               /\ d.state = MissState(c, q) /\ d.lru = c.lru /\ d.way = c.way
BY DEF IsCache, MissState

---------------------------------------------------------------------------
\* The invariant is kept by every cycle, whatever the level below drives.
LEMMA CacheInvStep ==
    ASSUME Sizes, NEW S, NEW D, NEW q, IsRequest(q, S, D),
           NEW c, CacheInv(c, q, S, D),
           NEW resp, NEW line \in LineData, NEW d, d = Clocked(c, q, resp, line)
    PROVE  CacheInv(d, q, S, D)
<1>0. PICK s, v : s = Index(q.line) /\ v = Victim(c, q)
  OBVIOUS
<1>1. IsCache(c) /\ q.line \in 0 .. NumLines - 1 /\ q.line \in Nat
  BY DEF CacheInv, IsRequest, Sizes
<1>a. s \in Sets /\ v \in Ways /\ v = c.lru[s] /\ 1 - v \in Ways
  BY <1>0, <1>1, Places DEF Victim, Ways
<1>b. \A w \in Ways : c.way[s][w] \in Way
  BY <1>0, <1>1, Places DEF Way
<1>c. \A way : way.tag = Tag(q.line) => LineOf(s, way) = q.line
  BY <1>0, <1>1, Division DEF LineOf
<1>2. CASE c.state = "rw" /\ ~Asks(q) /\ d = c
  BY <1>2
<1>3. CASE c.state = "rw" /\ Asks(q) /\ Hits(c, q) # {} /\ d = HitNext(c, q)
  <2>0. PICK w : w = HitWay(c, q)
    OBVIOUS
  <2>1. w \in Ways /\ c.way[s][w].valid /\ c.way[s][w].tag = Tag(q.line)
    BY <1>0, <1>3, <2>0, HitWayHits
  <2>2. /\ IsCache(d) /\ d.state = "rw"
        /\ d.lru[s] = 1 - w
        /\ \A r \in Sets \ {s} : d.lru[r] = c.lru[r] /\ d.way[r] = c.way[r]
        /\ \A u \in Ways \ {w} : d.way[s][u] = c.way[s][u]
        /\ d.way[s][w].valid = c.way[s][w].valid
        /\ d.way[s][w].tag = c.way[s][w].tag
        /\ d.way[s][w].dirty <=> c.way[s][w].dirty \/ q.write
    BY <1>0, <1>1, <1>3, <2>0, HitEffect
  <2>3. WaysOK(d, S, D)
    <3>1. LineOf(s, c.way[s][w]) = q.line
      BY <1>c, <2>1
    <3>2. \A r \in Sets, u \in Ways : /\ d.way[r][u].valid = c.way[r][u].valid
                                      /\ LineOf(r, d.way[r][u]) = LineOf(r, c.way[r][u])
                                      /\ d.way[r][u].tag = c.way[r][u].tag
      BY <1>1, <1>a, <2>1, <2>2 DEF LineOf
    <3>3. \A r \in Sets, u \in Ways :
             d.way[r][u].dirty => c.way[r][u].dirty \/ (r = s /\ u = w /\ q.write)
      BY <1>1, <1>a, <2>1, <2>2
    <3>4. c.way[s][w].valid /\ LineOf(s, c.way[s][w]) \in S
          /\ (q.write => LineOf(s, c.way[s][w]) \in D)
      BY <1>3, <2>1, <3>1 DEF IsRequest
    <3> QED BY <3>2, <3>3, <3>4 DEF CacheInv, WaysOK, Ways
  <2>4. InvalidWayNext(d)
    <3>1. (\E u \in Ways : ~d.way[s][u].valid) => ~d.way[s][d.lru[s]].dirty
      <4>1. 1 - w \in Ways \ {w} /\ d.way[s][1 - w] = c.way[s][1 - w]
        BY <2>1, <2>2 DEF Ways
      <4>2. \A u \in Ways : u = w \/ u = 1 - w
        BY <2>1 DEF Ways
      <4>3. ~c.way[s][1 - w].valid => ~c.way[s][1 - w].dirty
        BY <1>a, <4>1 DEF CacheInv, WaysOK
      <4> QED BY <2>1, <2>2, <4>1, <4>2, <4>3
    <3> QED BY <2>2, <3>1 DEF CacheInv, InvalidWayNext
  <2> QED BY <2>2, <2>3, <2>4 DEF CacheInv, MissOK
<1>4. CASE c.state = "rw" /\ Asks(q) /\ Hits(c, q) = {} /\ d = [c EXCEPT !.state = MissState(c, q)]
  <2>1. IsCache(d) /\ d.state = MissState(c, q) /\ d.lru = c.lru /\ d.way = c.way
    BY <1>1, <1>a, <1>4, MissEffect
  <2>2. WaysOK(d, S, D) /\ InvalidWayNext(d)
    BY <2>1 DEF CacheInv, WaysOK, InvalidWayNext
  <2>3. MissOK(d, q, D)
    <3>1. ~(c.way[s][1 - v].valid /\ c.way[s][1 - v].tag = Tag(q.line))
      BY <1>0, <1>1, <1>a, <1>4 DEF Hits
    <3>2. MissState(c, q) = "write_back" => c.way[s][v].valid /\ c.way[s][v].dirty
      BY <1>0, <1>a DEF MissState, Ways
    <3>3. MissState(c, q) = "pmem" => ~c.way[s][v].dirty
      BY <1>0, <1>a DEF MissState, CacheInv, InvalidWayNext, Ways
    <3>4. MissState(c, q) = "write_back" => LineOf(s, c.way[s][v]) \in D
      BY <1>1, <1>a, <3>2 DEF CacheInv, WaysOK
    <3> QED BY <1>0, <1>4, <2>1, <3>1, <3>2, <3>3, <3>4 DEF MissOK, Victim
  <2> QED BY <2>1, <2>2, <2>3 DEF CacheInv
<1>5. CASE c.state = "write_back" /\ d = WriteBackNext(c, q, resp)
  <2>1. /\ IsCache(d) /\ d.lru = c.lru
        /\ \A r \in Sets \ {s} : d.way[r] = c.way[r]
        /\ \A w \in Ways \ {v} : d.way[s][w] = c.way[s][w]
        /\ d.way[s][v].valid = c.way[s][v].valid
        /\ d.way[s][v].tag = c.way[s][v].tag
        /\ ~d.way[s][v].dirty
    BY <1>0, <1>1, <1>5, WriteBackEffect
  <2>2. \A r \in Sets, u \in Ways : /\ d.way[r][u].valid = c.way[r][u].valid
                                    /\ LineOf(r, d.way[r][u]) = LineOf(r, c.way[r][u])
                                    /\ d.way[r][u].tag = c.way[r][u].tag
                                    /\ d.way[r][u].dirty => c.way[r][u].dirty
    BY <1>1, <1>a, <2>1 DEF LineOf
  <2>3. WaysOK(d, S, D)
    BY <2>2 DEF CacheInv, WaysOK, Ways
  <2>4. InvalidWayNext(d)
    <3>1. \A r \in Sets : c.lru[r] \in Ways
      BY <1>1 DEF IsCache
    <3> QED BY <2>1, <2>2, <3>1 DEF CacheInv, InvalidWayNext
  <2>5. MissOK(d, q, D)
    <3>1. Victim(d, q) = v
      BY <1>0, <2>1 DEF Victim
    <3>2. d.way[s][1 - v] = c.way[s][1 - v]
      BY <1>1, <1>a, <2>1 DEF Ways
    <3>3. /\ Asks(q) /\ ~(c.way[s][1 - v].valid /\ c.way[s][1 - v].tag = Tag(q.line))
          /\ c.way[s][v].valid /\ LineOf(s, c.way[s][v]) \in D
      BY <1>0, <1>5 DEF CacheInv, MissOK
    <3>4. d.way[s][v].valid /\ LineOf(s, d.way[s][v]) \in D /\ ~d.way[s][v].dirty
      BY <1>a, <2>1, <2>2, <3>3
    <3> QED BY <1>0, <3>1, <3>2, <3>3, <3>4 DEF MissOK
  <2> QED BY <2>1, <2>3, <2>4, <2>5 DEF CacheInv
<1>6. CASE c.state = "pmem" /\ d = PmemNext(c, q, resp, line)
  <2>1. /\ IsCache(d) /\ d.lru = c.lru
        /\ d.state = IF resp THEN "rw" ELSE "pmem"
        /\ \A r \in Sets \ {s} : d.way[r] = c.way[r]
        /\ \A w \in Ways \ {v} : d.way[s][w] = c.way[s][w]
        /\ d.way[s][v].valid
        /\ d.way[s][v].tag = Tag(q.line)
        /\ d.way[s][v].dirty = c.way[s][v].dirty
    BY <1>0, <1>1, <1>6, PmemEffect
  <2>2. /\ Asks(q) /\ ~(c.way[s][1 - v].valid /\ c.way[s][1 - v].tag = Tag(q.line))
        /\ ~c.way[s][v].dirty
    BY <1>0, <1>6 DEF CacheInv, MissOK
  <2>3. LineOf(s, d.way[s][v]) \in S
    BY <1>c, <2>1, <2>2 DEF IsRequest
  <2>4. d.way[s][1 - v] = c.way[s][1 - v]
    BY <1>1, <1>a, <2>1 DEF Ways
  <2>5. WaysOK(d, S, D)
    <3>1. \A r \in Sets, u \in Ways : r # s \/ u # v => d.way[r][u] = c.way[r][u]
      BY <2>1
    <3>2. \A r \in Sets \ {s} : d.way[r] = c.way[r]
      BY <2>1
    <3>3. d.way[s][0].valid /\ d.way[s][1].valid => d.way[s][0].tag # d.way[s][1].tag
      BY <1>1, <1>a, <2>1, <2>2, <2>4 DEF Ways
    <3>4. \A w \in Ways : /\ d.way[s][w].valid => LineOf(s, d.way[s][w]) \in S
                          /\ d.way[s][w].valid /\ d.way[s][w].dirty => LineOf(s, d.way[s][w]) \in D
                          /\ ~d.way[s][w].valid => ~d.way[s][w].dirty
      BY <1>1, <1>a, <2>1, <2>2, <2>3, <3>1 DEF CacheInv, WaysOK
    <3> QED BY <3>2, <3>3, <3>4 DEF CacheInv, WaysOK
  <2>6. InvalidWayNext(d)
    BY <1>1, <1>a, <2>1, <2>2 DEF CacheInv, InvalidWayNext
  <2>7. MissOK(d, q, D)
    <3>1. Victim(d, q) = v
      BY <1>0, <2>1 DEF Victim
    <3> QED BY <1>0, <2>1, <2>2, <2>4, <3>1 DEF MissOK
  <2> QED BY <2>1, <2>5, <2>6, <2>7 DEF CacheInv
<1> QED BY <1>1, <1>a, <1>2, <1>3, <1>4, <1>5, <1>6, Cases

\* A new request may come when none is being served, and the invariant holds
\* of an empty cache.
LEMMA CacheInvNewRequest ==
    ASSUME NEW S, NEW D, NEW q, NEW r, NEW c, CacheInv(c, q, S, D),
           c.state # "rw" => r.line = q.line /\ Asks(r)
    PROVE  CacheInv(c, r, S, D)
BY DEF CacheInv, MissOK, Victim

LEMMA CacheInvInit ==
    ASSUME Sizes, NEW S, NEW D, NEW q
    PROVE  CacheInv(Reset, q, S, D)
<1>1. EmptyWay \in Way /\ ~EmptyWay.valid /\ ~EmptyWay.dirty
  BY DEF Sizes, EmptyWay, Way, LineData
<1>2. /\ Reset.state = "rw"
      /\ \A s \in Sets : Reset.lru[s] = 0 /\ \A w \in Ways : Reset.way[s][w] = EmptyWay
  BY DEF Reset
<1>3. IsCache(Reset)
  BY <1>1 DEF Reset, IsCache, Way, Ways
<1>4. WaysOK(Reset, S, D) /\ InvalidWayNext(Reset)
  BY <1>1, <1>2 DEF WaysOK, InvalidWayNext, Ways
<1> QED BY <1>2, <1>3, <1>4 DEF CacheInv, MissOK

---------------------------------------------------------------------------
(* What a cache holds of a line.  Kept, Stored, Dropped and Filled are what a
   cycle from c to d may do to it, r being the request of the next cycle. *)

Has(c, q, l) == Holds(c, q, l) # {}
HasClean(c, q, l) == HoldsClean(c, q, l) # {}
Copy(c, q, l) == Data(c, l, CHOOSE w \in Holds(c, q, l) : TRUE)

Kept(c, q, d, r, l) ==
    /\ Has(d, r, l) <=> Has(c, q, l)
    /\ HasClean(d, r, l) <=> HasClean(c, q, l)
    /\ Has(c, q, l) => Copy(d, r, l) = Copy(c, q, l)

Stored(c, q, d, r, l) ==
    /\ Has(c, q, l) /\ Has(d, r, l) /\ ~HasClean(d, r, l)
    /\ Copy(d, r, l) = Merged(q, Copy(c, q, l))

Dropped(c, q, d, r, l) == Has(c, q, l) /\ ~Has(d, r, l) /\ ~HasClean(d, r, l)

Filled(c, q, d, r, l, line) ==
    /\ ~Has(c, q, l) /\ Has(d, r, l) /\ HasClean(d, r, l)
    /\ Copy(d, r, l) = line

\* A line is held by one way.
LEMMA OneWay ==
    ASSUME Sizes, NEW S, NEW D, NEW c, NEW q, CacheInv(c, q, S, D),
           NEW l \in 0 .. NumLines - 1, NEW w \in Holds(c, q, l)
    PROVE  /\ Holds(c, q, l) = {w}
           /\ Copy(c, q, l) = Data(c, l, w)
           /\ HasClean(c, q, l) <=> w \in HoldsClean(c, q, l)
<1>1. Index(l) \in Sets
  BY Places DEF CacheInv
<1>2. \A u \in Holds(c, q, l) : u = w
  BY <1>1 DEF Holds, CacheInv, WaysOK, Ways
<1>3. Holds(c, q, l) = {w}
  BY <1>2
<1>4. (CHOOSE u \in Holds(c, q, l) : TRUE) = w
  BY <1>3
<1>5. HoldsClean(c, q, l) \subseteq {w}
  BY <1>3 DEF HoldsClean
<1> QED BY <1>3, <1>4, <1>5 DEF Copy, HasClean

LEMMA KeptIf ==
    ASSUME Sizes, NEW S, NEW D, NEW c, NEW q, CacheInv(c, q, S, D),
           NEW d, NEW r, CacheInv(d, r, S, D), NEW l \in 0 .. NumLines - 1,
           Holds(d, r, l) = Holds(c, q, l), HoldsClean(d, r, l) = HoldsClean(c, q, l),
           \A w \in Holds(c, q, l) : Data(d, l, w) = Data(c, l, w)
    PROVE  Kept(c, q, d, r, l)
<1>1. Has(d, r, l) <=> Has(c, q, l)
  BY DEF Has
<1>2. HasClean(d, r, l) <=> HasClean(c, q, l)
  BY DEF HasClean
<1>3. ASSUME Has(c, q, l)
      PROVE  Copy(d, r, l) = Copy(c, q, l)
  <2>1. PICK w : w \in Holds(c, q, l)
    BY <1>3 DEF Has
  <2>2. Copy(c, q, l) = Data(c, l, w)
    BY <2>1, OneWay
  <2>3. Copy(d, r, l) = Data(d, l, w)
    BY <2>1, OneWay
  <2> QED BY <2>1, <2>2, <2>3
<1> QED BY <1>1, <1>2, <1>3 DEF Kept

\* No line is lost in a cycle in which the cache serves its requests, but for
\* a clean one that a miss replaces.
LEMMA RwContents ==
    ASSUME Sizes, NEW S, NEW D, NEW q, IsRequest(q, S, D),
           NEW c, CacheInv(c, q, S, D), c.state = "rw",
           NEW resp, NEW line \in LineData, NEW d, d = Clocked(c, q, resp, line),
           NEW r, CacheInv(d, r, S, D), d.state # "rw" => r.line = q.line,
           NEW l \in 0 .. NumLines - 1
    PROVE  IF Resp(c, q) /\ q.write /\ l = q.line THEN Stored(c, q, d, r, l)
           ELSE Kept(c, q, d, r, l)
                  \/ (~Resp(c, q) /\ HasClean(c, q, l) /\ Dropped(c, q, d, r, l))
<1>0. PICK s, v, i : s = Index(q.line) /\ v = Victim(c, q) /\ i = Index(l)
  OBVIOUS
<1>1. IsCache(c) /\ IsCache(d) /\ q.line \in 0 .. NumLines - 1 /\ q.line \in Nat /\ l \in Nat
  BY DEF CacheInv, IsRequest, Sizes
<1>2. s \in Sets /\ i \in Sets /\ v \in Ways /\ v = c.lru[s]
  BY <1>0, <1>1, Places DEF Victim
<1>3. Tag(l) = Tag(q.line) /\ i = s => l = q.line
  BY <1>0, <1>1, SameLine
<1>4. Holds(c, q, l) = {w \in Ways : c.way[i][w].valid /\ c.way[i][w].tag = Tag(l)}
  BY <1>0 DEF Holds
<1>5. HoldsClean(c, q, l) = {w \in Holds(c, q, l) : ~c.way[i][w].dirty}
  BY <1>0 DEF HoldsClean
<1>6. CASE ~Asks(q) /\ d = c
  <2>1. Holds(d, r, l) = Holds(c, q, l) /\ HoldsClean(d, r, l) = HoldsClean(c, q, l)
    BY <1>0, <1>4, <1>5, <1>6 DEF Holds, HoldsClean
  <2> QED BY <1>6, <2>1, KeptIf DEF Resp
<1>7. CASE Asks(q) /\ Hits(c, q) # {} /\ d = HitNext(c, q)
  <2>0. PICK w : w = HitWay(c, q)
    OBVIOUS
  <2>1. w \in Ways /\ c.way[s][w].valid /\ c.way[s][w].tag = Tag(q.line)
    BY <1>0, <1>7, <2>0, HitWayHits
  <2>2. /\ d.state = "rw"
        /\ \A j \in Sets \ {s} : d.way[j] = c.way[j]
        /\ \A u \in Ways \ {w} : d.way[s][u] = c.way[s][u]
        /\ d.way[s][w].valid = c.way[s][w].valid
        /\ d.way[s][w].tag = c.way[s][w].tag
        /\ d.way[s][w].dirty <=> c.way[s][w].dirty \/ q.write
        /\ d.way[s][w].data = Merged(q, c.way[s][w].data)
    BY <1>0, <1>1, <1>7, <2>0, HitEffect
  <2>3. \A u \in Ways : d.way[i][u].valid = c.way[i][u].valid /\ d.way[i][u].tag = c.way[i][u].tag
    BY <1>2, <2>1, <2>2
  <2>4. Holds(d, r, l) = {u \in Ways : d.way[i][u].valid /\ d.way[i][u].tag = Tag(l)}
    BY <1>0, <2>2 DEF Holds
  <2>5. HoldsClean(d, r, l) = {u \in Holds(d, r, l) : ~d.way[i][u].dirty}
    BY <1>0, <2>2 DEF HoldsClean
  <2>6. Holds(d, r, l) = Holds(c, q, l)
    BY <1>4, <2>3, <2>4
  <2>7. Resp(c, q)
    BY <1>7 DEF Resp
  <2>8. CASE q.write /\ l = q.line
    <3>1. i = s /\ w \in Holds(c, q, l) /\ w \in Holds(d, r, l) /\ w \notin HoldsClean(d, r, l)
      BY <1>0, <1>4, <2>1, <2>2, <2>5, <2>6, <2>8
    <3>2. Copy(c, q, l) = Data(c, l, w)
      BY <3>1, OneWay
    <3>3. Copy(d, r, l) = Data(d, l, w) /\ ~HasClean(d, r, l)
      BY <3>1, OneWay
    <3>4. Data(d, l, w) = Merged(q, Data(c, l, w))
      BY <1>0, <2>2, <3>1 DEF Data
    <3>5. Has(c, q, l) /\ Has(d, r, l)
      BY <3>1 DEF Has
    <3> QED BY <2>7, <2>8, <3>2, <3>3, <3>4, <3>5 DEF Stored
  <2>9. CASE ~(q.write /\ l = q.line)
    <3>1. \A u \in Holds(c, q, l) : /\ d.way[i][u].dirty <=> c.way[i][u].dirty
                                    /\ d.way[i][u].data = c.way[i][u].data
      <4>1. SUFFICES ASSUME NEW u \in Holds(c, q, l)
                     PROVE  /\ d.way[i][u].dirty <=> c.way[i][u].dirty
                            /\ d.way[i][u].data = c.way[i][u].data
        OBVIOUS
      <4>2. u \in Ways /\ c.way[i][u].tag = Tag(l)
        BY <1>4
      <4>3. CASE i = s /\ u = w
        <5>1. ~q.write
          BY <1>3, <2>1, <2>9, <4>2, <4>3
        <5>2. c.way[s][w].data \in LineData
          BY <1>2, <2>1, <1>1 DEF IsCache
        <5>3. Merged(q, c.way[s][w].data) = c.way[s][w].data
          BY <5>1, <5>2 DEF Merged, LineData
        <5> QED BY <2>2, <4>3, <5>1, <5>3
      <4>4. CASE ~(i = s /\ u = w)
        BY <1>2, <2>2, <4>2, <4>4
      <4> QED BY <4>3, <4>4
    <3>2. HoldsClean(d, r, l) = HoldsClean(c, q, l)
      BY <1>5, <2>5, <2>6, <3>1
    <3>3. \A u \in Holds(c, q, l) : Data(d, l, u) = Data(c, l, u)
      BY <1>0, <3>1 DEF Data
    <3> QED BY <2>6, <2>9, <3>2, <3>3, KeptIf
  <2> QED BY <2>8, <2>9
<1>8. CASE Asks(q) /\ Hits(c, q) = {} /\ d = [c EXCEPT !.state = MissState(c, q)]
  <2>1. d.state = MissState(c, q) /\ d.lru = c.lru /\ d.way = c.way
    BY <1>1, <1>8, MissEffect
  <2>2. ~Resp(c, q)
    BY <1>8 DEF Resp
  <2>3. Index(r.line) = s /\ Victim(d, r) = v
    BY <1>0, <1>2, <2>1 DEF MissState, Victim
  <2>4. CASE MissState(c, q) = "write_back"
    <3>1. c.way[s][v].dirty
      BY <1>0, <2>4 DEF MissState
    <3>2. Holds(d, r, l) = Holds(c, q, l)
      BY <1>0, <1>4, <2>1, <2>4 DEF Holds
    <3>3. HoldsClean(d, r, l) = HoldsClean(c, q, l)
      BY <1>0, <1>5, <2>1, <2>3, <2>4, <3>1, <3>2 DEF HoldsClean
    <3> QED BY <2>1, <2>2, <3>2, <3>3, KeptIf DEF Data
  <2>5. CASE MissState(c, q) = "pmem"
    <3>1. ~d.way[s][v].dirty
      BY <2>1, <2>3, <2>5 DEF CacheInv, MissOK
    <3>2. Holds(d, r, l) = {w \in Holds(c, q, l) : ~(i = s /\ w = v)}
      BY <1>0, <1>4, <2>1, <2>3, <2>5 DEF Holds
    <3>3. HoldsClean(d, r, l) = {w \in Holds(d, r, l) : ~c.way[i][w].dirty}
      BY <1>0, <2>1, <2>5 DEF HoldsClean
    <3>4. CASE i = s /\ v \in Holds(c, q, l)
      <4>1. Holds(c, q, l) = {v}
        BY <3>4, OneWay
      <4>2. HasClean(c, q, l)
        BY <1>5, <2>1, <3>1, <3>4 DEF HasClean
      <4>3. Holds(d, r, l) = {} /\ HoldsClean(d, r, l) = {}
        BY <3>2, <3>3, <3>4, <4>1
      <4> QED BY <2>2, <4>1, <4>2, <4>3 DEF Dropped, Has, HasClean
    <3>5. CASE ~(i = s /\ v \in Holds(c, q, l))
      <4>1. Holds(d, r, l) = Holds(c, q, l)
        BY <3>2, <3>5
      <4>2. HoldsClean(d, r, l) = HoldsClean(c, q, l)
        BY <1>5, <3>3, <4>1
      <4> QED BY <2>1, <2>2, <4>1, <4>2, KeptIf DEF Data
    <3> QED BY <3>4, <3>5
  <2> QED BY <2>4, <2>5 DEF MissState
<1> QED BY <1>1, <1>6, <1>7, <1>8, Cases

\* The line that is on its way down is held, and is not to be dropped yet.
LEMMA BelowHeld ==
    ASSUME Sizes, NEW S, NEW D, NEW q, IsRequest(q, S, D), AreLines(S),
           NEW c, CacheInv(c, q, S, D), c.state = "write_back",
           NEW l, l = Below(c, q).line
    PROVE  /\ l \in S /\ l \in D /\ l \in 0 .. NumLines - 1
           /\ Has(c, q, l) /\ ~HasClean(c, q, l) /\ Copy(c, q, l) = Below(c, q).wdata
           /\ Index(l) = Index(q.line) /\ Victim(c, q) \in Holds(c, q, l)
<1>0. PICK s, v, way : s = Index(q.line) /\ v = Victim(c, q) /\ way = c.way[s][v]
  OBVIOUS
<1>1. IsCache(c) /\ q.line \in 0 .. NumLines - 1
  BY DEF CacheInv, IsRequest
<1>2. s \in Sets /\ v \in Ways /\ way.tag \in Nat
  BY <1>0, <1>1, Places DEF Victim
<1>3. way.valid /\ LineOf(s, way) \in D
  BY <1>0 DEF CacheInv, MissOK
<1>4. LineOf(s, way) \in S
  BY <1>0, <1>2, <1>3 DEF CacheInv, WaysOK
<1>5. l = LineOf(s, way)
  BY <1>0 DEF Below, LineOf
<1>6. Index(l) = s /\ Tag(l) = way.tag
  BY <1>2, <1>5, Division DEF LineOf
<1>7. v \in Holds(c, q, l) /\ v \notin HoldsClean(c, q, l)
  BY <1>0, <1>2, <1>3, <1>6 DEF Holds, HoldsClean
<1>8. /\ l \in 0 .. NumLines - 1 /\ Has(c, q, l) /\ ~HasClean(c, q, l)
      /\ Copy(c, q, l) = Data(c, l, v)
  <2>1. l \in 0 .. NumLines - 1
    BY <1>4, <1>5 DEF AreLines
  <2> QED BY <1>7, <2>1, OneWay DEF Has
<1>9. Data(c, l, v) = Below(c, q).wdata
  BY <1>0, <1>6 DEF Data, Below
<1> QED BY <1>0, <1>3, <1>4, <1>5, <1>6, <1>7, <1>8, <1>9

\* The line that is written back is dropped when the level below has it.
LEMMA WriteBackContents ==
    ASSUME Sizes, NEW S, NEW D, NEW q, IsRequest(q, S, D), AreLines(S),
           NEW c, CacheInv(c, q, S, D), c.state = "write_back",
           NEW resp \in BOOLEAN, NEW line \in LineData, NEW d, d = Clocked(c, q, resp, line),
           NEW r, CacheInv(d, r, S, D), d.state # "rw" => r.line = q.line,
           NEW l \in 0 .. NumLines - 1
    PROVE  IF resp /\ l = Below(c, q).line THEN Dropped(c, q, d, r, l)
           ELSE Kept(c, q, d, r, l)
<1>0. PICK s, v, i : s = Index(q.line) /\ v = Victim(c, q) /\ i = Index(l)
  OBVIOUS
<1>1. IsCache(c) /\ IsCache(d) /\ q.line \in 0 .. NumLines - 1 /\ l \in Nat
  BY DEF CacheInv, IsRequest, Sizes
<1>2. s \in Sets /\ i \in Sets /\ v \in Ways
  BY <1>0, <1>1, Places DEF Victim
<1>3. d = WriteBackNext(c, q, resp)
  BY <1>1, Cases
<1>4. /\ d.state = IF resp THEN "pmem" ELSE "write_back"
      /\ d.lru = c.lru
      /\ \A j \in Sets \ {s} : d.way[j] = c.way[j]
      /\ \A w \in Ways \ {v} : d.way[s][w] = c.way[s][w]
      /\ d.way[s][v].valid = c.way[s][v].valid
      /\ d.way[s][v].tag = c.way[s][v].tag
      /\ d.way[s][v].data = c.way[s][v].data
  BY <1>0, <1>1, <1>3, WriteBackEffect
<1>5. Index(r.line) = s /\ Victim(d, r) = v
  BY <1>0, <1>4 DEF Victim
<1>6. \A w \in Ways : /\ d.way[i][w].valid = c.way[i][w].valid
                      /\ d.way[i][w].tag = c.way[i][w].tag
                      /\ d.way[i][w].data = c.way[i][w].data
                      /\ ~(i = s /\ w = v) => d.way[i][w] = c.way[i][w]
  BY <1>2, <1>4
<1>7. Holds(c, q, l) = {w \in Ways : c.way[i][w].valid /\ c.way[i][w].tag = Tag(l)}
  BY <1>0 DEF Holds
<1>8. HoldsClean(c, q, l) = {w \in Holds(c, q, l) : ~c.way[i][w].dirty /\ ~(i = s /\ w = v)}
  BY <1>0 DEF HoldsClean
<1>9. CASE ~resp
  <2>1. Holds(d, r, l) = Holds(c, q, l)
    BY <1>0, <1>4, <1>6, <1>7, <1>9 DEF Holds
  <2>2. HoldsClean(d, r, l) = {w \in Holds(c, q, l) : ~d.way[i][w].dirty /\ ~(i = s /\ w = v)}
    BY <1>0, <1>4, <1>5, <1>9, <2>1 DEF HoldsClean
  <2>3. HoldsClean(d, r, l) = HoldsClean(c, q, l)
    BY <1>6, <1>7, <1>8, <2>2
  <2>4. \A w \in Holds(c, q, l) : Data(d, l, w) = Data(c, l, w)
    BY <1>0, <1>6, <1>7 DEF Data
  <2> QED BY <1>9, <2>1, <2>3, <2>4, KeptIf
<1>10. CASE resp
  <2>1. Holds(d, r, l) = {w \in Holds(c, q, l) : ~(i = s /\ w = v)}
    <3>1. Holds(d, r, l) = {w \in Ways : /\ d.way[i][w].valid /\ d.way[i][w].tag = Tag(l)
                                         /\ ~(i = s /\ w = v)}
      BY <1>0, <1>4, <1>5, <1>10 DEF Holds
    <3> QED BY <1>6, <1>7, <3>1
  <2>2. HoldsClean(d, r, l) = {w \in Holds(d, r, l) : ~d.way[i][w].dirty}
    BY <1>0, <1>4, <1>10 DEF HoldsClean
  <2>3. HoldsClean(d, r, l) = HoldsClean(c, q, l)
    BY <1>6, <1>7, <1>8, <2>1, <2>2
  <2>4. CASE l = Below(c, q).line
    <3>1. i = s /\ v \in Holds(c, q, l)
      BY <1>0, <2>4, BelowHeld
    <3>2. Holds(c, q, l) = {v}
      BY <3>1, OneWay
    <3>3. Holds(d, r, l) = {} /\ HoldsClean(d, r, l) = {}
      BY <2>1, <2>2, <3>1, <3>2
    <3> QED BY <1>10, <2>4, <3>2, <3>3 DEF Dropped, Has, HasClean
  <2>5. CASE l # Below(c, q).line
    <3>1. ~(i = s /\ v \in Holds(c, q, l))
      <4>1. SUFFICES ASSUME i = s, v \in Holds(c, q, l) PROVE FALSE
        OBVIOUS
      <4>2. PICK m : m = Below(c, q).line
        OBVIOUS
      <4>3. v \in Holds(c, q, m) /\ Index(m) = s /\ m \in Nat
        BY <1>0, <4>2, BelowHeld DEF Sizes
      <4>4. Tag(m) = Tag(l)
        BY <1>0, <4>1, <4>3 DEF Holds
      <4> QED BY <1>0, <1>1, <2>5, <4>1, <4>2, <4>3, <4>4, SameLine
    <3>2. Holds(d, r, l) = Holds(c, q, l)
      BY <2>1, <3>1
    <3>3. \A w \in Holds(c, q, l) : Data(d, l, w) = Data(c, l, w)
      BY <1>0, <1>6, <1>7 DEF Data
    <3> QED BY <2>3, <2>5, <3>2, <3>3, KeptIf
  <2> QED BY <2>4, <2>5
<1> QED BY <1>9, <1>10

\* The line that is fetched is there when the level below has answered.
LEMMA PmemContents ==
    ASSUME Sizes, NEW S, NEW D, NEW q, IsRequest(q, S, D),
           NEW c, CacheInv(c, q, S, D), c.state = "pmem",
           NEW resp \in BOOLEAN, NEW line \in LineData, NEW d, d = Clocked(c, q, resp, line),
           NEW r, CacheInv(d, r, S, D), d.state # "rw" => r.line = q.line,
           NEW l \in 0 .. NumLines - 1
    PROVE  IF resp /\ l = q.line THEN Filled(c, q, d, r, l, line)
           ELSE Kept(c, q, d, r, l)
<1>0. PICK s, v, i : s = Index(q.line) /\ v = Victim(c, q) /\ i = Index(l)
  OBVIOUS
<1>1. IsCache(c) /\ IsCache(d) /\ q.line \in 0 .. NumLines - 1 /\ q.line \in Nat /\ l \in Nat
  BY DEF CacheInv, IsRequest, Sizes
<1>2. s \in Sets /\ i \in Sets /\ v \in Ways
  BY <1>0, <1>1, Places DEF Victim
<1>3. d = PmemNext(c, q, resp, line)
  BY <1>1, Cases
<1>4. /\ d.state = IF resp THEN "rw" ELSE "pmem"
      /\ d.lru = c.lru
      /\ \A j \in Sets \ {s} : d.way[j] = c.way[j]
      /\ \A w \in Ways \ {v} : d.way[s][w] = c.way[s][w]
      /\ d.way[s][v].valid
      /\ d.way[s][v].tag = Tag(q.line)
      /\ d.way[s][v].data = line
      /\ d.way[s][v].dirty = c.way[s][v].dirty
  BY <1>0, <1>1, <1>3, PmemEffect
<1>5. /\ ~c.way[s][v].dirty
      /\ ~(c.way[s][1 - v].valid /\ c.way[s][1 - v].tag = Tag(q.line))
  BY <1>0 DEF CacheInv, MissOK
<1>6. \A w \in Ways : ~(i = s /\ w = v) => d.way[i][w] = c.way[i][w]
  BY <1>2, <1>4
<1>7. Holds(c, q, l) = {w \in Ways : /\ c.way[i][w].valid /\ c.way[i][w].tag = Tag(l)
                                     /\ ~(i = s /\ w = v)}
  BY <1>0 DEF Holds
<1>8. HoldsClean(c, q, l) = {w \in Holds(c, q, l) : ~c.way[i][w].dirty}
  BY <1>0 DEF HoldsClean
<1>9. Tag(l) = Tag(q.line) /\ i = s => l = q.line
  BY <1>0, <1>1, SameLine
<1>10. \A w \in Holds(c, q, l) : Data(d, l, w) = Data(c, l, w)
  BY <1>0, <1>6, <1>7 DEF Data
<1>11. HoldsClean(d, r, l) = {w \in Holds(d, r, l) : ~d.way[i][w].dirty}
  BY <1>0, <1>4 DEF HoldsClean
<1>12. CASE ~resp
  <2>1. Index(r.line) = s /\ Victim(d, r) = v
    BY <1>0, <1>4, <1>12 DEF Victim
  <2>2. Holds(d, r, l) = Holds(c, q, l)
    BY <1>0, <1>4, <1>6, <1>7, <1>12, <2>1 DEF Holds
  <2>3. HoldsClean(d, r, l) = HoldsClean(c, q, l)
    BY <1>6, <1>7, <1>8, <1>11, <2>2
  <2> QED BY <1>10, <1>12, <2>2, <2>3, KeptIf
<1>13. CASE resp
  <2>1. Holds(d, r, l) = {w \in Ways : d.way[i][w].valid /\ d.way[i][w].tag = Tag(l)}
    BY <1>0, <1>4, <1>13 DEF Holds
  <2>2. CASE l = q.line
    <3>1. v \in Holds(d, r, l) /\ v \in HoldsClean(d, r, l)
      BY <1>0, <1>2, <1>4, <1>5, <1>11, <2>1, <2>2
    <3>2. Holds(c, q, l) = {}
      BY <1>0, <1>2, <1>5, <1>7, <2>2 DEF Ways
    <3>3. Copy(d, r, l) = Data(d, l, v)
      BY <3>1, OneWay
    <3>4. Data(d, l, v) = line
      BY <1>0, <1>4, <2>2 DEF Data
    <3> QED BY <1>13, <2>2, <3>1, <3>2, <3>3, <3>4 DEF Filled, Has, HasClean
  <2>3. CASE l # q.line
    <3>1. Holds(d, r, l) = Holds(c, q, l)
      BY <1>2, <1>4, <1>6, <1>7, <1>9, <2>1, <2>3
    <3>2. HoldsClean(d, r, l) = HoldsClean(c, q, l)
      BY <1>6, <1>7, <1>8, <1>11, <3>1
    <3> QED BY <1>10, <2>3, <3>1, <3>2, KeptIf
  <2> QED BY <2>2, <2>3
<1> QED BY <1>12, <1>13

\* An empty cache holds nothing.
LEMMA EmptyContents ==
    ASSUME Sizes, NEW q, NEW l \in 0 .. NumLines - 1
    PROVE  ~Has(Reset, q, l) /\ ~HasClean(Reset, q, l)
<1>1. Index(l) \in Sets
  BY Division DEF Sizes
<1>2. \A w \in Ways : ~Reset.way[Index(l)][w].valid
  BY <1>1 DEF Reset, EmptyWay
<1>3. Holds(Reset, q, l) = {}
  BY <1>2 DEF Holds
<1> QED BY <1>3 DEF Has, HasClean, HoldsClean

\* A response carries the line.
LEMMA Answers ==
    ASSUME Sizes, NEW S, NEW D, NEW q, IsRequest(q, S, D),
           NEW c, CacheInv(c, q, S, D), Resp(c, q)
    PROVE  Has(c, q, q.line) /\ RData(c, q) = Copy(c, q, q.line)
<1>1. PICK w : w = HitWay(c, q)
  OBVIOUS
<1>2. /\ w \in Ways /\ c.way[Index(q.line)][w].valid
      /\ c.way[Index(q.line)][w].tag = Tag(q.line)
  BY <1>1, HitWayHits DEF Resp
<1>3. w \in Holds(c, q, q.line)
  BY <1>2 DEF Holds, Resp
<1>4. q.line \in 0 .. NumLines - 1
  BY DEF IsRequest
<1>5. Copy(c, q, q.line) = Data(c, q.line, w)
  BY <1>3, <1>4, OneWay
<1> QED BY <1>1, <1>3, <1>5 DEF Has, RData, Data

\* What the wires carry has its type.
LEMMA WiresTyped ==
    ASSUME Sizes, NEW S, NEW D, NEW q, IsRequest(q, S, D), AreLines(S),
           NEW c, CacheInv(c, q, S, D)
    PROVE  /\ RData(c, q) \in LineData
           /\ Resp(c, q) \in BOOLEAN
           /\ Below(c, q) \in [read : BOOLEAN, write : BOOLEAN, line : 0 .. NumLines - 1,
                               mbe : SUBSET Beats, wdata : LineData]
<1>1. IsCache(c) /\ q.line \in 0 .. NumLines - 1
  BY DEF CacheInv, IsRequest
<1>2. \A w \in Ways : c.way[Index(q.line)][w].data \in LineData
  BY <1>1, Places
<1>3. RData(c, q) \in LineData
  <2>1. CASE Resp(c, q)
    BY <1>2, <2>1, HitWayHits DEF RData, Resp
  <2>2. CASE ~Resp(c, q)
    BY <2>2 DEF RData, LineData
  <2> QED BY <2>1, <2>2
<1>4. Below(c, q).wdata \in LineData
  BY <1>1, <1>2, Places DEF Below, Victim
<1>5. Below(c, q).line \in 0 .. NumLines - 1
  BY <1>1, BelowHeld DEF Below
<1> QED BY <1>3, <1>4, <1>5 DEF Below, Resp

---------------------------------------------------------------------------
\* A cache that answers, or that nothing is asked of, stays ready.
LEMMA StaysReady ==
    ASSUME Sizes, NEW S, NEW D, NEW q, IsRequest(q, S, D),
           NEW c, CacheInv(c, q, S, D), Resp(c, q) \/ ~Asks(q),
           NEW resp, NEW line, NEW d, d = Clocked(c, q, resp, line)
    PROVE  c.state = "rw" /\ d.state = "rw"
<1>1. IsCache(c)
  BY DEF CacheInv
<1>2. c.state = "rw"
  BY DEF CacheInv, MissOK, Resp
<1>3. CASE ~Asks(q)
  BY <1>1, <1>2, <1>3, Cases
<1>4. CASE Hits(c, q) # {} /\ Asks(q)
  <2>1. d = HitNext(c, q)
    BY <1>1, <1>2, <1>4, Cases
  <2> QED BY <1>1, <1>2, <1>4, <2>1, HitEffect
<1> QED BY <1>3, <1>4 DEF Resp

\* A cache that is ready becomes busy by a miss only.
LEMMA MissesOnly ==
    ASSUME Sizes, NEW S, NEW D, NEW q, IsRequest(q, S, D),
           NEW c, CacheInv(c, q, S, D), c.state = "rw",
           NEW resp, NEW line, NEW d, d = Clocked(c, q, resp, line), d.state # "rw"
    PROVE  Asks(q) /\ ~Resp(c, q)
BY StaysReady

\* A cache that waits repeats its request until it is answered.
LEMMA Waiting ==
    ASSUME Sizes, NEW S, NEW D, NEW q, IsRequest(q, S, D),
           NEW c, CacheInv(c, q, S, D), c.state # "rw",
           NEW resp, ~resp, NEW line \in LineData, NEW d, d = Clocked(c, q, resp, line)
    PROVE  /\ d.state = c.state
           /\ Below(d, q).line = Below(c, q).line
           /\ c.state = "write_back" => Below(d, q).wdata = Below(c, q).wdata
<1>0. PICK s, v : s = Index(q.line) /\ v = Victim(c, q)
  OBVIOUS
<1>1. IsCache(c)
  BY DEF CacheInv
<1>2. CASE c.state = "pmem"
  <2>1. d = PmemNext(c, q, resp, line)
    BY <1>1, <1>2, Cases
  <2>2. d.state = "pmem"
    BY <1>0, <1>1, <1>2, <2>1, PmemEffect
  <2> QED BY <1>2, <2>2 DEF Below
<1>3. CASE c.state = "write_back"
  <2>1. d = WriteBackNext(c, q, resp)
    BY <1>1, <1>3, Cases
  <2>2. /\ d.state = "write_back" /\ d.lru = c.lru
        /\ d.way[s][v].tag = c.way[s][v].tag /\ d.way[s][v].data = c.way[s][v].data
    BY <1>0, <1>1, <1>3, <2>1, WriteBackEffect
  <2> QED BY <1>0, <1>3, <2>2 DEF Below, Victim
<1> QED BY <1>1, <1>2, <1>3 DEF IsCache

\* A cache holds lines that are asked for, and those that are not written
\* may be dropped.
LEMMA HeldLines ==
    ASSUME Sizes, NEW S, NEW D, NEW q, NEW c, CacheInv(c, q, S, D),
           NEW l \in 0 .. NumLines - 1, Has(c, q, l)
    PROVE  l \in S /\ (l \notin D => HasClean(c, q, l))
<1>1. PICK w : w \in Holds(c, q, l)
  BY DEF Has
<1>2. PICK s : s = Index(l)
  OBVIOUS
<1>3. s \in Sets /\ w \in Ways /\ c.way[s][w].valid /\ c.way[s][w].tag = Tag(l)
  BY <1>1, <1>2, Places DEF Holds, CacheInv
<1>4. LineOf(s, c.way[s][w]) = l
  BY <1>2, <1>3, Division DEF LineOf, Sizes
<1>5. l \in S
  BY <1>3, <1>4 DEF CacheInv, WaysOK
<1>6. ASSUME l \notin D
      PROVE  HasClean(c, q, l)
  <2>1. ~c.way[s][w].dirty
    BY <1>3, <1>4, <1>6 DEF CacheInv, WaysOK
  <2>2. ~(c.state = "write_back" /\ s = Index(q.line) /\ w = Victim(c, q))
    BY <1>4, <1>6 DEF CacheInv, MissOK
  <2>3. w \in HoldsClean(c, q, l)
    BY <1>1, <1>2, <2>1, <2>2 DEF HoldsClean
  <2> QED BY <2>3 DEF HasClean
<1> QED BY <1>5, <1>6

---------------------------------------------------------------------------
(* How a cache comes to answer *)

\* The answer depends on the line asked for only.
LEMMA SameAnswer ==
    ASSUME NEW c, NEW q, NEW r, q.line = r.line, Asks(q) <=> Asks(r)
    PROVE  Resp(c, q) <=> Resp(c, r)
BY DEF Resp, Hits

\* A hit stays a hit.
LEMMA AnswersAgain ==
    ASSUME Sizes, NEW S, NEW D, NEW q, IsRequest(q, S, D),
           NEW c, CacheInv(c, q, S, D), Resp(c, q),
           NEW resp, NEW line, NEW d, d = Clocked(c, q, resp, line)
    PROVE  Resp(d, q)
<1>0. PICK s, w : s = Index(q.line) /\ w = HitWay(c, q)
  OBVIOUS
<1>1. IsCache(c) /\ c.state = "rw" /\ Asks(q) /\ Hits(c, q) # {}
  BY DEF CacheInv, Resp
<1>2. d = HitNext(c, q)
  BY <1>1, Cases
<1>3. w \in Ways /\ c.way[s][w].valid /\ c.way[s][w].tag = Tag(q.line)
  BY <1>0, <1>1, HitWayHits
<1>4. d.state = "rw" /\ d.way[s][w].valid /\ d.way[s][w].tag = Tag(q.line)
  BY <1>0, <1>1, <1>2, <1>3, HitEffect
<1>5. w \in Hits(d, q)
  BY <1>0, <1>3, <1>4 DEF Hits
<1> QED BY <1>1, <1>4, <1>5 DEF Resp

\* A miss leaves the state in which requests are answered, for a write-back
\* only if lines are written.
LEMMA MissStarts ==
    ASSUME Sizes, NEW S, NEW D, NEW q, IsRequest(q, S, D),
           NEW c, CacheInv(c, q, S, D), c.state = "rw", Asks(q), ~Resp(c, q),
           NEW resp, NEW line, NEW d, d = Clocked(c, q, resp, line)
    PROVE  d.state \in {"write_back", "pmem"}
<1>1. IsCache(c) /\ Hits(c, q) = {}
  BY DEF CacheInv, Resp
<1>2. d = [c EXCEPT !.state = MissState(c, q)]
  BY <1>1, Cases
<1>3. d.state = MissState(c, q)
  BY <1>1, <1>2, MissEffect
<1> QED BY <1>3 DEF MissState

\* After a write-back comes the fill.
Fills(c) == c.state = "pmem"

LEMMA WrittenThenFilled ==
    ASSUME Sizes, NEW S, NEW D, NEW q, IsRequest(q, S, D),
           NEW c, CacheInv(c, q, S, D), c.state # "rw",
           NEW resp \in BOOLEAN, NEW line \in LineData, NEW d, d = Clocked(c, q, resp, line)
    PROVE  resp /\ c.state = "write_back" => Fills(d)
<1> SUFFICES ASSUME c.state = "write_back" PROVE resp => d.state = "pmem"
  BY DEF Fills
<1>1. IsCache(c)
  BY DEF CacheInv
<1>2. d = WriteBackNext(c, q, resp)
  BY <1>1, Cases
<1>3. PICK s, v : s = Index(q.line) /\ v = Victim(c, q)
  OBVIOUS
<1>4. d.state = IF resp THEN "pmem" ELSE c.state
  BY <1>1, <1>2, <1>3, WriteBackEffect
<1> QED BY <1>4

\* What was filled answers.
LEMMA FilledAnswers ==
    ASSUME Sizes, NEW S, NEW D, NEW q, IsRequest(q, S, D),
           NEW c, CacheInv(c, q, S, D), c.state = "pmem",
           NEW resp \in BOOLEAN, NEW line \in LineData, NEW d, d = Clocked(c, q, resp, line)
    PROVE  resp => Resp(d, q)
<1>0. PICK s, v : s = Index(q.line) /\ v = Victim(c, q)
  OBVIOUS
<1>1. IsCache(c) /\ Asks(q)
  BY DEF CacheInv, MissOK
<1>2. d = PmemNext(c, q, resp, line)
  BY <1>1, Cases
<1>3. /\ d.state = IF resp THEN "rw" ELSE c.state
      /\ d.way[s][v].valid /\ d.way[s][v].tag = Tag(q.line)
  BY <1>0, <1>1, <1>2, PmemEffect
<1>4. v \in Ways
  BY <1>0, <1>1, Places DEF IsRequest, Victim
<1>5. v \in Hits(d, q)
  BY <1>0, <1>3, <1>4 DEF Hits
<1> QED BY <1>1, <1>3, <1>5 DEF Resp
====
