---- MODULE Cache ----
(***************************************************************************)
(* The two-way set-associative write-back cache of the RISC-V processor,   *)
(* as operators on one record: cache_control with cache_datapath (the L1   *)
(* caches) and l2cache_control with l2cache_datapath are this one machine  *)
(* with a different number of sets.  An operator is either what the wires  *)
(* carry during a cycle or what the registers hold after the clock edge.   *)
(* q is the request from above:                                            *)
(* [read, write, line, mbe (the words enabled), wdata].                    *)
(***************************************************************************)
EXTENDS Naturals

CONSTANTS
    NumLines,   \* number of line addresses; a line is its address without offset
    Beats,      \* the words of a line
    Words,      \* what a word can hold
    Junk,       \* a word about which nothing is promised
    NumSets     \* 2^s_index

Ways == {0, 1}
Sets == 0 .. NumSets - 1

Index(line) == line % NumSets
Tag(line) == line \div NumSets

EmptyWay == [valid |-> FALSE, dirty |-> FALSE, tag |-> 0,
             data |-> [b \in Beats |-> Junk]]

\* rst
Reset ==
    [state |-> "rw",
     lru   |-> [s \in Sets |-> 0],
     way   |-> [s \in Sets |-> [w \in Ways |-> EmptyWay]]]

LineData == [Beats -> Words \cup {Junk}]

IsCache(c) ==
    c \in [state : {"rw", "write_back", "pmem"},
          lru   : [Sets -> Ways],
          way   : [Sets -> [Ways -> [valid : BOOLEAN, dirty : BOOLEAN,
                                     tag : 0 .. NumLines - 1, data : LineData]]]]

---------------------------------------------------------------------------
(* Wires *)

Asks(q) == q.read \/ q.write

\* comparator0 and comparator1
Hits(c, q) ==
    {w \in Ways : c.way[Index(q.line)][w].valid
                    /\ c.way[Index(q.line)][w].tag = Tag(q.line)}
HitWay(c, q) == IF 0 \in Hits(c, q) THEN 0 ELSE 1
Victim(c, q) == c.lru[Index(q.line)]

\* mem_resp, and mem_rdata while mem_resp is up
Resp(c, q) == c.state = "rw" /\ Asks(q) /\ Hits(c, q) # {}
RData(c, q) ==
    IF Resp(c, q) THEN c.way[Index(q.line)][HitWay(c, q)].data
                  ELSE [b \in Beats |-> Junk]

\* The request to the level below: pmem_read, pmem_write, pmem_address,
\* pmem_mbe and pmem_wdata.
Below(c, q) ==
    LET victim == c.way[Index(q.line)][Victim(c, q)] IN
    [read  |-> c.state = "pmem",
     write |-> c.state = "write_back",
     line  |-> IF c.state = "write_back"
               THEN victim.tag * NumSets + Index(q.line) ELSE q.line,
     mbe   |-> Beats,
     wdata |-> victim.data]

---------------------------------------------------------------------------
(* The clock edge *)

\* Mutant: a dirty victim is dropped.
MissState_NoWriteBack(c, q) == "pmem"

\* A miss writes a dirty victim back, if both ways are valid.
MissState(c, q) ==
    LET set == c.way[Index(q.line)]
    IN  IF set[0].valid /\ set[1].valid /\ set[Victim(c, q)].dirty
        THEN "write_back" ELSE "pmem"

\* Mutants: the way just used is the next victim; a wrong way number.
HitNext_Mru(c, q) == [c EXCEPT !.lru[Index(q.line)] = HitWay(c, q),
                               !.way[Index(q.line)][HitWay(c, q)].dirty = @ \/ q.write]
HitNext_OffByOne(c, q) == [c EXCEPT !.lru[Index(q.line)] = HitWay(c, q) + 1]

HitNext(c, q) ==
    LET s == Index(q.line)
        w == HitWay(c, q)
        way == c.way[s][w]
        data == [b \in Beats |-> IF q.write /\ b \in q.mbe THEN q.wdata[b] ELSE way.data[b]]
    IN  [c EXCEPT !.lru[s] = 1 - w,
                  !.way[s][w] = [way EXCEPT !.dirty = way.dirty \/ q.write, !.data = data]]

RwNext(c, q) ==
    IF ~Asks(q) THEN c
    ELSE IF Hits(c, q) # {} THEN HitNext(c, q)
    ELSE [c EXCEPT !.state = MissState(c, q)]

\* The victim counts as clean from the first cycle of its write-back on.
WriteBackNext(c, q, resp) ==
    [c EXCEPT !.state = IF resp THEN "pmem" ELSE @,
              !.way[Index(q.line)][Victim(c, q)].dirty = FALSE]

\* Tag, valid bit and data are loaded in every cycle, with whatever the level
\* below drives, until it responds.
PmemNext(c, q, resp, line) ==
    [c EXCEPT !.state = IF resp THEN "rw" ELSE @,
              !.way[Index(q.line)][Victim(c, q)] =
                 [@ EXCEPT !.valid = TRUE, !.tag = Tag(q.line), !.data = line]]

Clocked(c, q, resp, line) ==
    CASE c.state = "rw"         -> RwNext(c, q)
      [] c.state = "write_back" -> WriteBackNext(c, q, resp)
      [] c.state = "pmem"       -> PmemNext(c, q, resp, line)

---------------------------------------------------------------------------
(* For the properties *)

\* The ways with a line's data; a way that is being filled has none yet.
Holds(c, q, line) ==
    {w \in Ways : /\ c.way[Index(line)][w].valid
                  /\ c.way[Index(line)][w].tag = Tag(line)
                  /\ ~(c.state = "pmem" /\ Index(line) = Index(q.line)
                                        /\ w = Victim(c, q))}

\* ... those that may be dropped: clean, and not on their way down.
HoldsClean(c, q, line) ==
    {w \in Holds(c, q, line) :
        /\ ~c.way[Index(line)][w].dirty
        /\ ~(c.state = "write_back" /\ Index(line) = Index(q.line)
                                    /\ w = Victim(c, q))}

Data(c, line, w) == c.way[Index(line)][w].data

\* While a set has an invalid way, the next miss fills such a way.
InvalidWayNext(c) ==
    \A s \in Sets : (\E w \in Ways : ~c.way[s][w].valid)
                       => ~c.way[s][c.lru[s]].dirty
====
