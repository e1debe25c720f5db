---- MODULE MemoryHierarchy ----
(***************************************************************************)
(* The memory hierarchy of the RISC-V processor mp3, a step a clock cycle: *)
(* instruction and data cache, arbiter with its prefetcher, L2 cache,      *)
(* cacheline adaptor, burst memory.  The pipeline is the environment: it   *)
(* holds a fetch and a data access until both are answered in one cycle.   *)
(***************************************************************************)
EXTENDS Naturals

CONSTANTS
    NumLines,               \* line addresses 0 .. NumLines - 1
    CodeLines,              \* lines instructions are fetched from
    DataLines,              \* lines loaded from and stored to
    StoreLines, StoreBeats, \* where the program stores
    Vals, InitVal,          \* values stored, and in memory before the first store
    L1_SETS, L2_SETS,       \* sets of an L1 cache (8) and of the L2 cache (16)
    Junk, None

ASSUME ProgramAssumption ==
    /\ {NumLines, L1_SETS, L2_SETS} \subseteq Nat \ {0}
    \* No self-modifying code: nothing keeps the instruction cache coherent.
    /\ StoreLines \subseteq DataLines
    /\ StoreLines \cap CodeLines = {}
    /\ CodeLines \cup DataLines \subseteq 0 .. NumLines - 1
    /\ StoreBeats \subseteq 1 .. 4

Lines == 0 .. NumLines - 1
Beats == 1 .. 4             \* the 64-bit words of a line

\* A word is named by its place and the value last stored there.
Words == Lines \X Beats \X (Vals \cup {InitVal})
JunkLine == [b \in Beats |-> Junk]

\* No answer is not an answer.
ASSUME NoneAssumption ==
    None \notin [inst : [Beats -> Words], data : [Beats -> Words] \cup {None}]

VARIABLES
    core,                   \* the requests of the fetch and of the memory stage
    icache, dcache, l2,     \* the caches
    arb,                    \* state of arb_control
    prefetch_address,
    cad,                    \* state and line_o of cacheline_adaptor
    memory, burst,          \* ParamMemory: _mem and the burst it is in
    stalled                 \* history: cycles the pipeline has been stalled for,
                            \* those the memory waits in apart

vars == <<core, icache, dcache, l2, arb, prefetch_address, cad, memory, burst, stalled>>

L1 == INSTANCE Cache WITH NumSets <- L1_SETS
L2 == INSTANCE Cache WITH NumSets <- L2_SETS

---------------------------------------------------------------------------
(* Requests *)

NoAccess == [read |-> FALSE, write |-> FALSE, line |-> 0, mbe |-> {}, wdata |-> JunkLine]
Read(line) == [NoAccess EXCEPT !.read = TRUE, !.line = line]
Write(line, beat, v) ==
    [NoAccess EXCEPT !.write = TRUE, !.line = line, !.mbe = {beat},
                     !.wdata = [b \in Beats |-> <<line, b, v>>]]

Fetches == {Read(line) : line \in CodeLines}
Accesses == {NoAccess} \cup {Read(line) : line \in DataLines}
              \cup {Write(line, b, v) : line \in StoreLines, b \in StoreBeats, v \in Vals}
Requests == [fetch : Fetches, data : Accesses]

---------------------------------------------------------------------------
(* Wires *)

ICacheAsks == L1!Below(icache, core.fetch)
DCacheAsks == L1!Below(dcache, core.data)

\* read_mux, write_mux, addr_mux, wdata_mux and mbe_mux
ToL2 ==
    CASE arb \in {"conflict", "dc_access"} -> DCacheAsks
      [] arb = "ic_access" -> ICacheAsks
      [] arb = "prefetch"  -> [ICacheAsks EXCEPT !.read = TRUE, !.write = FALSE,
                                                 !.line = prefetch_address]
      [] arb = "idle"      -> [DCacheAsks EXCEPT !.read = FALSE, !.write = FALSE]

\* Mutant: the response to a prefetch goes to the instruction cache.
arb_iresp_Prefetch(q) == L2!Resp(l2, q) /\ arb \in {"ic_access", "prefetch"}

\* resp_mux and rdata_mux
arb_iresp(q) == L2!Resp(l2, q) /\ arb = "ic_access"
arb_dresp(q) == L2!Resp(l2, q) /\ arb \in {"conflict", "dc_access"}
arb_irdata(q) == IF arb \in {"ic_access", "prefetch"} THEN L2!RData(l2, q) ELSE JunkLine
arb_drdata(q) == IF arb \in {"ic_access", "prefetch"} THEN JunkLine ELSE L2!RData(l2, q)

\* cacheline_adaptor and the memory
ToCad == L2!Below(l2, ToL2)
Reading == <<"read1", "read2", "read3", "read4">>
Writing == <<"write1", "write2", "write3", "write4">>
read_o == (cad.state = "idle" /\ ToCad.read) \/ \E n \in Beats : cad.state = Reading[n]
write_o == (cad.state = "idle" /\ ToCad.write) \/ \E n \in Beats : cad.state = Writing[n]
address_o == ToCad.line
burst_o == ToCad.wdata[CHOOSE n \in Beats : cad.state = Writing[n]]
cad_resp == cad.state \in {"readDone", "writeDone"}
resp_i == burst.beat \in Beats
burst_i == IF resp_i THEN memory[address_o][burst.beat] ELSE Junk

\* stall
Stall ==
    \/ ~L1!Resp(icache, core.fetch)
    \/ L1!Asks(core.data) /\ ~L1!Resp(dcache, core.data)

---------------------------------------------------------------------------
(* The clock edge *)

Init ==
    /\ core \in Requests
    /\ icache = L1!Reset
    /\ dcache = L1!Reset
    /\ l2 = L2!Reset
    /\ arb = "idle"
    /\ prefetch_address = 0
    /\ cad = [state |-> "reset", line_o |-> JunkLine]
    /\ memory = [line \in Lines |-> [b \in Beats |-> <<line, b, InitVal>>]]
    /\ burst = [busy |-> FALSE, beat |-> 0]
    /\ stalled = 0

\* Mutant: after the data cache the arbiter stays where it is.
ArbNext_NoIdle(l2_resp) ==
    LET iasks == ICacheAsks.read \/ ICacheAsks.write
        dasks == DCacheAsks.read \/ DCacheAsks.write
    IN  CASE arb = "idle"      -> IF iasks /\ dasks THEN "conflict"
                                  ELSE IF iasks THEN "ic_access"
                                  ELSE IF dasks THEN "dc_access" ELSE "idle"
          [] arb # "idle" /\ ~l2_resp -> arb
          [] arb = "conflict"  /\ l2_resp -> "ic_access"
          [] arb = "ic_access" /\ l2_resp -> IF dasks THEN "dc_access" ELSE "prefetch"
          [] arb = "dc_access" /\ l2_resp -> IF iasks THEN "ic_access" ELSE arb
          [] arb = "prefetch"  /\ l2_resp -> "idle"

\* next_state_logic of arb_control
ArbNext(l2_resp) ==
    LET iasks == ICacheAsks.read \/ ICacheAsks.write
        dasks == DCacheAsks.read \/ DCacheAsks.write
    IN  CASE arb = "idle"      -> IF iasks /\ dasks THEN "conflict"
                                  ELSE IF iasks THEN "ic_access"
                                  ELSE IF dasks THEN "dc_access" ELSE "idle"
          [] arb # "idle" /\ ~l2_resp -> arb
          [] arb = "conflict"  /\ l2_resp -> "ic_access"
          [] arb = "ic_access" /\ l2_resp -> IF dasks THEN "dc_access" ELSE "prefetch"
          [] arb = "dc_access" /\ l2_resp -> IF iasks THEN "ic_access" ELSE "idle"
          [] arb = "prefetch"  /\ l2_resp -> "idle"

\* Mutant: the address is loaded during a prefetch too.
PrefetchNext_Always ==
    IF ICacheAsks.read THEN (ICacheAsks.line + 1) % NumLines ELSE prefetch_address

\* The line after the one the instruction cache asks for.
PrefetchNext ==
    IF ICacheAsks.read /\ arb # "prefetch"
    THEN (ICacheAsks.line + 1) % NumLines ELSE prefetch_address

\* next_state_logic of cacheline_adaptor
CadStateNext ==
    CASE cad.state = "idle"   -> IF ToCad.read THEN "read1"
                                 ELSE IF ToCad.write THEN "write1" ELSE "idle"
      [] cad.state = "reset"  -> "idle"
      [] cad.state = "read1"  -> IF resp_i THEN "read2" ELSE "read1"
      [] cad.state = "read4"  -> "readDone"
      [] cad.state = "write1" -> IF resp_i THEN "write2" ELSE "write1"
      [] cad.state = "write4" -> "writeDone"
      [] cad_resp             -> IF resp_i THEN cad.state ELSE "idle"
      [] \E n \in 2 .. 3 : cad.state = Reading[n] ->
            Reading[1 + CHOOSE n \in 2 .. 3 : cad.state = Reading[n]]
      [] \E n \in 2 .. 3 : cad.state = Writing[n] ->
            Writing[1 + CHOOSE n \in 2 .. 3 : cad.state = Writing[n]]

\* line_o.  What earlier bursts left in it counts as junk.
CadLineNext ==
    CASE cad.state = "readDone" -> cad.line_o
      [] \E n \in Beats : cad.state = Reading[n] ->
            [cad.line_o EXCEPT ![CHOOSE n \in Beats : cad.state = Reading[n]] = burst_i]
      [] OTHER -> JunkLine

\* memread and memwrite: any number of cycles, then four beats.
Waits(answers) == burst.busy /\ burst.beat = 0 /\ ~answers
BurstNext(answers) ==
    IF ~burst.busy THEN [burst EXCEPT !.busy = read_o \/ write_o]
    ELSE IF burst.beat = 4 THEN [busy |-> FALSE, beat |-> 0]
    ELSE IF Waits(answers) THEN burst
    ELSE [burst EXCEPT !.beat = @ + 1]

MemoryNext ==
    IF resp_i /\ write_o THEN [memory EXCEPT ![address_o][burst.beat] = burst_o]
    ELSE memory

Cycle(answers) ==
    LET q == ToL2
        stall == Stall
    IN
    /\ icache' = L1!Clocked(icache, core.fetch, arb_iresp(q), arb_irdata(q))
    /\ dcache' = L1!Clocked(dcache, core.data, arb_dresp(q), arb_drdata(q))
    /\ l2' = L2!Clocked(l2, q, cad_resp, cad.line_o)
    /\ arb' = ArbNext(L2!Resp(l2, q))
    /\ prefetch_address' = PrefetchNext
    /\ cad' = [state |-> CadStateNext, line_o |-> CadLineNext]
    /\ memory' = MemoryNext
    /\ burst' = BurstNext(answers)
    /\ stalled' = IF ~stall THEN 0 ELSE IF Waits(answers) THEN stalled ELSE stalled + 1
    /\ core' \in (IF stall THEN {core} ELSE Requests)

\* The memory chooses only in a cycle in which it may wait.
Next == \E answers \in IF Waits(FALSE) THEN BOOLEAN ELSE {TRUE} : Cycle(answers)

Spec == Init /\ [][Next]_vars

---------------------------------------------------------------------------
(* Properties *)

\* Every register holds what it is declared to hold.
TypeOK ==
    /\ core \in Requests
    /\ L1!IsCache(icache) /\ L1!IsCache(dcache) /\ L2!IsCache(l2)
    /\ arb \in {"idle", "conflict", "ic_access", "dc_access", "prefetch"}
    /\ prefetch_address \in Lines
    /\ cad.state \in {"idle", "reset", "readDone", "writeDone"}
                       \cup {Reading[n] : n \in Beats} \cup {Writing[n] : n \in Beats}
    /\ cad.line_o \in [Beats -> Words \cup {Junk}]
    /\ memory \in [Lines -> [Beats -> Words]]
    /\ burst \in [busy : BOOLEAN, beat : 0 .. 4]

\* A line as the L2 cache and the memory have it (q is the request the L2 cache
\* serves), and the program's lines as the processor sees them.
ProgramLines == CodeLines \cup DataLines
BelowL1(q, line) ==
    LET ways == L2!Holds(l2, q, line)
    IN  IF ways = {} THEN memory[line] ELSE L2!Data(l2, line, CHOOSE w \in ways : TRUE)
Current ==
    LET q == ToL2 IN
    [line \in ProgramLines |->
        LET ways == L1!Holds(dcache, core.data, line)
        IN  IF ways = {} THEN BelowL1(q, line)
            ELSE L1!Data(dcache, line, CHOOSE w \in ways : TRUE)]

\* A clean copy may be dropped: whatever the order of fills, write-backs and
\* prefetches, the level below a clean copy holds the same line.  (dirty is
\* cleared in the first cycle of a write-back, the fill of a way starts before
\* its line has arrived.)
CleanCopiesAgree ==
    LET q == ToL2 IN
    \A line \in ProgramLines :
        /\ \A w \in L2!HoldsClean(l2, q, line) : L2!Data(l2, line, w) = memory[line]
        /\ \A w \in L1!HoldsClean(dcache, core.data, line) :
               L1!Data(dcache, line, w) = BelowL1(q, line)
        /\ \A w \in L1!HoldsClean(icache, core.fetch, line) :
               L1!Data(icache, line, w) = BelowL1(q, line)

\* A miss in a set with an invalid way goes to pmem without looking at the
\* dirty bits: the way it then overwrites must not be a dirty one.
InvalidWayFirst ==
    L1!InvalidWayNext(icache) /\ L1!InvalidWayNext(dcache) /\ L2!InvalidWayNext(l2)

\* The read_steady, write_steady, addr_read_steady and addr_write_steady
\* assertions of the memory: a burst once begun keeps its direction and address
\* until its last beat.
BurstSteady ==
    [][burst.busy /\ burst'.busy => /\ read_o' = read_o
                                    /\ write_o' = write_o
                                    /\ address_o' = address_o]_vars

\* The pipeline sees one memory.
Abstract == INSTANCE AbstractMemory WITH
    InitMemory <- [line \in ProgramLines |-> [b \in Beats |-> <<line, b, InitVal>>]],
    memory  <- Current,
    request <- core,
    reply   <- IF Stall THEN None
               ELSE [inst |-> L1!RData(icache, core.fetch),
                     data |-> IF core.data.read THEN L1!RData(dcache, core.data) ELSE None]
ImplementsMemory == Abstract!Spec

\* The pipeline is never stalled for ever, nor for long: whatever the caches
\* miss, write back and prefetch, both requests are answered in a common cycle.
\* At most four accesses of the L2 cache are in the way (a prefetch, a write-back
\* of the data cache, a fill of each L1 cache), of 16 cycles each if they write
\* back and fill, besides the waits of the memory.
MaxStall == 4 * 16 + 6
AnsweredInTime == stalled <= MaxStall
====
