--------------------------------- MODULE Rtc ---------------------------------
(***************************************************************************)
(* The real-time clock driver of the ECE391 kernel (rtc.c): one hardware   *)
(* clock, shared by the processes of all terminals, whose interrupts are   *)
(* divided by a count of the displayed terminal.                           *)
(*                                                                         *)
(* rtc_write() and rtc_interrupt() are one action each: write() and the    *)
(* gate have turned interrupts off.  rtc_open(), up to its cli(), and      *)
(* rtc_read() run with interrupts on and are cut at each access to what    *)
(* others write; the build increments rtc_devices by a load and a store.   *)
(* Each terminal has one process.  The masking of the NMI around the port  *)
(* accesses is left out.                                                   *)
(***************************************************************************)
EXTENDS Integers, FiniteSets

CONSTANTS
  Terminals,
  Openers,           \* bound: terminals whose processes open the clock
  RTC1024,           \* the highest frequency, scaled down
  FREQ_SCALE,
  Frequencies,       \* arguments of rtc_write, valid and not
  CountWidth         \* bits of the counters

ASSUME RtcAssumption ==
  /\ Terminals \subseteq Nat /\ IsFiniteSet(Terminals) /\ 1 \in Terminals /\ Openers \subseteq Terminals
  /\ RTC1024 \in Nat /\ FREQ_SCALE \in 1 .. RTC1024
  /\ Frequencies \subseteq Nat
  /\ CountWidth \in Nat /\ 2 ^ CountWidth \in Nat /\ 2 ^ CountWidth > RTC1024

LOWEST_ALLOWED_FREQ  == 2
HIGHEST_ALLOWED_FREQ == RTC1024
MAX_DEVICES          == 3
DevicesBound         == MAX_DEVICES + (Cardinality(Openers) * (Cardinality(Openers) - 1)) \div 2

\* rtc_devices is an int8_t.
ASSUME RtcDevicesAssumption == DevicesBound <= 127

VARIABLES
  cur_terminal,
  count, req_count,      \* terminal_arr[t]
  RTC_IRQF, rtc_devices,
  rate,                  \* frequency that register A selects
  proc,                  \* where each terminal's process is, and in rtc_open() the terminals
                         \* left to look at, the rtc_devices it has loaded, or its rate_val
  fresh                  \* history: the clock has raised RTC_IRQF since p's read began

rtc_vars == <<cur_terminal, count, req_count, RTC_IRQF, rtc_devices, rate, proc, fresh>>

Idle == [at |-> "idle", left |-> {}, val |-> 0]

\* rtc_init(); the hardware starts at 1024 Hz.
RtcInit ==
  /\ cur_terminal = 1
  /\ count = [t \in Terminals |-> 0] /\ req_count = [t \in Terminals |-> 0]
  /\ RTC_IRQF = 0 /\ rtc_devices = 1 /\ rate = RTC1024
  /\ proc = [p \in Terminals |-> Idle]
  /\ fresh = [p \in Terminals |-> FALSE]

At(p, place)   == proc[p].at = place
Goto(p, place) == proc' = [proc EXCEPT ![p].at = place]

-----------------------------------------------------------------------------
(* Faulty variants stand before a definition, under its name and a suffix.     *)

\* rtc_open() looks at the divider of each terminal in turn: 2 Hz if none has one ...
Open(p) ==
  /\ At(p, "idle") /\ p \in Openers
  /\ proc' = [proc EXCEPT ![p] = [at |-> "scan", left |-> Terminals, val |-> 0]]
  /\ UNCHANGED <<cur_terminal, count, req_count, RTC_IRQF, rtc_devices, rate, fresh>>

Scan(p) ==
  /\ At(p, "scan")
  /\ IF proc[p].left = {} THEN proc' = [proc EXCEPT ![p] = [at |-> "rate", left |-> {}, val |-> 2]]
     ELSE LET t == CHOOSE t \in proc[p].left : \A u \in proc[p].left : t <= u IN
          proc' = IF req_count[t] = 0 THEN [proc EXCEPT ![p].left = @ \ {t}]
                  ELSE [proc EXCEPT ![p] = [at |-> "test", left |-> {}, val |-> 0]]
  /\ UNCHANGED <<cur_terminal, count, req_count, RTC_IRQF, rtc_devices, rate, fresh>>

\* ... otherwise full speed, and one more device if there are not three ...
TestDevices_NoMaximum(p) ==
  /\ At(p, "test") /\ Goto(p, "load")
  /\ UNCHANGED <<cur_terminal, count, req_count, RTC_IRQF, rtc_devices, rate, fresh>>

TestDevices(p) ==
  /\ At(p, "test")
  /\ IF rtc_devices < MAX_DEVICES THEN Goto(p, "load")
     ELSE proc' = [proc EXCEPT ![p] = [at |-> "rate", left |-> {}, val |-> RTC1024]]
  /\ UNCHANGED <<cur_terminal, count, req_count, RTC_IRQF, rtc_devices, rate, fresh>>

LoadDevices(p) ==
  /\ At(p, "load")
  /\ proc' = [proc EXCEPT ![p] = [at |-> "store", left |-> {}, val |-> rtc_devices]]
  /\ UNCHANGED <<cur_terminal, count, req_count, RTC_IRQF, rtc_devices, rate, fresh>>

StoreDevices(p) ==
  /\ At(p, "store")
  /\ rtc_devices' = proc[p].val + 1
  /\ proc' = [proc EXCEPT ![p] = [at |-> "rate", left |-> {}, val |-> RTC1024]]
  /\ UNCHANGED <<cur_terminal, count, req_count, RTC_IRQF, rate, fresh>>

\* ... and then register A.
SetRate(p) ==
  /\ At(p, "rate") /\ proc' = [proc EXCEPT ![p] = Idle]
  /\ rate' = proc[p].val
  /\ UNCHANGED <<cur_terminal, count, req_count, RTC_IRQF, rtc_devices, fresh>>

\* rtc_write() of an allowed frequency: the divider of the displayed terminal.
Write(p) ==
  /\ At(p, "idle")
  /\ \E freq \in Frequencies :
       /\ freq \in LOWEST_ALLOWED_FREQ .. HIGHEST_ALLOWED_FREQ
       /\ req_count' = [req_count EXCEPT ![cur_terminal] = RTC1024 \div (freq * rtc_devices)]
  /\ rate' = RTC1024
  /\ UNCHANGED <<cur_terminal, count, RTC_IRQF, rtc_devices, proc, fresh>>

\* rtc_read(): the displayed terminal's count restarts ...
Read(p) ==
  /\ At(p, "idle") /\ Goto(p, "clear")
  /\ count' = [count EXCEPT ![cur_terminal] = 0]
  /\ UNCHANGED <<cur_terminal, req_count, RTC_IRQF, rtc_devices, rate, fresh>>

ClearFlag_Skip(p) ==
  /\ At(p, "clear") /\ Goto(p, "wait")
  /\ UNCHANGED <<cur_terminal, count, req_count, RTC_IRQF, rtc_devices, rate, fresh>>

\* ... the flag is cleared ...
ClearFlag(p) ==
  /\ At(p, "clear") /\ Goto(p, "wait")
  /\ RTC_IRQF' = 0
  /\ UNCHANGED <<cur_terminal, count, req_count, rtc_devices, rate, fresh>>

\* ... and the loop waits for it.
SeesFlag(p) ==
  /\ At(p, "wait") /\ RTC_IRQF = 1 /\ Goto(p, "idle")
  /\ fresh' = [fresh EXCEPT ![p] = FALSE]
  /\ UNCHANGED <<cur_terminal, count, req_count, RTC_IRQF, rtc_devices, rate>>

-----------------------------------------------------------------------------
Divide_AlwaysReset(c, r) == [count |-> 0,
                             req   |-> IF c # r /\ r = 0 THEN RTC1024 \div FREQ_SCALE ELSE r,
                             flag  |-> IF c = r THEN 1 ELSE 0]

\* rtc_interrupt() on a terminal whose count becomes c and whose divider is r.
Divide(c, r) == [count |-> IF c = r THEN 0 ELSE c,
                 req   |-> IF c # r /\ r = 0 THEN RTC1024 \div FREQ_SCALE ELSE r,
                 flag  |-> IF c = r THEN 1 ELSE 0]

Interrupt ==
  LET t == cur_terminal
      d == Divide((count[t] + 1) % 2 ^ CountWidth, req_count[t])
  IN
  /\ count' = [count EXCEPT ![t] = d.count]
  /\ req_count' = [req_count EXCEPT ![t] = d.req]
  /\ RTC_IRQF' = d.flag
  /\ fresh' = [p \in Terminals |-> fresh[p] \/ (proc[p].at = "wait" /\ d.flag = 1)]
  /\ UNCHANGED <<cur_terminal, rtc_devices, rate, proc>>

AltFn(t) ==
  /\ t # cur_terminal /\ cur_terminal' = t
  /\ UNCHANGED <<count, req_count, RTC_IRQF, rtc_devices, rate, proc, fresh>>

\* Ctrl+C halts p's process in whatever call it is.
CtrlC(p) ==
  /\ ~At(p, "idle") /\ proc' = [proc EXCEPT ![p] = Idle]
  /\ fresh' = [fresh EXCEPT ![p] = FALSE]
  /\ UNCHANGED <<cur_terminal, count, req_count, RTC_IRQF, rtc_devices, rate>>

Step(p) ==
  Scan(p) \/ TestDevices(p) \/ LoadDevices(p) \/ StoreDevices(p) \/ SetRate(p) \/ ClearFlag(p)

RtcNext == Interrupt \/ \E p \in Terminals : \/ Open(p) \/ Write(p) \/ Read(p) \/ Step(p)
                                           \/ SeesFlag(p) \/ AltFn(p) \/ CtrlC(p)

RtcSpec == RtcInit /\ [][RtcNext]_rtc_vars

\* The clock ticks and processes run.  A process that waits polls the flag many
\* times in a tick whenever it has the CPU, so it does not miss for ever the
\* ticks at which the flag is up.  Programs choose a rate, and Ctrl+C is
\* pressed, finitely often: whoever reads restarts the count.
RtcFairness == /\ SF_rtc_vars(Interrupt)
               /\ \A p \in Terminals : SF_rtc_vars(Step(p)) /\ SF_rtc_vars(SeesFlag(p))
               /\ <>[][~ \E p \in Terminals : Write(p) \/ CtrlC(p)]_rtc_vars
RtcLiveSpec == RtcSpec /\ RtcFairness

-----------------------------------------------------------------------------
Places == {"idle", "scan", "test", "load", "store", "rate", "clear", "wait"}

\* Every variable keeps its type.  The limit of three devices is not kept, as
\* rtc_open() tests it, loads and stores in three steps: each process may pass
\* the test with the others, and again whenever one stores a number it loaded
\* long ago.  But rtc_devices, which rtc_write() divides by, is never 0 and far
\* from the end of its int8_t.
TypeOK ==
  /\ cur_terminal \in Terminals
  /\ count \in [Terminals -> 0 .. 2 ^ CountWidth - 1]
  /\ req_count \in [Terminals -> 0 .. RTC1024]
  /\ proc \in [Terminals -> [at : Places, left : SUBSET Terminals,
                             val : 0 .. DevicesBound \cup {2, RTC1024}]]
  /\ \A p \in Terminals : At(p, "rate") => proc[p].val \in {2, RTC1024}
  /\ fresh \in [Terminals -> BOOLEAN]
  /\ RTC_IRQF \in {0, 1} /\ rtc_devices \in 1 .. DevicesBound /\ rate \in {2, RTC1024}

\* A read returns only for a tick of the clock after the read began: not for a
\* flag that an earlier tick, or another process's tick, had left up.
ReadIsFresh == \A p \in Terminals : proc[p].at = "wait" /\ RTC_IRQF = 1 => fresh[p]

\* While a process waits, the displayed terminal's flag comes up within
\* req_count ticks: the count has not run past the divider it is compared with.
\* "Return if interrupt is generated by the RTC." (rtc_read(), rtc.c)
WaitBounded ==
  (\E p \in Terminals : proc[p].at = "wait") =>
    req_count[cur_terminal] = 0 \/ count[cur_terminal] < req_count[cur_terminal]

\* Every read returns.
ReadReturns == \A p \in Terminals : (proc[p].at = "wait") ~> (proc[p].at # "wait")
=============================================================================
