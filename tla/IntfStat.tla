------------------------------- MODULE IntfStat -------------------------------
(***************************************************************************)
(* Statistics and link state of the interfaces.                            *)
(*                                                                         *)
(* Every thread counts its packets in a row of its own                     *)
(* (sf_intf_stat_main); a process of the main thread collects the rows of  *)
(* all threads, and the counters of the hardware, into the statistics in   *)
(* shared memory, which restd reads and zeroes without any lock.  Another  *)
(* process waits for the DPDK plugin to have found the ports, publishes    *)
(* them, lets packets in and from then on copies the links of the ports    *)
(* into shared memory.                                                     *)
(*                                                                         *)
(* Octets, drops and the counts by packet type are treated as the packets  *)
(* are and left out; the counters have 64 bits and do not wrap.            *)
(***************************************************************************)
EXTENDS Integers

CONSTANTS NThreads,    \* TOTAL_THREAD_CNT
          MaxIntf,     \* MAX_INTERFACE_CNT
          PortCounts   \* the numbers of ports that DPDK may find at a start

ASSUME IntfAssumption == /\ MaxIntf \in Nat \ {0} /\ NThreads \in Nat \ {0}
                         /\ PortCounts \subseteq 0 .. MaxIntf

Intfs == 1 .. MaxIntf
Threads == 1 .. NThreads

\* f[1] + ... + f[k] for each k up to n, by a recursive function, which the
\* proofs can unfold, and the whole sum
Sums(f, n) ==
  LET s[k \in 0 .. n] == IF k = 0 THEN 0 ELSE s[k - 1] + f[k] IN s
SumTo(f, n) == Sums(f, n)[n]

\* the packets of interface i that counters c of all threads hold
Total(c, i, d) == SumTo([t \in Threads |-> c[t][i][d]], NThreads)

VARIABLES
  cnt,        \* sf_intf_stat_main: packets in and out, by thread and interface
  hw,         \* counters of the hardware: packets sent, packets missed
  oldcnt,     \* sf_intf_old_stat_record: cnt when it was last collected
  lasthw,     \* intf_old_stat_array: hw when it was last collected
  istat,      \* interfaces_stat->interfaces, in shared memory
  calc,       \* the calculation under way
  inProcess,  \* calculate_intf_statics_in_process
  first,      \* is_first_time of the process
  ports,      \* where the start of the ports is
  nports,     \* interfaces_stat->dpdk_port_cnt
  icnt,       \* interfaces_stat->interfaces_cnt
  macs,       \* interfaces whose MAC address was recorded since the start
  wire,       \* ports whose link is up
  link,       \* interfaces_stat->intf_link
  main,       \* what occupies VPP's main thread
  off,        \* history: collected packets that the statistics do not show
  raced,      \* history: statistics zeroed during a calculation
  cleared     \* history: statistics zeroed at all

statVars == <<cnt, hw, oldcnt, lasthw, istat, calc, inProcess, first, off,
              raced, cleared>>
portVars == <<ports, nports, icnt, macs, wire, link>>
intfVars == <<statVars, portVars, main>>

NoCnt  == [in |-> 0, out |-> 0]
NoHw   == [tx |-> 0, miss |-> 0]
NoStat == [in |-> 0, out |-> 0, tx_ok |-> 0, miss |-> 0, tx_error |-> 0]
NoCalc == [pc |-> "idle", i |-> 0, t |-> 0, by |-> "none",
           cnt |-> NoCnt, hw |-> NoHw, tmp |-> NoStat, off |-> NoCnt]

StatInit ==
  /\ cnt = [t \in Threads |-> [i \in Intfs |-> NoCnt]]
  /\ oldcnt = cnt
  /\ hw = [i \in Intfs |-> NoHw]
  /\ lasthw = hw
  /\ istat = [i \in Intfs |-> NoStat]
  /\ calc = NoCalc
  /\ inProcess = FALSE
  /\ wire = Intfs
  /\ main = "free"
  /\ off = [i \in Intfs |-> NoCnt]
  /\ raced = {}
  /\ cleared = {}

\* VPP is about to start with new shared memory.
IntfInit ==
  /\ StatInit
  /\ first = TRUE
  /\ ports = "boot"
  /\ nports = 0
  /\ icnt = 0
  /\ macs = {}
  /\ link = {}

\* VPP has found all interfaces and let them run for some periods, without a
\* packet so far.
IntfUp ==
  /\ StatInit
  /\ first = FALSE
  /\ ports = "up"
  /\ nports = MaxIntf
  /\ icnt = MaxIntf
  /\ macs = Intfs
  /\ link = Intfs

-----------------------------------------------------------------------------
(* The ports *)

\* The DPDK process has created the interfaces; it stores their number and
\* wakes update_intf_phy_stat_process.
PortsFound(n) ==
  /\ main = "free"
  /\ ports = "boot"
  /\ n \in PortCounts
  /\ nports' = n
  /\ ports' = "found"
  /\ UNCHANGED <<icnt, macs, wire, link, main, statVars>>

\* The process wakes up.  Without ports it ends; otherwise it publishes their
\* number and their MAC addresses.
StartPorts ==
  /\ main = "free"
  /\ ports = "found"
  /\ IF nports = 0
       THEN ports' = "none" /\ UNCHANGED <<icnt, macs, main>>
       ELSE /\ icnt' = nports
            /\ macs' = macs \cup 1 .. nports
            /\ ports' = "named"
            /\ main' = "ports"
  /\ UNCHANGED <<nports, wire, link, statVars>>


\* dpdk_get_sw_if_phy_stat
LinkUp(i) == i \in wire

\* update_all_intf_phy_stat: the link of an interface is that of its port;
\* an interface beyond interfaces_cnt has none.
LinkOf(i) == i <= icnt /\ LinkUp(i)

UpdateLinks == link' = {i \in Intfs : LinkOf(i)}

FirstLinks ==
  /\ ports = "named"
  /\ UpdateLinks
  /\ ports' = "linked"
  /\ UNCHANGED <<nports, icnt, macs, wire, main, statVars>>

\* Only now does dpdk_init_status let dpdk_input_node take packets.
OpenPorts ==
  /\ ports = "linked"
  /\ ports' = "up"
  /\ main' = "free"
  /\ UNCHANGED <<nports, icnt, macs, wire, link, statVars>>

LinkTick ==
  /\ main = "free"
  /\ ports = "up"
  /\ UpdateLinks
  /\ UNCHANGED <<ports, nports, icnt, macs, wire, main, statVars>>

\* A cable is plugged or pulled.
WireChange(i) ==
  /\ wire' = IF i \in wire THEN wire \ {i} ELSE wire \cup {i}
  /\ UNCHANGED <<ports, nports, icnt, macs, link, main, statVars>>

-----------------------------------------------------------------------------
(* Packets *)

\* A worker counts a packet that it received or is about to send.
Count(t, i, f) ==
  /\ ports = "up"
  /\ i <= nports
  /\ cnt' = [cnt EXCEPT ![t][i][f] = @ + 1]
  /\ UNCHANGED <<hw, oldcnt, lasthw, istat, calc, inProcess, first, off,
                 raced, cleared, portVars, main>>

\* The hardware sends a packet that was counted, or misses one.
CountHw(i, f) ==
  /\ ports = "up"
  /\ i <= nports
  /\ f = "tx" => hw[i].tx < Total(cnt, i, "out")
  /\ hw' = [hw EXCEPT ![i][f] = @ + 1]
  /\ UNCHANGED <<cnt, oldcnt, lasthw, istat, calc, inProcess, first, off,
                 raced, cleared, portVars, main>>

-----------------------------------------------------------------------------
(* Calculation of the statistics *)

\* update_single_intf_phy_statics: fails while the interface does not exist.
PhyReadable(i) == ports # "boot" /\ i <= nports

\* dpdk_get_sw_if_statics_func
PhyCounters(i) == hw[i]

\* calculate_all_intf_statics starts with interface 1, if there is one.
StartCalc(by) ==
  /\ calc' = [NoCalc EXCEPT !.pc = "phy", !.i = 1, !.by = by]
  /\ main' = "calc"

\* The end of the loop: back to the process or to the command that called.
EndCalc(by) ==
  /\ calc' = NoCalc
  /\ inProcess' = IF by = "process" THEN FALSE ELSE inProcess
  /\ main' = IF by = "process" THEN "free" ELSE "reply"

\* The next round of the loop over the interfaces.
NextIntf ==
  IF calc.i < icnt
    THEN /\ calc' = [NoCalc EXCEPT !.pc = "phy", !.i = calc.i + 1,
                                   !.by = calc.by]
         /\ UNCHANGED <<inProcess, main>>
    ELSE EndCalc(calc.by)

\* A period of calculate_interface_stat_process is over.  The first one only
\* records the counters of the hardware, and leaves inProcess set.
StatTick ==
  /\ main = "free"
  /\ IF first
       THEN /\ lasthw' = [i \in Intfs |->
                            IF i <= icnt /\ PhyReadable(i)
                              THEN PhyCounters(i) ELSE lasthw[i]]
            /\ first' = FALSE
            /\ inProcess' = TRUE
            /\ UNCHANGED <<calc, main>>
       ELSE IF icnt > 0
              THEN StartCalc("process") /\ inProcess' = TRUE
                                        /\ UNCHANGED <<lasthw, first>>
              ELSE inProcess' = FALSE /\ UNCHANGED <<calc, main, lasthw, first>>
  /\ UNCHANGED <<cnt, hw, oldcnt, istat, off, raced, cleared, portVars>>

\* The hardware is read before the threads are.
CalcPhy ==
  /\ calc.pc = "phy"
  /\ IF PhyReadable(calc.i)
       THEN /\ calc' = [calc EXCEPT !.pc = "thread", !.t = 1,
                                    !.hw = PhyCounters(calc.i)]
            /\ UNCHANGED <<inProcess, main>>
       ELSE NextIntf
  /\ UNCHANGED <<cnt, hw, oldcnt, lasthw, istat, first, off, raced, cleared,
                 portVars>>

\* What a thread adds: its row is copied once, and the copy is both what is
\* subtracted from and the next value to subtract.
Since(t, i, f) == cnt[t][i][f] - oldcnt[t][i][f]


CalcThread ==
  /\ calc.pc = "thread"
  /\ calc' = [calc EXCEPT
                !.t = @ + 1,
                !.pc = IF calc.t = NThreads THEN "loadCounts" ELSE "thread",
                !.cnt = [in  |-> @.in + Since(calc.t, calc.i, "in"),
                         out |-> @.out + Since(calc.t, calc.i, "out")]]
  /\ oldcnt' = [oldcnt EXCEPT ![calc.t][calc.i] = cnt[calc.t][calc.i]]
  /\ UNCHANGED <<cnt, hw, lasthw, istat, inProcess, first, off, raced,
                 cleared, portVars, main>>

\* Each += of shared memory is a load and a store.
CalcLoad ==
  /\ calc.pc \in {"loadCounts", "loadPhy", "loadError"}
  /\ calc' = [calc EXCEPT
                !.tmp = istat[calc.i], !.off = off[calc.i],
                !.pc = CASE @ = "loadCounts" -> "storeCounts"
                         [] @ = "loadPhy"    -> "storePhy"
                         [] @ = "loadError"  -> "storeError"]
  /\ UNCHANGED <<cnt, hw, oldcnt, lasthw, istat, inProcess, first, off,
                 raced, cleared, portVars, main>>

CalcStoreCounts ==
  /\ calc.pc = "storeCounts"
  /\ istat' = [istat EXCEPT ![calc.i].in  = calc.tmp.in + calc.cnt.in,
                            ![calc.i].out = calc.tmp.out + calc.cnt.out]
  /\ off' = [off EXCEPT ![calc.i] = calc.off]
  /\ calc' = [calc EXCEPT !.pc = "loadPhy"]
  /\ UNCHANGED <<cnt, hw, oldcnt, lasthw, inProcess, first, raced, cleared,
                 portVars, main>>

\* Mutant: the hardware is read when its counters are added.
CalcStorePhy_Late ==
  /\ calc.pc = "storePhy"
  /\ istat' = [istat EXCEPT
       ![calc.i].tx_ok = calc.tmp.tx_ok + hw[calc.i].tx - lasthw[calc.i].tx,
       ![calc.i].miss  = calc.tmp.miss + hw[calc.i].miss - lasthw[calc.i].miss]
  /\ calc' = [calc EXCEPT !.pc = "loadError", !.hw = hw[calc.i]]
  /\ UNCHANGED <<cnt, hw, oldcnt, lasthw, inProcess, first, off, raced,
                 cleared, portVars, main>>

CalcStorePhy ==
  /\ calc.pc = "storePhy"
  /\ istat' = [istat EXCEPT
       ![calc.i].tx_ok = calc.tmp.tx_ok + calc.hw.tx - lasthw[calc.i].tx,
       ![calc.i].miss  = calc.tmp.miss + calc.hw.miss - lasthw[calc.i].miss]
  /\ calc' = [calc EXCEPT !.pc = "loadError"]
  /\ UNCHANGED <<cnt, hw, oldcnt, lasthw, inProcess, first, off, raced,
                 cleared, portVars, main>>


\* tx_error_packets is computed only when it would not be negative.
TxErrorKnown(s) == s.tx_ok <= s.out

\* The arithmetic of uint64_t, its modulus scaled down.
U64(n) == n % 1000000

CalcStoreError ==
  /\ calc.pc = "storeError"
  /\ istat' = IF TxErrorKnown(calc.tmp)
                THEN [istat EXCEPT ![calc.i].tx_error =
                                     U64(calc.tmp.out - calc.tmp.tx_ok)]
                ELSE istat
  /\ lasthw' = [lasthw EXCEPT ![calc.i] = calc.hw]
  /\ NextIntf
  /\ UNCHANGED <<cnt, hw, oldcnt, first, off, raced, cleared, portVars>>

\* clean_interface_stat on each interface of a set, by restd or by the
\* command "sf clear int".
Zeroed(I) ==
  /\ istat' = [i \in Intfs |-> IF i \in I THEN NoStat ELSE istat[i]]
  /\ off' = [i \in Intfs |->
               IF i \in I THEN [in  |-> off[i].in + istat[i].in,
                                out |-> off[i].out + istat[i].out]
                          ELSE off[i]]
  /\ raced' = IF main = "calc" THEN raced \cup I ELSE raced \ I
  /\ cleared' = cleared \cup I

\* The interfaces that a PATCH of /interfaces/stat clears: those named, or
\* for the empty name all but the last.
PatchRange(names) == IF names = {} THEN 1 .. icnt - 1 ELSE names

\* VPP dies and is started again.  The shared memory stays.
IntfRestart ==
  /\ cnt' = [t \in Threads |-> [i \in Intfs |-> NoCnt]]
  /\ oldcnt' = cnt'
  /\ hw' = [i \in Intfs |-> NoHw]
  /\ lasthw' = hw'
  /\ calc' = NoCalc
  /\ inProcess' = FALSE
  /\ first' = TRUE
  /\ ports' = "boot"
  /\ nports' = 0
  /\ macs' = {}
  /\ main' = "free"
  /\ off' = [i \in Intfs |-> [in |-> - istat[i].in, out |-> - istat[i].out]]
  /\ UNCHANGED <<istat, icnt, wire, link, raced, cleared>>

-----------------------------------------------------------------------------
(* Properties *)

CntType  == [in : Nat, out : Nat]
HwType   == [tx : Nat, miss : Nat]
StatType == [in : Nat, out : Nat, tx_ok : Nat, miss : Nat, tx_error : Nat]
OffType  == [in : Int, out : Int]
CalcType ==
  [pc : {"idle", "phy", "thread", "loadCounts", "storeCounts", "loadPhy", "storePhy",
         "loadError", "storeError"},
   i : 0 .. MaxIntf, t : 0 .. NThreads + 1, by : {"none", "process", "cli"},
   cnt : CntType, hw : HwType, tmp : StatType, off : OffType]

IntfTypeOK ==
  /\ cnt \in [Threads -> [Intfs -> CntType]]
  /\ oldcnt \in [Threads -> [Intfs -> CntType]]
  /\ \A t \in Threads, i \in Intfs :
       oldcnt[t][i].in <= cnt[t][i].in /\ oldcnt[t][i].out <= cnt[t][i].out
  /\ hw \in [Intfs -> HwType]
  /\ lasthw \in [Intfs -> HwType]
  /\ \A i \in Intfs : lasthw[i].tx <= hw[i].tx /\ lasthw[i].miss <= hw[i].miss
  /\ istat \in [Intfs -> StatType]
  /\ off \in [Intfs -> OffType]
  /\ calc \in CalcType
  /\ (calc.pc = "idle") = (main # "calc")
  /\ inProcess \in BOOLEAN /\ first \in BOOLEAN
  /\ ports \in {"boot", "found", "none", "named", "linked", "up"}
  /\ nports \in 0 .. MaxIntf
  /\ icnt \in 0 .. MaxIntf
  /\ wire \subseteq Intfs /\ link \subseteq Intfs /\ macs \subseteq Intfs
  /\ main \in {"free", "ports", "calc", "cmd", "reply"}

\* calculate_single_interface and clean_interface_stat: between calculations
\* every packet collected from the threads has been added to the statistics
\* once: it is shown there or was zeroed with them, whatever restd zeroes
\* while the calculation runs and however the threads go on counting.
CollectedOnce ==
  main # "calc" =>
    \A i \in Intfs, f \in {"in", "out"} :
      istat[i][f] + off[i][f] = Total(oldcnt, i, f)

\* calculate_single_interface reads the hardware before the threads, so that
\* the packets sent never exceed the packets given out; tx_error_packets, which
\* is only computed in that case, then never goes stale.  Zeroing the
\* statistics is the only thing that disturbs it.
TxOkWithinOut ==
  \A i \in Intfs \ cleared :
    /\ istat[i].tx_ok <= istat[i].out
    /\ istat[i].tx_error <= istat[i].out

\* calculate_single_interface and clean_interface_stat: also after the
\* statistics were zeroed (but not during a calculation) the errors do not
\* exceed the packets given out: the difference never wraps below zero.
TxErrorBounded ==
  \A i \in Intfs \ raced : istat[i].tx_error <= istat[i].out

\* update_intf_phy_stat_process: packets are taken only after the number of
\* ports, their addresses and their links have been published, and no link is
\* left from an earlier start that had more ports.
PortsReadyBeforeTraffic ==
  ports = "up" =>
    /\ icnt = nports
    /\ 1 .. icnt \subseteq macs
    /\ link \subseteq 1 .. icnt

\* The statistics of an interface add up however workers, the hardware, the two
\* callers of the calculation and the clearing interleave: every packet collected
\* once, and the ports of a start ready before traffic; none sent that was not put
\* out, for interfaces never cleared, and errors within what was put out, for
\* those not cleared during a calculation.
IntfStatSound == CollectedOnce /\ TxOkWithinOut /\ TxErrorBounded /\ PortsReadyBeforeTraffic
=============================================================================
