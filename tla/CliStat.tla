-------------------------------- MODULE CliStat --------------------------------
(***************************************************************************)
(* Commands over UDP and the statistics that they serve.                   *)
(*                                                                         *)
(* restd sends commands of VPP's CLI to a UDP port of VPP's main thread    *)
(* and waits for the answer; a call that is not answered in time closes    *)
(* the socket and lets the next calls fail without sending for a second.   *)
(* Two commands maintain the hits of the ACL rules: the workers count hits *)
(* in 32-bit counters of their own, "sync" adds what they gained to the    *)
(* 64-bit counter in shared memory, "clear" zeroes it.  A third one runs   *)
(* the calculation of the interface statistics (module IntfStat), which    *)
(* the main thread otherwise runs periodically.                            *)
(*                                                                         *)
(* One ACL rule stands for all.  What the handlers of restd do around the  *)
(* commands (reading and zeroing the shared memory, whether or not the     *)
(* command was answered) is modelled; the text of the answers is not.      *)
(***************************************************************************)
EXTENDS IntfStat, Sequences

CONSTANTS NWorkers,     \* sf_vlib_num_workers
          HitMod,       \* 2^32, the modulus of a worker's counter
          Ports,        \* UDP ports that the kernel gives to restd
          RetryTime,    \* RECV_RETRY_TIME
          Scenarios     \* what may happen in a behaviour: the commands of restd
                        \* and of the console, whether VPP's start is part of
                        \* it, whether counters are about to wrap, and a bound on each kind of event

RestCmds == {"acl_sync", "acl_clear", "intf_sync", "show"}
ConsoleCmds == RestCmds \cup {"acl_clear_one", "intf_clear"}

ScenarioType ==
  [boot : BOOLEAN, wrap : BOOLEAN, cmds : SUBSET RestCmds, console : SUBSET ConsoleCmds,
   hit : Nat, call : Nat, loss : Nat, consoles : Nat, tick : Nat, restart : Nat,
   in : Nat, out : Nat, tx : Nat, miss : Nat, patch : Nat, wire : Nat]

ASSUME CliAssumption == /\ NWorkers \in Nat \ {0}
                        /\ HitMod \in Nat \ {0} /\ HitMod % 2 = 0
                        /\ RetryTime \in Nat \ {0}
                        /\ 0 \notin Ports
                        /\ Scenarios \subseteq ScenarioType

Workers == 1 .. NWorkers

VARIABLES
  glob,       \* acl_rule_hit_stat_global: hits counted by each worker
  old,        \* acl_rule_hit_stat_old: glob when it was last collected
  hit,        \* acl_stat->acl_rule_hit of the rule, in shared memory
  srvq,       \* datagrams in the socket of the server
  event,      \* SF_CLI_REQ_EVENT is signalled
  cmd,        \* the command that the main thread executes
  rxq,        \* answers in the sockets of restd
  cl,         \* the call of restd
  budget,     \* the scenario, with how often each event may still happen
  hits,       \* history: hits so far
  aoff,       \* history: hits that were cleared
  missed,     \* history: hits that came while "sync" moved its base
  clearedAt,  \* history: hits when the last answered clear was sent
  report      \* history: the last hits that restd reported

aclVars  == <<glob, old, hit, hits, aoff, missed>>
netVars  == <<srvq, event, rxq>>
restVars == <<cl, clearedAt, report>>
vars     == <<intfVars, aclVars, netVars, cmd, restVars, budget>>

NoCmd == [name |-> "none", pc |-> "none", w |-> 0, tmp |-> 0, seen |-> 0,
          off |-> 0, req |-> [id |-> 0, seq |-> 0, port |-> 0]]

Spend(k) == /\ budget[k] > 0
            /\ budget' = [budget EXCEPT ![k] = @ - 1]

\* VPP is about to start, or has started with all its ports; the counters of
\* the workers are then anywhere, and those of the rule were just cleared.
Init ==
  /\ budget \in Scenarios
  /\ IF budget.boot THEN IntfInit ELSE IntfUp
  /\ glob = [w \in Workers |-> IF budget.wrap THEN HitMod - 1 ELSE 0]
  /\ old = glob
  /\ hit = 0
  /\ srvq = <<>>
  /\ event = FALSE
  /\ cmd = NoCmd
  /\ rxq = [p \in Ports |-> <<>>]
  /\ cl = [pc |-> "idle", cmd |-> "none", id |-> 0, seq |-> 0, port |-> 0,
           tries |-> 0, failed |-> FALSE, got |-> 0, at |-> 0, todo |-> {}]
  /\ hits = 0
  /\ aoff = 0
  /\ missed = 0
  /\ clearedAt = 0
  /\ report = [val |-> 0, bound |-> 0]

-----------------------------------------------------------------------------
(* The workers *)


\* update_acl_rule_hit
Hit(w) ==
  /\ Spend("hit")
  /\ glob' = [glob EXCEPT ![w] = (@ + 1) % HitMod]
  /\ hits' = hits + 1
  /\ UNCHANGED <<intfVars, old, hit, aoff, missed, netVars, cmd, restVars>>

\* get_acl_rule_hit_minus, in uint32_t
Gained(w) == (glob[w] - old[w]) % HitMod

AllGained == SumTo([w \in Workers |-> Gained(w)], NWorkers)

-----------------------------------------------------------------------------
(* The server in VPP's main thread *)

\* Mutant: only the datagram that makes the socket non-empty is reported.
Readable_Edge == Len(srvq) = 1

\* epoll reports the socket as long as it holds a datagram.
Readable == srvq # <<>>

\* cli_serv_handle_read; signals that were not handled yet are one signal.
Poll ==
  /\ main = "free"
  /\ Readable
  /\ ~ event
  /\ event' = TRUE
  /\ UNCHANGED <<intfVars, aclVars, srvq, rxq, cmd, restVars, budget>>


\* The first step of a command.
Begin(name, req) ==
  cmd' = [NoCmd EXCEPT !.name = name, !.req = req, !.w = 1,
            !.pc = CASE name = "acl_sync"      -> "read"
                     [] name = "acl_clear"     -> "rebase"
                     [] name = "acl_clear_one" -> "zero"
                     [] OTHER                  -> "run"]

\* sf_cli_serv_process wakes up and handle_cli_udp_request takes one datagram.
Serve ==
  /\ main = "free"
  /\ event
  /\ srvq # <<>>
  /\ event' = FALSE
  /\ srvq' = Tail(srvq)
  /\ main' = "cmd"
  /\ Begin(Head(srvq).cmd, [id |-> Head(srvq).id, seq |-> Head(srvq).seq,
                            port |-> Head(srvq).port])
  /\ UNCHANGED <<statVars, portVars, aclVars, rxq, restVars, budget>>

\* The same commands, and three that restd does not send, on VPP's console.
Console(name) ==
  /\ main = "free"
  /\ name \in budget.console
  /\ Spend("consoles")
  /\ main' = "cmd"
  /\ Begin(name, NoCmd.req)
  /\ UNCHANGED <<statVars, portVars, aclVars, netVars, restVars>>

\* The loop over the workers goes on at pc, or the command continues at done.
NextWorker(pc, done) ==
  IF cmd.w < NWorkers
    THEN cmd' = [cmd EXCEPT !.w = @ + 1, !.pc = pc] /\ UNCHANGED main
    ELSE IF done = "reply"
           THEN cmd' = [cmd EXCEPT !.pc = "none"] /\ main' = "reply"
           ELSE cmd' = [cmd EXCEPT !.pc = done] /\ UNCHANGED main

\* "sf acl sync stat": the counter in shared memory and what the worker
\* gained are loaded, ...
SyncRead ==
  /\ main = "cmd" /\ cmd.pc = "read"
  /\ cmd' = [cmd EXCEPT !.pc = "store", !.tmp = hit + Gained(cmd.w),
                        !.seen = glob[cmd.w], !.off = aoff]
  /\ UNCHANGED <<intfVars, aclVars, netVars, restVars, budget>>

\* ... their sum is stored, ...
SyncStore ==
  /\ main = "cmd" /\ cmd.pc = "store"
  /\ hit' = cmd.tmp
  /\ aoff' = cmd.off
  /\ cmd' = [cmd EXCEPT !.pc = "base"]
  /\ UNCHANGED <<intfVars, glob, old, hits, missed, netVars, restVars, budget>>

\* Mutant: the base is not moved.
SyncBase_Skip ==
  /\ main = "cmd" /\ cmd.pc = "base"
  /\ NextWorker("read", "reply")
  /\ UNCHANGED <<statVars, portVars, aclVars, netVars, restVars, budget>>

\* ... and the base of the worker is moved to its counter, read again.
SyncBase ==
  /\ main = "cmd" /\ cmd.pc = "base"
  /\ old' = [old EXCEPT ![cmd.w] = glob[cmd.w]]
  /\ missed' = missed + ((glob[cmd.w] - cmd.seen) % HitMod)
  /\ NextWorker("read", "reply")
  /\ UNCHANGED <<statVars, portVars, glob, hit, hits, aoff, netVars, restVars,
                 budget>>

\* "sf acl clear stat": the bases are moved, then (all) or before (one rule)
\* the counter in shared memory is zeroed.
Rebased(w) == old' = [old EXCEPT ![w] = glob[w]]

ClearRebase ==
  /\ main = "cmd" /\ cmd.pc = "rebase"
  /\ Rebased(cmd.w)
  /\ aoff' = aoff + Gained(cmd.w)
  /\ NextWorker("rebase", IF cmd.name = "acl_clear" THEN "zero" ELSE "reply")
  /\ UNCHANGED <<statVars, portVars, glob, hit, hits, missed, netVars,
                 restVars, budget>>

\* acl_clear_rule_hit_all, by restd and by VPP
ZeroHit == /\ hit' = 0
           /\ aoff' = aoff + hit

ClearZero ==
  /\ main = "cmd" /\ cmd.pc = "zero"
  /\ ZeroHit
  /\ IF cmd.name = "acl_clear_one"
       THEN cmd' = [cmd EXCEPT !.pc = "rebase"] /\ UNCHANGED main
       ELSE cmd' = [cmd EXCEPT !.pc = "none"] /\ main' = "reply"
  /\ UNCHANGED <<statVars, portVars, glob, old, hits, missed, netVars,
                 restVars, budget>>

\* "sf_auto_test sync intf statics" refuses while inProcess is set.
RunIntfSync ==
  /\ main = "cmd" /\ cmd.pc = "run" /\ cmd.name = "intf_sync"
  /\ cmd' = [cmd EXCEPT !.pc = "none"]
  /\ IF ~ inProcess /\ icnt > 0 THEN StartCalc("cli")
                                ELSE main' = "reply" /\ UNCHANGED calc
  /\ UNCHANGED <<cnt, hw, oldcnt, lasthw, istat, inProcess, first, off, raced,
                 cleared, portVars, aclVars, netVars, restVars, budget>>

\* "sf clear int"
RunIntfClear ==
  /\ main = "cmd" /\ cmd.pc = "run" /\ cmd.name = "intf_clear"
  /\ cmd' = [cmd EXCEPT !.pc = "none"]
  /\ Zeroed(1 .. icnt)
  /\ main' = "reply"
  /\ UNCHANGED <<cnt, hw, oldcnt, lasthw, calc, inProcess, first, portVars,
                 aclVars, netVars, restVars, budget>>

\* "show int" changes nothing.
RunShow ==
  /\ main = "cmd" /\ cmd.pc = "run" /\ cmd.name \notin {"intf_sync", "intf_clear"}
  /\ cmd' = [cmd EXCEPT !.pc = "none"]
  /\ main' = "reply"
  /\ UNCHANGED <<statVars, portVars, aclVars, netVars, restVars, budget>>

\* The answer carries the number of the request and goes to its port, where
\* it is lost when no socket has that port.
Reply ==
  /\ main = "reply"
  /\ main' = "free"
  /\ cmd' = NoCmd
  /\ rxq' = IF cmd.req.port # 0 /\ cmd.req.port = cl.port
              THEN [rxq EXCEPT ![cl.port] =
                      Append(@, [id |-> cmd.req.id, seq |-> cmd.req.seq])]
              ELSE rxq
  /\ UNCHANGED <<statVars, portVars, aclVars, srvq, event, restVars, budget>>

-----------------------------------------------------------------------------
(* restd *)

\* send2vpp within a second of a failure: the command is not sent.
QuickFail(c) ==
  /\ cl.pc = "idle" /\ cl.failed
  /\ c \in budget.cmds
  /\ Spend("call")
  /\ cl' = [cl EXCEPT !.pc = "after", !.cmd = c, !.got = 0]
  /\ UNCHANGED <<intfVars, aclVars, netVars, cmd, clearedAt, report>>

\* check_udp_socket: the socket that is open, or else a new one, to which the
\* kernel may give the port of one that was closed.
Usable(p) == p = cl.port \/ cl.port = 0

\* sendmsgtoserver_rest up to the sendto: the datagram is queued, or lost if
\* the kernel has no room for it.
Send(c, p, lost) ==
  /\ cl.pc = "idle"
  /\ c \in budget.cmds
  /\ icnt > 0 \/ c \in {"intf_sync", "show"}
  /\ IF lost THEN Spend("loss") ELSE Spend("call")
  /\ Usable(p)
  /\ cl' = [cl EXCEPT !.pc = "wait", !.cmd = c, !.id = @ + 1, !.seq = @ + 1,
                      !.port = p, !.tries = RetryTime, !.got = 0, !.at = hits]
  /\ srvq' = IF lost THEN srvq
             ELSE Append(srvq, [id |-> cl.id + 1, seq |-> cl.seq + 1,
                                port |-> p, cmd |-> c])
  /\ UNCHANGED <<intfVars, aclVars, event, rxq, cmd, clearedAt, report>>

\* Mutant: the number of the answer is not looked at.
Matches_Any(a) == TRUE

\* An answer is taken for the answer to the command when it has its number.
Matches(a) == a.seq = cl.seq

Receive ==
  /\ cl.pc = "wait"
  /\ rxq[cl.port] # <<>>
  /\ rxq' = [rxq EXCEPT ![cl.port] = Tail(@)]
  /\ LET a == Head(rxq[cl.port]) IN
       cl' = IF Matches(a)
               THEN [cl EXCEPT !.pc = "after", !.failed = FALSE, !.got = a.id]
             ELSE IF cl.tries > 1 THEN [cl EXCEPT !.tries = @ - 1]
             ELSE [cl EXCEPT !.pc = "after", !.failed = TRUE, !.tries = 0]
  /\ UNCHANGED <<intfVars, aclVars, srvq, event, cmd, clearedAt, report, budget>>

\* 500 ms without an answer: the socket is closed, and what is still sent to
\* it is dropped.
TimeOut ==
  /\ cl.pc = "wait"
  /\ rxq[cl.port] = <<>>
  /\ cl' = [cl EXCEPT !.pc = "after", !.failed = TRUE, !.port = 0]
  /\ UNCHANGED <<intfVars, aclVars, netVars, cmd, clearedAt, report, budget>>

\* c_int: the counter is read as a signed number of half its width.
AsCInt(n) == LET m == n % HitMod IN IF m >= HitMod \div 2 THEN m - HitMod ELSE m

\* The rest of the handlers does not look at the answer.  GET of /acl/stat
\* reports the counter in shared memory, ...
AfterGet ==
  /\ cl.pc = "after" /\ cl.cmd = "acl_sync"
  /\ cl' = [cl EXCEPT !.pc = "idle", !.cmd = "none", !.got = 0]
  /\ report' = [val |-> AsCInt(hit), bound |-> hits - clearedAt]
  /\ UNCHANGED <<intfVars, aclVars, netVars, cmd, clearedAt, budget>>

\* ... PATCH zeroes it, ...
AfterPatch ==
  /\ cl.pc = "after" /\ cl.cmd = "acl_clear"
  /\ cl' = [cl EXCEPT !.pc = "idle", !.cmd = "none", !.got = 0]
  /\ ZeroHit
  /\ clearedAt' = IF cl.got # 0 THEN cl.at ELSE clearedAt
  /\ UNCHANGED <<intfVars, glob, old, hits, missed, netVars, cmd, report, budget>>

\* ... the commands on interfaces only hand on what VPP wrote.
AfterOther ==
  /\ cl.pc = "after" /\ cl.cmd \in {"intf_sync", "show"}
  /\ cl' = [cl EXCEPT !.pc = "idle", !.cmd = "none", !.got = 0]
  /\ UNCHANGED <<intfVars, aclVars, netVars, cmd, clearedAt, report, budget>>

\* PATCH of /interfaces/stat: refused while no interface is known, otherwise
\* the statistics are zeroed one interface after the other.
PatchIntf(names) ==
  /\ cl.pc = "idle"
  /\ icnt > 0
  /\ names \subseteq 1 .. icnt
  /\ PatchRange(names) # {}
  /\ Spend("patch")
  /\ cl' = [cl EXCEPT !.pc = "zero", !.todo = PatchRange(names)]
  /\ UNCHANGED <<intfVars, aclVars, netVars, cmd, clearedAt, report>>

PatchNext ==
  /\ cl.pc = "zero"
  /\ \E i \in cl.todo :
       /\ \A j \in cl.todo : i <= j
       /\ Zeroed({i})
       /\ cl' = [cl EXCEPT !.todo = @ \ {i},
                           !.pc = IF cl.todo = {i} THEN "idle" ELSE "zero"]
  /\ UNCHANGED <<cnt, hw, oldcnt, lasthw, calc, inProcess, first, portVars,
                 main, aclVars, netVars, cmd, clearedAt, report, budget>>

-----------------------------------------------------------------------------
(* Composition *)

Others == <<aclVars, netVars, cmd, restVars>>

PortStep ==
  /\ \/ \E n \in PortCounts : PortsFound(n)
     \/ StartPorts
     \/ FirstLinks
     \/ OpenPorts
  /\ UNCHANGED <<Others, budget>>

\* Periods are long: the model has as many as the budget allows.
Period == (StatTick \/ LinkTick) /\ Spend("tick") /\ UNCHANGED Others

CalcStep ==
  /\ \/ CalcPhy
     \/ CalcThread
     \/ CalcLoad
     \/ CalcStoreCounts
     \/ CalcStorePhy
     \/ CalcStoreError
  /\ UNCHANGED <<Others, budget>>

Packet ==
  \E i \in Intfs :
    \/ \E t \in Threads, f \in {"in", "out"} :
         Count(t, i, f) /\ Spend(f) /\ UNCHANGED Others
    \/ \E f \in {"tx", "miss"} :
         CountHw(i, f) /\ Spend(f) /\ UNCHANGED Others
    \/ WireChange(i) /\ Spend("wire") /\ UNCHANGED Others

\* VPP dies at any point and is started again; restd lives on.
Restart ==
  /\ Spend("restart")
  /\ IntfRestart
  /\ glob' = [w \in Workers |-> 0]
  /\ old' = glob'
  /\ aoff' = hits - hit - missed
  /\ srvq' = <<>>
  /\ event' = FALSE
  /\ cmd' = NoCmd
  /\ UNCHANGED <<hit, hits, missed, rxq, restVars>>

CmdStep == \/ SyncRead \/ SyncStore \/ SyncBase \/ ClearRebase \/ ClearZero
           \/ RunIntfSync \/ RunIntfClear \/ RunShow \/ Reply

Next ==
  \/ PortStep
  \/ Period
  \/ CalcStep
  \/ Packet
  \/ Restart
  \/ \E w \in Workers : Hit(w)
  \/ Poll
  \/ Serve
  \/ \E c \in ConsoleCmds : Console(c)
  \/ CmdStep
  \/ \E c \in RestCmds : QuickFail(c)
  \/ \E c \in RestCmds, p \in Ports, lost \in BOOLEAN : Send(c, p, lost)
  \/ Receive
  \/ TimeOut
  \/ AfterGet
  \/ AfterPatch
  \/ AfterOther
  \/ \E names \in SUBSET Intfs : PatchIntf(names)
  \/ PatchNext

\* VPP's main thread keeps running.
Fairness == /\ WF_vars(Poll) /\ WF_vars(Serve) /\ WF_vars(CmdStep)
            /\ WF_vars(CalcStep) /\ WF_vars(PortStep)

Spec == Init /\ [][Next]_vars /\ Fairness

-----------------------------------------------------------------------------
(* Properties *)

ReqType == [id : Nat, seq : Nat, port : Ports \cup {0}]
CmdType == [name : ConsoleCmds \cup {"none"}, w : 0 .. NWorkers, tmp : Nat,
            pc : {"none", "read", "store", "base", "rebase", "zero", "run"},
            seen : 0 .. HitMod - 1, off : Int, req : ReqType]
CallType == [pc : {"idle", "wait", "after", "zero"}, cmd : RestCmds \cup {"none"},
             id : Nat, seq : Nat, port : Ports \cup {0}, tries : 0 .. RetryTime,
             failed : BOOLEAN, got : Nat, at : Nat, todo : SUBSET Intfs]

CliTypeOK ==
  /\ glob \in [Workers -> 0 .. HitMod - 1] /\ old \in [Workers -> 0 .. HitMod - 1]
  /\ hit \in Nat /\ aoff \in Int
  /\ hits \in Nat /\ missed \in Nat /\ clearedAt \in Nat
  /\ report \in [val : Int, bound : Int]
  /\ event \in BOOLEAN
  /\ srvq \in Seq([id : Nat, seq : Nat, port : Ports, cmd : RestCmds])
  /\ rxq \in [Ports -> Seq([id : Nat, seq : Nat])]
  /\ cmd \in CmdType
  /\ cmd.pc # "none" => main = "cmd"
  /\ cl \in CallType
  /\ cl.pc = "wait" => cl.port # 0 /\ cl.tries > 0

TypeOK == IntfTypeOK /\ CliTypeOK

\* sendmsgtoserver_rest: what a call returns is the answer to its own command,
\* even if the answers to earlier commands arrive late at a socket that got
\* the port of the one that was closed.  (Of one restd: its numbers do not begin again.)
AnswerIsMine == cl.got # 0 => cl.got = cl.id

\* sf_acl_stat_sync_fn, sf_acl_stat_clear_fn and the handlers of restd: when
\* no command is being executed every hit is in the counter in shared memory,
\* or still only in its worker's counter, or was cleared, or is one of those
\* that came between the two reads of a worker's counter; none is there twice,
\* whatever the workers count and restd zeroes in the meantime.
HitsAccountedFor == main # "cmd" => hit + aoff + missed + AllGained = hits

\* AclStatHandler: what is reported never exceeds the hits since the last
\* clear that VPP answered was sent.
NothingBeforeClear == report.val <= report.bound

\* The hits that are reported are those that were made since the last clear.
HitsSound == TypeOK /\ HitsAccountedFor /\ NothingBeforeClear

\* sf_cli_serv_process takes one datagram per signal, but signals that come
\* before it runs are one; still every request is taken, because epoll keeps
\* reporting the socket.
RequestsTaken == (srvq # <<>>) ~> (srvq = <<>>)
=============================================================================
