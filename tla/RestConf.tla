------------------------------- MODULE RestConf -------------------------------
(***************************************************************************)
(* restd on the configuration: the interfaces' fields, reset, the save on  *)
(* disk, download and upload, and the lock between them.                   *)
(*                                                                         *)
(* restd answers requests on one thread, one after the other; download and *)
(* upload run on a thread of their own (run_on_executor) while the first   *)
(* goes on.  sync_lock in the segment keeps two of save, load, download    *)
(* and reset apart: a request that changes anything is refused while it is *)
(* set (check_tapplet_status).  The lock survives restd.  An ACL sync      *)
(* (module AclSync) is here only its flag, which is a field of the         *)
(* configuration, and the thread that owns it: a failed sync (-2) is not   *)
(* told from an idle one (0), nor one under way (3) from one asked for (2).*)
(*                                                                         *)
(* One interface with the fields type, mac and two entries of              *)
(* rule_to_action, one action and one ACL rule; a text "bad" is one that   *)
(* no setter accepts.                                                      *)
(***************************************************************************)
EXTENDS ShmConf

CONSTANTS
  Puts,       \* the bodies of PUT /interfaces/config: sequences of items
  RealIntfs   \* interfaces of the device

Fields == {"type", "mac", "bind1", "bind2", "action", "rule"}

ASSUME PutsAssumption ==
  Puts \subseteq Seq([f : {"type", "mac", "bind1", "bind2"}, t : STRING])

VARIABLES
  restd,   \* up; the segment it is linked to; what its first thread does
  job,     \* the download or upload on the second thread
  archive, \* the last archive a download gave
  syncer   \* the segment whose ACL sync restd's thread prepares, 0: none

vars == <<shmVars, restd, job, archive, syncer>>

Modules == {"system", "interfaces", "actions", "acl"}

\* the fields: region and place in it
FieldAt(s, f) ==
  CASE f = "type" -> At(s, IntfReg, 1)
    [] f = "mac" -> At(s, IntfReg, 2)
    [] f = "bind1" -> At(s, IntfReg, 3)
    [] f = "bind2" -> At(s, IntfReg, 4)
    [] f = "action" -> At(s, ActionReg, 1)
    [] f = "rule" -> At(s, AclReg, 2)

-----------------------------------------------------------------------------
(* Conversions *)

NumText == <<"0", "1", "2">>
TypeText == <<"normal", "loopback", "force_tx">>
\* the names that update_single_interface_config_internal knows
TypeKnown == <<"normal", "loopbak", "force_tx">>


Fmt(f, v) == IF f = "type" THEN TypeText[v + 1] ELSE NumText[v + 1]

Known(f) == IF f = "type" THEN TypeKnown ELSE NumText
Parses(f, t) == \E i \in DOMAIN Known(f) : Known(f)[i] = t

Parse(f, t) == (CHOOSE i \in DOMAIN Known(f) : Known(f)[i] = t) - 1

\* what a setter answers: an unknown type is a KeyError, other texts are refused
Answer(f, t) ==
  IF Parses(f, t) THEN "ok" ELSE IF f = "type" THEN "raise" ELSE "fail"

\* one field is set: a refused address leaves the field, a refused MAC address has
\* been written from an array that sscanf did not fill
SetField(s, it, junk) ==
  IF it.f = "clear"
  THEN [s EXCEPT !.mem[FieldAt(s, "bind1")] = 0, !.mem[FieldAt(s, "bind2")] = 0]
  ELSE IF Parses(it.f, it.t) THEN [s EXCEPT !.mem[FieldAt(s, it.f)] = Parse(it.f, it.t)]
  ELSE IF it.f = "mac" THEN [s EXCEPT !.mem[FieldAt(s, "mac")] = junk]
  ELSE s
ItemAnswer(it) == IF it.f = "clear" THEN "ok" ELSE Answer(it.f, it.t)

\* update_interface_config: the fields in the order of the body, up to the first
\* that is refused
AfterItems(s, items, junk) ==
  LET upto == { i \in DOMAIN items : \A j \in 1..(i - 1) : ItemAnswer(items[j]) = "ok" }
      after[n \in 0..Len(items)] ==
        IF n = 0 THEN s
        ELSE IF n \in upto THEN SetField(after[n - 1], items[n], junk) ELSE after[n - 1]
  IN  after

update_interface_config(s, items, junk) == AfterItems(s, items, junk)[Len(items)]

-----------------------------------------------------------------------------
(* Linking, and the check in front of every request *)

IdleJob == [kind |-> "idle", left |-> {}, arch |-> <<>>, items |-> <<>>, module |-> "none",
            error |-> FALSE, start |-> <<>>, plain |-> FALSE, alone |-> TRUE]

NoArchive ==
  [mods |-> {}, bad |-> {}, items |-> [m \in Modules |-> <<>>], ports |-> 1]

Seg == segs[restd.g]


\* try_link_shm: the map must be ready and the interfaces counted
try_link_shm ==
  /\ restd.up /\ restd.g = 0 /\ key # 0
  /\ segs[key].status = "finish"
  /\ segs[key].mem[At(segs[key], IntfStatReg, 1)] > 0
  /\ restd' = [restd EXCEPT !.g = key]
  /\ UNCHANGED <<shmVars, job, archive, syncer>>

Idle == restd.up /\ restd.g # 0 /\ restd.loop = "idle"

\* check_tapplet_status lets a request that changes something pass
MayChange == Idle /\ Seg.lock = 0

\* check_tapplet_status for an ACL request
MayChangeAcl == MayChange /\ Seg.mem[FlagAt(Seg)] = 0

\* every write of the configuration
Wrote ==
  /\ fresh' = FALSE
  /\ torn' = (torn \/ saver["tool"].pc # "idle")

-----------------------------------------------------------------------------
(* Requests that are answered at once *)

\* mutant: the lock is not looked at
InterfacesConfigPut_Unlocked(items, junk) ==
  /\ Idle /\ Spend("put")
  /\ segs' = [segs EXCEPT ![restd.g] = update_interface_config(@, items, junk)]
  /\ Wrote
  /\ UNCHANGED <<key, vpp, loader, saver, file, snaps, promise, restd, job, archive, syncer>>

InterfacesConfigPut(items, junk) ==
  /\ MayChange /\ Spend("put")
  /\ segs' = [segs EXCEPT ![restd.g] = update_interface_config(@, items, junk)]
  /\ Wrote
  /\ UNCHANGED <<key, vpp, loader, saver, file, snaps, promise, restd, job, archive, syncer>>

ActionPut(v) ==
  /\ MayChange /\ Spend("other")
  /\ segs' = [segs EXCEPT ![restd.g].mem[FieldAt(Seg, "action")] = v]
  /\ Wrote
  /\ UNCHANGED <<key, vpp, loader, saver, file, snaps, promise, restd, job, archive, syncer>>

AclPut(v) ==
  /\ MayChangeAcl /\ Spend("other")
  /\ segs' = [segs EXCEPT ![restd.g].mem[FieldAt(Seg, "rule")] = v]
  /\ Wrote
  /\ UNCHANGED <<key, vpp, loader, saver, file, snaps, promise, restd, job, archive, syncer>>

\* PATCH /acl/sync: the flag is set, a thread prepares the rules
AclSyncPatch ==
  /\ MayChangeAcl /\ Spend("acl")
  /\ segs' = [segs EXCEPT ![restd.g].mem[FlagAt(Seg)] = 1]
  /\ syncer' = restd.g
  /\ UNCHANGED <<key, vpp, loader, saver, file, fresh, snaps, torn, promise, restd, job, archive>>


\* the thread hands the rules over (2), or fails (0)
AclSyncThread ==
  /\ syncer # 0
  /\ \E flag \in {0, 2} : segs' = [segs EXCEPT ![syncer].mem[FlagAt(segs[syncer])] = flag]
  /\ syncer' = 0
  /\ UNCHANGED <<key, vpp, loader, saver, file, sc, fresh, snaps, torn, promise, restd, job, archive>>

\* the data plane takes the rules over
AclSyncVpp ==
  /\ vpp.pc = "run" /\ segs[vpp.g].mem[FlagAt(segs[vpp.g])] = 2
  /\ segs' = [segs EXCEPT ![vpp.g].mem[FlagAt(segs[vpp.g])] = 0]
  /\ UNCHANGED <<key, vpp, loader, saver, file, sc, fresh, snaps, torn, promise, restd, job, archive, syncer>>

-----------------------------------------------------------------------------
(* PATCH /system/config: reset everything, region by region *)

ResetBegin ==
  /\ MayChange /\ Spend("reset")
  /\ Seg.mem[FlagAt(Seg)] = 0
  /\ segs' = [segs EXCEPT ![restd.g].lock = 1]
  /\ restd' = [restd EXCEPT !.loop = "reset", !.left = {AclReg, ActionReg, IntfReg}]
  /\ UNCHANGED <<key, vpp, loader, saver, file, fresh, snaps, torn, promise, job, archive, syncer>>

\* the cells that an init function does not touch on a reset
Kept(s) == {FieldAt(s, "mac"), FlagAt(s)}

RegionCells(s, name) ==
  { c \in DOMAIN s.mem : \E i \in DOMAIN s.maps :
      s.maps[i].name = name /\ s.maps[i].off <= c /\ c < s.maps[i].off + s.maps[i].len }

\* reset_all_global_config: one init function; the one of the ACL refuses while a sync
\* goes on (sf_load_shm may have brought its flag), and the rest is left undone
ResetRegion ==
  /\ restd.loop = "reset"
  /\ \E name \in restd.left :
       LET refused == name = AclReg /\ Seg.mem[FlagAt(Seg)] > 0 IN
       /\ segs' = [segs EXCEPT ![restd.g].mem =
            [c \in DOMAIN @ |-> IF ~refused /\ c \in RegionCells(Seg, name) \ Kept(Seg)
                                THEN InitValue ELSE @[c]]]
       /\ restd' = [restd EXCEPT !.left = IF refused THEN {} ELSE @ \ {name}]
  /\ Wrote
  /\ UNCHANGED <<key, vpp, loader, saver, file, sc, snaps, promise, job, archive, syncer>>

ResetEnd ==
  /\ restd.loop = "reset" /\ restd.left = {}
  /\ segs' = [segs EXCEPT ![restd.g].lock = 0]
  /\ restd' = [restd EXCEPT !.loop = "idle"]
  /\ UNCHANGED <<key, vpp, loader, saver, file, sc, fresh, snaps, torn, promise, job, archive, syncer>>

-----------------------------------------------------------------------------
(* PATCH /system/config/sync: save on disk, on the first thread *)

ConfigSyncPatch ==
  /\ MayChange /\ Spend("sync")
  /\ segs' = [segs EXCEPT ![restd.g].lock = 1]
  /\ SaveBegin("restd", restd.g)
  /\ snaps' = snaps \cup {<<Seg.ver, View(Seg)>>}
  /\ torn' = (torn \/ saver["tool"].pc # "idle")
  /\ restd' = [restd EXCEPT !.loop = "save"]
  /\ UNCHANGED <<key, vpp, loader, file, fresh, promise, job, archive, syncer>>

\* mutant: a save that fails leaves the lock
ConfigSyncEnd_Leaves ==
  LET w == saver["restd"] IN
  /\ restd.loop = "save"
  /\ SaveOk("restd") \/ SaveFailed("restd")
  /\ segs' = [segs EXCEPT ![restd.g].lock = IF SaveOk("restd") THEN 0 ELSE @]
  /\ saver' = [saver EXCEPT !["restd"] = IdleSaver]
  /\ restd' = [restd EXCEPT !.loop = "idle"]
  /\ promise' = IF SaveOk("restd") /\ ~w.cut /\ ~w.orphan /\ saver["tool"].pc = "idle"
                THEN [on |-> TRUE, ver |-> Seg.ver, view |-> w.want] ELSE promise
  /\ fresh' = FALSE
  /\ UNCHANGED <<key, vpp, loader, file, sc, snaps, torn, job, archive, syncer>>

\* unlocked on success and on failure alike
ConfigSyncEnd ==
  LET w == saver["restd"] IN
  /\ restd.loop = "save"
  /\ SaveOk("restd") \/ SaveFailed("restd")
  /\ segs' = [segs EXCEPT ![restd.g].lock = 0]
  /\ saver' = [saver EXCEPT !["restd"] = IdleSaver]
  /\ restd' = [restd EXCEPT !.loop = "idle"]
  /\ promise' = IF SaveOk("restd") /\ ~w.cut /\ ~w.orphan /\ saver["tool"].pc = "idle"
                THEN [on |-> TRUE, ver |-> Seg.ver, view |-> w.want] ELSE promise
  /\ fresh' = FALSE
  /\ UNCHANGED <<key, vpp, loader, file, sc, snaps, torn, job, archive, syncer>>

-----------------------------------------------------------------------------
(* GET /system/config: every module writes its file, one after the other *)

Item(s, f) == [f |-> f, t |-> Fmt(f, s.mem[FieldAt(s, f)])]
IfSet(s, f) == IF s.mem[FieldAt(s, f)] = 0 THEN <<>> ELSE <<Item(s, f)>>
ClearItem == [f |-> "clear", t |-> "0"]

\* what save_cfg writes: of rule_to_action, the actions and the rules, the ones that
\* exist; an empty rule_to_action is read back as an order to clear it
SavedItems(s, m) ==
  CASE m = "system" -> <<>>
    [] m = "interfaces" ->
         LET binds == IfSet(s, "bind1") \o IfSet(s, "bind2") IN
         <<Item(s, "type"), Item(s, "mac")>>
           \o (IF binds = <<>> THEN <<ClearItem>> ELSE binds)
    [] m = "actions" -> IfSet(s, "action")
    [] m = "acl" -> IfSet(s, "rule")

ConfigGet(mods) ==
  /\ Idle /\ Seg.lock = 0 /\ job.kind = "idle" /\ Spend("down")
  /\ segs' = [segs EXCEPT ![restd.g].lock = 1]
  /\ job' = [IdleJob EXCEPT !.kind = "down", !.left = mods, !.arch = NoArchive,
                            !.start = [m \in mods |-> SavedItems(Seg, m)]]
  /\ UNCHANGED <<key, vpp, loader, saver, file, fresh, snaps, torn, promise, restd, archive, syncer>>

sys_conf_save_all ==
  /\ job.kind = "down"
  /\ \E m \in job.left :
       job' = [job EXCEPT !.left = @ \ {m},
                          !.arch = [job.arch EXCEPT !.mods = job.arch.mods \cup {m},
                                                    !.items[m] = SavedItems(Seg, m)]]
  /\ UNCHANGED <<shmVars, restd, archive, syncer>>

\* mutant: the answer waits for the files of all modules
ConfigGetEnd_WaitsForAll ==
  /\ job.kind = "down" /\ job.arch.mods = Modules /\ restd.loop = "idle"
  /\ segs' = [segs EXCEPT ![restd.g].lock = 0]
  /\ archive' = job.arch
  /\ job' = IdleJob
  /\ UNCHANGED <<key, vpp, loader, saver, file, sc, fresh, snaps, torn, promise, restd, syncer>>

ConfigGetEnd ==
  /\ job.kind = "down" /\ job.left = {} /\ restd.loop = "idle"
  /\ segs' = [segs EXCEPT ![restd.g].lock = 0]
  /\ archive' = job.arch
  /\ job' = IdleJob
  /\ UNCHANGED <<key, vpp, loader, saver, file, sc, fresh, snaps, torn, promise, restd, syncer>>

-----------------------------------------------------------------------------
(* POST /system/config: an archive is loaded, in the order of the directory *)

\* the archive as it was downloaded, with a broken file, or of a device with more ports
Archives == { a \in { archive, [archive EXCEPT !.ports = RealIntfs + 1] }
                \cup { [archive EXCEPT !.bad = {m}] : m \in archive.mods } : a.mods # {} }

ConfigPost(a) ==
  /\ MayChange /\ job.kind = "idle" /\ Spend("up")
  /\ segs' = [segs EXCEPT ![restd.g].lock = 1]
  /\ job' = [IdleJob EXCEPT !.kind = "up", !.left = a.mods, !.arch = a, !.plain = (a = archive)]
  /\ UNCHANGED <<key, vpp, loader, saver, file, fresh, snaps, torn, promise, restd, archive, syncer>>


\* load_cfg opens the file of a module: of a broken one the ACL's raises, the others
\* fail; an interface that the device lacks is found before anything is set
LoadModule ==
  /\ job.kind = "up" /\ job.module = "none"
  /\ \E m \in job.left :
       job' = IF m \in job.arch.bad /\ m = "acl"
              THEN [job EXCEPT !.left = {}, !.error = TRUE]
              ELSE IF \/ m \in job.arch.bad /\ m # "system"
                      \/ m = "interfaces" /\ job.arch.ports > RealIntfs
              THEN [job EXCEPT !.left = @ \ {m}, !.error = TRUE]
              ELSE [job EXCEPT !.left = @ \ {m}, !.module = m, !.items = job.arch.items[m]]
  /\ UNCHANGED <<shmVars, restd, archive, syncer>>

\* one field, action or rule; the interfaces stop at the first that is refused
LoadItem(junk) ==
  /\ job.kind = "up" /\ job.module # "none"
  /\ \/ /\ job.items = <<>>
        /\ job' = [job EXCEPT !.module = "none"]
        /\ UNCHANGED <<segs, fresh, torn>>
     \/ /\ job.items # <<>>
        /\ LET it == Head(job.items)
               ret == ItemAnswer(it) IN
           /\ segs' = [segs EXCEPT ![restd.g] = SetField(@, it, junk)]
           /\ job' = CASE ret = "ok" -> [job EXCEPT !.items = Tail(@)]
                       [] ret = "raise" ->
                            [job EXCEPT !.items = <<>>, !.left = {}, !.error = TRUE]
                       [] OTHER ->
                            [job EXCEPT !.error = TRUE, !.items =
                               IF job.module = "interfaces" THEN <<>> ELSE Tail(@)]
        /\ Wrote
  /\ UNCHANGED <<key, vpp, loader, saver, file, sc, snaps, promise, restd, archive, syncer>>

ConfigPostEnd ==
  /\ job.kind = "up" /\ job.left = {} /\ job.module = "none" /\ restd.loop = "idle"
  /\ segs' = [segs EXCEPT ![restd.g].lock = 0]
  /\ job' = IdleJob
  /\ UNCHANGED <<key, vpp, loader, saver, file, sc, fresh, snaps, torn, promise, restd, archive, syncer>>

-----------------------------------------------------------------------------
(* Failures of restd *)

IdleRestd == [up |-> FALSE, g |-> 0, loop |-> "idle", left |-> {}, lost |-> {}]

\* the lock stays in the segment
RestdCrash ==
  /\ restd.up /\ Spend("rcrash")
  /\ restd' = [IdleRestd EXCEPT !.lost = restd.lost \cup {restd.g}]
  /\ job' = IdleJob
  /\ saver' = [saver EXCEPT !["restd"] = IdleSaver]
  /\ syncer' = 0
  /\ UNCHANGED <<segs, key, vpp, loader, file, fresh, snaps, torn, promise, archive>>

RestdStart ==
  /\ ~restd.up
  /\ restd' = [restd EXCEPT !.up = TRUE]
  /\ UNCHANGED <<shmVars, job, archive, syncer>>

MachineReboot ==
  /\ Reboot
  /\ restd' = IdleRestd /\ job' = IdleJob /\ syncer' = 0
  /\ UNCHANGED archive
-----------------------------------------------------------------------------
Alone(A) == A /\ UNCHANGED <<restd, job, archive, syncer>>

Init ==
  /\ ShmInit
  /\ restd = [IdleRestd EXCEPT !.up = TRUE]
  /\ job = IdleJob /\ archive = NoArchive /\ syncer = 0

Requests ==
  \/ \E items \in Puts, junk \in 0..1 : InterfacesConfigPut(items, junk)
  \/ \E v \in 0..1 : ActionPut(v) \/ AclPut(v)
  \/ AclSyncPatch \/ ResetBegin \/ ConfigSyncPatch
  \/ \E mods \in {Modules, {"interfaces"}} : ConfigGet(mods)
  \/ \E a \in Archives : ConfigPost(a)

\* what restd's two threads go on with
RestdStep ==
  \/ Alone(SaveRemove("restd")) \/ Alone(SaveOpen("restd")) \/ Alone(SaveBlock("restd"))
  \/ ConfigSyncEnd \/ ResetRegion \/ ResetEnd
  \/ sys_conf_save_all \/ ConfigGetEnd
  \/ LoadModule \/ (\E junk \in 0..1 : LoadItem(junk)) \/ ConfigPostEnd
  \/ AclSyncThread

\* the tools; sf_load_shm disturbs a download or upload
Tools ==
  \/ /\ ToolStep
     /\ job' = [job EXCEPT !.alone = @ /\ loader["tool"].pc = "idle"]
     /\ UNCHANGED <<restd, archive, syncer>>
  \/ Alone(delete_shm)

Next ==
  \/ \E v \in Versions : Alone(VppStart(v))
  \/ Alone(VppStep({restd.g, syncer})) \/ Alone(VppCount) \/ AclSyncVpp
  \/ Tools \/ try_link_shm \/ Requests \/ RestdStep
  \/ Alone(VppCrash) \/ RestdCrash \/ RestdStart \/ MachineReboot

\* restd's threads are scheduled
Spec == Init /\ [][Next]_vars /\ WF_vars(RestdStep)

-----------------------------------------------------------------------------
(* Properties *)

\* One state of the program: bounds of every counter, flag and index.
TypeOK ==
  /\ key \in 0..MaxGen /\ vpp.g \in 0..MaxGen /\ restd.g \in 0..MaxGen /\ syncer \in 0..MaxGen
  /\ vpp.pc \in {"down", "fatal", "link", "check", "init", "maps", "regions", "load", "run"}
  /\ \A g \in Gens : segs[g].lock \in 0..1 /\ \A c \in DOMAIN segs[g].mem : segs[g].mem[c] \in 0..2
  /\ file.len \in Nat \cup {-1}
  /\ restd.loop \in {"idle", "save", "reset"} /\ job.kind \in {"idle", "down", "up"}
  /\ \A a \in DOMAIN saver : saver[a].pc \in {"idle", "remove", "open", "write", "closed", "failed"}
  /\ \A a \in DOMAIN loader : loader[a].pc \in {"idle", "open", "copy"}

\* start_shm_map_malloc: in a segment that is ready the regions lie one behind the
\* other inside it, the configuration ones by name and in front of the statistics,
\* whatever the order in which the modules were linked; config_mem_start and
\* config_mem_end enclose the configuration and nothing else.
LayoutSound ==
  \A g \in Gens : segs[g].status = "finish" =>
    LET s == segs[g]
        r == s.maps
        conf == { i \in DOMAIN r : \E j \in DOMAIN Regs[s.ver] :
                    Regs[s.ver][j].name = r[i].name /\ IsConfig(Regs[s.ver][j]) } IN
    /\ \A i \in DOMAIN r : s.cstart <= r[i].off /\ r[i].off + r[i].len <= s.size
    /\ \A i, j \in DOMAIN r : i < j => r[i].off + r[i].len <= r[j].off
    /\ \A i, j \in conf : i < j => r[i].name < r[j].name
    /\ \A i \in DOMAIN r : i \in conf <=> r[i].off + r[i].len - 1 <= s.cend
    /\ \A i \in DOMAIN r : i \notin conf => r[i].off > s.cend

\* A configuration whose save was answered and reached the file is the one that VPP starts
\* with after the machine stopped, to the last field: save_shm_config_to_file and
\* load_shm_config_from_file agree on where the configuration begins and ends.
\* Left out (cut): fclose is not checked, so that a save is also answered with OK if the
\* disk had no room for the last buffer; and nothing calls fsync, so that the machine is
\* taken to stop with what was written on the disk, not to lose power.
SyncSurvivesReboot ==
  promise.on /\ fresh /\ vpp.pc = "run" /\ segs[vpp.g].ver = promise.ver
    => View(segs[vpp.g]) = promise.view

\* What VPP starts with is the default configuration or one that was saved by its own
\* version, never part of one: a file cut short by a crash or a full disk is refused, also one whose
\* save was answered with OK.
\* (Two saves at a time, or a change under sf_save_shm, may leave a mixed file.)
LoadedWhole ==
  fresh /\ vpp.pc = "run" =>
    LET s == segs[vpp.g] IN
    \/ View(s) = View(Started(s.ver))
    \/ torn
    \/ <<s.ver, View(s)>> \in snaps

\* VPP refuses an old segment only if an earlier start was cut before the map was
\* ready, or if another version made it (sf_shm_init, clib_error).
FatalExplained == vpp.pc = "fatal" => vpp.hurt

\* two builds that check_shm_main takes for one: other regions, the same total length
TakenForEqual(v, u) ==
  /\ MAIN_SHM_LEN(v) = MAIN_SHM_LEN(u)
  /\ { <<Regs[v][i].name, Regs[v][i].len>> : i \in DOMAIN Regs[v] }
       # { <<Regs[u][i].name, Regs[u][i].len>> : i \in DOMAIN Regs[u] }

\* A running data plane finds every region it registered, with its own length, in the
\* segment it is linked to (check_shm_main, update_shm_map_map), however the modules of
\* the build that made it were linked.  The exception is a segment of a build with other
\* regions that add up to the same length: check_shm_main compares nothing else, and VPP
\* runs, with NULL for a name that the segment lacks.
OwnRegions ==
  vpp.pc = "run" =>
    LET s == segs[vpp.g] IN
    \/ TakenForEqual(vpp.ver, s.ver)
    \/ \A i \in DOMAIN Regs[vpp.ver] : \E j \in DOMAIN s.maps :
         /\ s.maps[j].name = Regs[vpp.ver][i].name
         /\ s.maps[j].len = Regs[vpp.ver][i].len
         /\ s.maps[j].off > 0

\* restd is linked to no segment that VPP is still filling: neither the map nor the
\* saved configuration is written behind a request (try_link_shm).
LinkedAfterStart ==
  restd.g # 0 /\ restd.g = vpp.g =>
    vpp.pc \notin {"init", "maps", "regions", "load"} /\ segs[restd.g].status = "finish"

\* The lock is set only while restd works under it, and then on one thing; only a
\* restd that died leaves it behind.
LockExplained ==
  LET working == (IF restd.loop = "idle" THEN 0 ELSE 1) + (IF job.kind = "idle" THEN 0 ELSE 1) IN
  /\ working <= 1
  /\ working = 1 => segs[restd.g].lock = 1
  /\ \A g \in Gens : segs[g].lock = 1 => (restd.g = g /\ working = 1) \/ g \in restd.lost

\* The archive of a download is the configuration at one moment: no request changes
\* it between two of its modules.
DownloadIsSnapshot ==
  job.kind = "down" /\ job.alone =>
    \A m \in job.arch.mods : job.arch.items[m] = job.start[m]

Holds(s, it) ==
  IF it.f = "clear" THEN s.mem[FieldAt(s, "bind1")] = 0 /\ s.mem[FieldAt(s, "bind2")] = 0
  ELSE Parses(it.f, it.t) /\ s.mem[FieldAt(s, it.f)] = Parse(it.f, it.t)

\* An upload that ends without an error has set all that the archive holds, in whatever
\* order its modules were found.
UploadRestores ==
  job.kind = "up" /\ job.alone /\ job.left = {} /\ job.module = "none" /\ ~job.error =>
    \A m \in job.arch.mods : \A i \in DOMAIN job.arch.items[m] :
      Holds(segs[restd.g], job.arch.items[m][i])

\* An archive that nobody altered is accepted: the texts that a download writes are the
\* ones that the setters know.  (They are not for an interface of type loopback.)
DownloadLoads ==
  job.kind = "up" /\ job.plain /\ job.error =>
    \E i \in DOMAIN job.arch.items["interfaces"] :
      job.arch.items["interfaces"][i].t = "loopback"

\* The flag of an ACL sync is raised only while restd's thread prepares it, unless that
\* restd died or the flag was saved with the configuration and loaded again.
FlagOwned ==
  \A g \in Gens : segs[g].status = "finish" /\ segs[g].mem[FlagAt(segs[g])] = 1 =>
    syncer = g \/ g \in restd.lost \/ segs[g].hot

\* Whatever restd does under the lock ends, and the lock is released.
LockReleased ==
  \A g \in Gens : (segs[g].lock = 1 /\ restd.g = g) ~>
    (segs[g].lock = 0 \/ restd.g # g \/ g \in restd.lost)

\* The segment is sound for everybody linked to it, through every start, crash and change
\* of version, but to a build with other regions of the same total length; who finds a
\* segment of another length refuses it, and nobody else unless a start was cut.
ShmSound == TypeOK /\ LayoutSound /\ OwnRegions /\ FatalExplained /\ LinkedAfterStart

\* What was saved is what comes back after a stop at any moment, whole or not at all; the
\* answer alone does not promise that it was saved.
SavedSurvives == SyncSurvivesReboot /\ LoadedWhole

\* What a download writes is one configuration, and uploading it sets again all that it
\* holds; actions and rules that were created since stay.
RoundTrip == DownloadIsSnapshot /\ UploadRestores /\ DownloadLoads

\* The lock and the ACL flag in the segment are owned by work that is under way,
\* unless the process that owned them died.
LocksOwned == LockExplained /\ FlagOwned
=============================================================================
