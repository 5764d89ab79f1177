------------------------------- MODULE ShmConf -------------------------------
(***************************************************************************)
(* The shared memory that holds the configuration, the file it is saved in *)
(* and the start of the data plane.                                        *)
(*                                                                         *)
(* The modules of the data plane register regions of configuration and of *)
(* statistics (sf_shm_map.h).  The first start of VPP creates a System V   *)
(* segment, lays the regions out in it (start_shm_map_malloc), runs their  *)
(* init functions and copies the saved configuration into it               *)
(* (load_shm_config_from_file); a later start finds the segment and only   *)
(* looks its regions up (sf_shm_init).  The segment outlives VPP and restd *)
(* and is lost when the machine stops; the file outlives that.             *)
(* The tools sf_save_shm, sf_load_shm and sf_delete_shm work on segment    *)
(* and file beside them, without any lock.                                 *)
(*                                                                         *)
(* Memory is a function of offsets counted in cells; a cell is one field   *)
(* of the configuration.  Names are numbers, ordered as strcmp orders the  *)
(* strings.  The head of the segment (version, map, bounds) is a record.   *)
(***************************************************************************)
EXTENDS Integers, Sequences, FiniteSets

CONSTANTS
  Regs,        \* Regs[v]: the registrations of version v, in the order of the list
  HeadLen,     \* sizeof(sf_shm_main_t)
  MapLen,      \* sizeof(sf_shm_map_t)
  Block,       \* SHM_COPY_BYTES_EACH_TIME
  MaxGen,      \* bound: segments alive at a time, removed ones included
  Scenarios    \* budgets of what the environment may do, one is chosen in Init

ASSUME SizesAssumption ==
  /\ HeadLen \in Nat \ {0} /\ MapLen \in Nat \ {0} /\ Block \in Nat \ {0}
  /\ MaxGen \in Nat \ {0}

\* the names that libnshell and the handlers use
AclReg == 1
ActionReg == 2
IntfReg == 3
IntfStatReg == 4

\* Every build registers the regions that restd looks up, as long as it reads and
\* writes them, and no name twice; the first version is the one that runs first.
ASSUME RegsAssumption ==
  /\ 1 \in DOMAIN Regs
  /\ \A v \in DOMAIN Regs :
       /\ v \in Nat
       /\ Regs[v] \in Seq([name : Nat, mem : {"config", "stat"}, len : Nat \ {0}])
       /\ \A i, j \in DOMAIN Regs[v] : Regs[v][i].name = Regs[v][j].name => i = j
       /\ \A r \in {<<AclReg, "config", 2>>, <<ActionReg, "config", 1>>,
                    <<IntfReg, "config", 4>>, <<IntfStatReg, "stat", 1>>} :
            \E i \in DOMAIN Regs[v] :
              Regs[v][i].name = r[1] /\ Regs[v][i].mem = r[2] /\ Regs[v][i].len >= r[3]
  /\ \A s \in Scenarios : s.boot \in BOOLEAN

VARIABLES
  segs,    \* the segments, by generation
  key,     \* the generation that MAIN_SHM_KEY names, 0: none
  vpp,     \* the start of the data plane: pc, version, segment, next region, and
           \* whether a start was cut before its map was ready or the version changed
  loader,  \* load_shm_config_from_file, run by VPP or by sf_load_shm
  saver,   \* save_shm_config_to_file, run by restd or by sf_save_shm
  file,    \* /opt/sfconfig/shm_config.bin
  sc,      \* what is left of the budgets
  fresh,   \* history: neither configuration nor file changed since VPP opened it
  snaps,   \* history: version and configuration at the beginning of every save
  torn,    \* history: the configuration changed under sf_save_shm, or two saves overlapped
  promise  \* history: the configuration of the last sync that was answered

shmVars == <<segs, key, vpp, loader, saver, file, sc, fresh, snaps, torn, promise>>

Versions == DOMAIN Regs
Gens == 1..MaxGen
Minimum(S) == CHOOSE x \in S : \A y \in S : x <= y

-----------------------------------------------------------------------------
(* The layout *)

\* insert one registration into the sorted list: in front of its head, between
\* the first two neighbours it lies between, or at its end
InsertReg(s, r) ==
  LET between == { i \in 1..(Len(s) - 1) :
                     s[i].name < r.name /\ s[i + 1].name > r.name } IN
  IF s = <<>> THEN <<r>>
  ELSE IF r.name < Head(s).name THEN <<r>> \o s
  ELSE IF between = {} THEN Append(s, r)
  ELSE LET i == Minimum(between) IN
       SubSeq(s, 1, i) \o <<r>> \o SubSeq(s, i + 1, Len(s))

\* the first n registrations of s sorted, for each n
SortedUpTo(s) ==
  LET sorted[n \in 0..Len(s)] ==
        IF n = 0 THEN <<>> ELSE InsertReg(sorted[n - 1], s[n])
  IN  sorted

sort_shm_config_reg_by_name(s) == SortedUpTo(s)[Len(s)]

IsConfig(r) == r.mem = "config"

\* those of one kind among the first n registrations of s, for each n
KindUpTo(s, mem) ==
  LET list[n \in 0..Len(s)] ==
        IF n = 0 THEN <<>>
        ELSE IF s[n].mem = mem THEN Append(list[n - 1], s[n]) ELSE list[n - 1]
  IN  list

OfKind(s, mem) == KindUpTo(s, mem)[Len(s)]

\* configuration by name, then statistics as they were registered
sort_shm_map_reg_outside(v) ==
  sort_shm_config_reg_by_name(OfKind(Regs[v], "config")) \o OfKind(Regs[v], "stat")

\* the lengths of the first registrations, up to n, added up
LenSums(s, n) ==
  LET sum[i \in 0..n] == IF i = 0 THEN 0 ELSE sum[i - 1] + s[i].len IN sum

LenOf(s, n) == LenSums(s, n)[n]

\* where the first region begins: the head, the map, one map entry of padding
MemStart(v) == HeadLen + MapLen * Len(Regs[v]) + MapLen

MAIN_SHM_LEN(v) == MemStart(v) + LenOf(Regs[v], Len(Regs[v]))

\* the value that the init function of the interfaces gives a field is not zero
\* everywhere, but one value per field: it is called 0
InitValue == 0

EmptySeg ==
  [status |-> "none", ver |-> 0, size |-> 0, lock |-> 0, maps |-> <<>>,
   cstart |-> 0, cend |-> 0, mem |-> <<>>,
   hot |-> FALSE] \* history: the flag of an ACL sync was loaded from the file, or
                   \* anything by sf_load_shm before there was a map

NoFile ==
  [len |-> -1, ver |-> 0, maps |-> <<>>, cstart |-> 0, cend |-> 0, mem |-> <<>>]

\* the offset of a region, found by its name
OffsetOf(s, name) ==
  IF \E i \in DOMAIN s.maps : s.maps[i].name = name
  THEN s.maps[CHOOSE i \in DOMAIN s.maps : s.maps[i].name = name].off ELSE 0

\* field k of a region
At(s, name, k) == OffsetOf(s, name) + k - 1
\* the flag of the ACL sync is a field of the ACL's configuration
FlagAt(s) == At(s, AclReg, 1)

\* the configuration as the user sees it: every configuration cell but the flag
View(s) ==
  [c \in { x \in DOMAIN s.mem : s.cstart <= x /\ x <= s.cend } \ {FlagAt(s)} |-> s.mem[c]]

Spend(what) == sc[what] > 0 /\ sc' = [sc EXCEPT ![what] = @ - 1]

-----------------------------------------------------------------------------
(* Start of the data plane: sf_shm_init *)

IdleLoader == [pc |-> "idle", g |-> 0, off |-> 0, data |-> NoFile]
IdleSaver == [pc |-> "idle", g |-> 0, off |-> 0, total |-> 0, orphan |-> FALSE,
              sent |-> 0, buf |-> <<>>, cut |-> FALSE, want |-> <<>>]

VppStart(v) ==
  /\ vpp.pc \in {"down", "fatal"}
  /\ IF v = vpp.ver THEN UNCHANGED sc ELSE Spend("upgrade")
  /\ vpp' = [vpp EXCEPT !.pc = "link", !.ver = v, !.hurt = @ \/ v # vpp.ver]
  /\ UNCHANGED <<segs, key, loader, saver, file, fresh, snaps, torn, promise>>

Attached == { saver[a].g : a \in DOMAIN saver } \cup { loader[a].g : a \in DOMAIN loader }

\* get_and_link_all_shm finds the segment, or create_and_link_all_shm makes one;
\* the kernel has freed the ones that no key names and nobody is attached to
VppLink(others) ==
  /\ vpp.pc = "link"
  /\ \/ /\ key # 0
        /\ vpp' = [vpp EXCEPT !.pc = "check", !.g = key]
        /\ UNCHANGED <<segs, key>>
     \/ /\ key = 0
        /\ \E g \in Gens :
             /\ g \notin Attached \cup others
             /\ segs' = [segs EXCEPT ![g] = [EmptySeg EXCEPT !.status = "zero"]]
             /\ key' = g
             /\ vpp' = [vpp EXCEPT !.pc = "init", !.g = g]
  /\ UNCHANGED <<loader, saver, file, sc, fresh, snaps, torn, promise>>

init_shm_main ==
  /\ vpp.pc = "init"
  /\ segs' = [segs EXCEPT ![vpp.g].status = "notready", ![vpp.g].size = MAIN_SHM_LEN(vpp.ver)]
  /\ vpp' = [vpp EXCEPT !.pc = "maps"]
  /\ UNCHANGED <<key, loader, saver, file, sc, fresh, snaps, torn, promise>>

\* start_shm_map_malloc, up to the loop over the regions
StartMaps ==
  /\ vpp.pc = "maps"
  /\ LET rs == sort_shm_map_reg_outside(vpp.ver)
         start == MemStart(vpp.ver) IN
     segs' = [segs EXCEPT ![vpp.g] =
       [@ EXCEPT !.ver = vpp.ver, !.lock = 0,
          !.maps = [i \in DOMAIN rs |-> [name |-> rs[i].name, off |-> 0, len |-> rs[i].len]],
          !.cstart = start, !.cend = start,
          !.mem = [c \in start..(MAIN_SHM_LEN(vpp.ver) - 1) |-> 0]]]
  /\ vpp' = [vpp EXCEPT !.pc = "regions", !.i = 1]
  /\ UNCHANGED <<key, loader, saver, file, sc, fresh, snaps, torn, promise>>


\* one region: its offset, the end of the configuration, its init function
StartRegion ==
  /\ vpp.pc = "regions"
  /\ LET rs == sort_shm_map_reg_outside(vpp.ver)
         i == vpp.i
         s == segs[vpp.g]
         pre == MemStart(vpp.ver) + LenOf(rs, i - 1) IN
     /\ i <= Len(rs)
     /\ segs' = [segs EXCEPT ![vpp.g] =
          [s EXCEPT !.maps[i].off = pre,
             !.cend = IF rs[i].mem = "stat" /\ s.cend = s.cstart THEN pre - 1 ELSE s.cend,
             !.mem = [c \in DOMAIN s.mem |->
                        IF c \in pre..(pre + rs[i].len - 1) THEN InitValue ELSE s.mem[c]]]]
     /\ vpp' = [vpp EXCEPT !.i = i + 1]
  /\ UNCHANGED <<key, loader, saver, file, sc, fresh, snaps, torn, promise>>

\* mutant: the status is not set
StartFinish_NoStatus ==
  /\ vpp.pc = "regions" /\ vpp.i > Len(Regs[vpp.ver])
  /\ loader' = [loader EXCEPT !["vpp"] = [IdleLoader EXCEPT !.pc = "open", !.g = vpp.g]]
  /\ vpp' = [vpp EXCEPT !.pc = "load", !.i = 0]
  /\ UNCHANGED <<segs, key, saver, file, sc, fresh, snaps, torn, promise>>

\* the map is ready; load_shm_config_from_default_file follows
StartFinish ==
  /\ vpp.pc = "regions"
  /\ vpp.i > Len(Regs[vpp.ver])
  /\ segs' = [segs EXCEPT ![vpp.g].status = "finish"]
  /\ loader' = [loader EXCEPT !["vpp"] = [IdleLoader EXCEPT !.pc = "open", !.g = vpp.g]]
  /\ vpp' = [vpp EXCEPT !.pc = "load", !.i = 0]
  /\ UNCHANGED <<key, saver, file, sc, fresh, snaps, torn, promise>>


\* an old segment: check_shm_main, then update_all_callback_ptr; clib_error ends VPP
VppCheck ==
  /\ vpp.pc = "check"
  /\ LET s == segs[vpp.g]
         bad == s.size # MAIN_SHM_LEN(vpp.ver) \/ s.status # "finish" IN
     vpp' = IF bad THEN [vpp EXCEPT !.pc = "fatal", !.g = 0]
            ELSE [vpp EXCEPT !.pc = "run"]
  /\ UNCHANGED <<segs, key, loader, saver, file, sc, fresh, snaps, torn, promise>>

\* the first tick of the statistics sets interfaces_cnt, which restd waits for
VppCount ==
  /\ vpp.pc = "run"
  /\ LET c == At(segs[vpp.g], IntfStatReg, 1) IN
     /\ segs[vpp.g].mem[c] = 0
     /\ segs' = [segs EXCEPT ![vpp.g].mem[c] = 1]
  /\ UNCHANGED <<key, vpp, loader, saver, file, sc, fresh, snaps, torn, promise>>

-----------------------------------------------------------------------------
(* load_shm_config_from_file *)

check_sf_shm_main(s, f) ==
  /\ s.ver = f.ver /\ s.cstart = f.cstart /\ s.cend = f.cend
  /\ Len(s.maps) = Len(f.maps)

HeadMatches(s, f) ==
  /\ check_sf_shm_main(s, f)
  /\ \A i \in DOMAIN s.maps : s.maps[i].off <= s.cend => s.maps[i] = f.maps[i]

\* the caller goes on, whatever load returned
LoadDone(a) ==
  /\ loader' = [loader EXCEPT ![a] = IdleLoader]
  /\ vpp' = IF a = "vpp" THEN [vpp EXCEPT !.pc = "run"] ELSE vpp


\* the length is checked before anything is copied; the open file is read to its
\* end even when a save removes its name meanwhile
LoadOpen(a) ==
  /\ loader[a].pc = "open"
  /\ LET s == segs[loader[a].g] IN
     IF file.len < s.cend + 1 \/ ~HeadMatches(s, file)
     THEN LoadDone(a)
     ELSE /\ loader' = [loader EXCEPT ![a] =
                          [@ EXCEPT !.pc = "copy", !.off = s.cstart, !.data = file]]
          /\ UNCHANGED vpp
  /\ fresh' = (a = "vpp" \/ fresh)
  /\ UNCHANGED <<segs, key, saver, file, sc, snaps, torn, promise>>

LoadBlock(a) ==
  /\ loader[a].pc = "copy"
  /\ LET l == loader[a]
         s == segs[l.g] IN
     /\ l.off <= s.cend
     /\ LET got == { c \in DOMAIN s.mem :
                      l.off <= c /\ c < l.off + Block /\ c < l.data.len } IN
        segs' = [segs EXCEPT ![l.g] =
          [s EXCEPT !.mem = [c \in DOMAIN s.mem |->
                               IF c \in got THEN l.data.mem[c] ELSE s.mem[c]],
                    !.hot = \/ s.hot \/ s.status # "finish"
                            \/ (FlagAt(s) \in got /\ l.data.mem[FlagAt(s)] = 1)]]
     /\ loader' = [loader EXCEPT ![a].off = @ + Block]
  /\ fresh' = (fresh /\ a = "vpp")
  /\ torn' = (torn \/ saver["tool"].pc # "idle")
  /\ UNCHANGED <<key, vpp, saver, file, sc, snaps, promise>>

LoadEnd(a) ==
  /\ loader[a].pc = "copy"
  /\ loader[a].off > segs[loader[a].g].cend
  /\ LoadDone(a)
  /\ UNCHANGED <<segs, key, saver, file, sc, fresh, snaps, torn, promise>>

-----------------------------------------------------------------------------
(* save_shm_config_to_file *)

\* mutant: the last cell of the configuration is not written
SaveBegin_Short(a, g) ==
  saver' = [saver EXCEPT ![a] =
    [IdleSaver EXCEPT !.pc = "remove", !.g = g, !.total = segs[g].cend, !.want = View(segs[g])]]

\* the call: the head of the segment up to the end of the configuration
SaveBegin(a, g) ==
  saver' = [saver EXCEPT ![a] =
    [IdleSaver EXCEPT !.pc = "remove", !.g = g, !.total = segs[g].cend + 1, !.want = View(segs[g])]]

\* remove: whoever has the file open keeps writing, but to no name
SaveRemove(a) ==
  /\ saver[a].pc = "remove"
  /\ file' = NoFile
  /\ saver' = [b \in DOMAIN saver |->
       IF b = a THEN [saver[b] EXCEPT !.pc = "open"]
       ELSE IF saver[b].pc \in {"write", "closed"} THEN [saver[b] EXCEPT !.orphan = TRUE]
       ELSE saver[b]]
  /\ promise' = [promise EXCEPT !.on = FALSE]
  /\ fresh' = FALSE
  /\ UNCHANGED <<segs, key, vpp, loader, sc, snaps, torn>>

SaveOpen(a) ==
  /\ saver[a].pc = "open"
  /\ \/ /\ LET s == segs[saver[a].g] IN
           file' = [NoFile EXCEPT !.len = 0, !.ver = s.ver, !.cstart = s.cstart, !.cend = s.cend,
                                  !.maps = s.maps, !.mem = [c \in DOMAIN s.mem |-> 0]]
        /\ saver' = [saver EXCEPT ![a].pc = "write"]
        /\ UNCHANGED sc
     \/ /\ Spend("disk")  \* there is no room for a file
        /\ saver' = [saver EXCEPT ![a].pc = "failed"]
        /\ UNCHANGED file
  /\ UNCHANGED <<segs, key, vpp, loader, fresh, snaps, torn, promise>>

BlockLen(w) == IF w.total - w.off >= Block THEN Block ELSE w.total - w.off

\* what stdio keeps before it writes: the block size of the file system, 4096 bytes
StdioBuffer == 2 * Block
Pending(w) == w.off - w.sent

\* the disk takes "kept" cells of the buffer
Flushed(w, kept) ==
  IF w.orphan \/ kept = 0 THEN file
  ELSE [file EXCEPT !.len = IF w.sent + kept > @ THEN w.sent + kept ELSE @,
          !.mem = [c \in DOMAIN @ |-> IF c \in DOMAIN w.buf /\ c < w.sent + kept
                                      THEN w.buf[c] ELSE @[c]]]

\* fwrite copies one block behind what is in the buffer from "sent" on
Buffered(w, sent) ==
  LET mem == segs[w.g].mem
      end == w.off + BlockLen(w) IN
  [w EXCEPT !.sent = sent, !.off = end,
            !.buf = [c \in { x \in DOMAIN mem : sent <= x /\ x < end } |->
                       IF c < w.off THEN w.buf[c] ELSE mem[c]]]

\* fwrite of one block: into the buffer, if it has room
WriteBlock(a) ==
  LET w == saver[a] IN
  /\ w.pc = "write" /\ w.off < w.total /\ Pending(w) < StdioBuffer
  /\ saver' = [saver EXCEPT ![a] = Buffered(w, w.sent)]
  /\ UNCHANGED <<file, sc>>

\* otherwise the buffer is written to the disk first; if that takes only a part of it,
\* fwrite returns 0
FlushAndWrite(a, kept) ==
  LET w == saver[a] IN
  /\ w.pc = "write" /\ w.off < w.total /\ Pending(w) = StdioBuffer
  /\ file' = Flushed(w, kept)
  /\ saver' = [saver EXCEPT ![a] = IF kept = Pending(w) THEN Buffered(w, w.off)
                                   ELSE [w EXCEPT !.pc = "failed"]]
  /\ IF kept = Pending(w) THEN UNCHANGED sc ELSE Spend("disk")

\* fclose writes the rest; nobody looks at what it returns
SaveClose(a, kept) ==
  LET w == saver[a] IN
  /\ w.pc = "write" /\ w.off >= w.total
  /\ file' = Flushed(w, kept)
  /\ saver' = [saver EXCEPT ![a] = [w EXCEPT !.pc = "closed", !.cut = kept < Pending(w),
                                             !.buf = <<>>]]
  /\ IF kept = Pending(w) THEN UNCHANGED sc ELSE Spend("disk")

SaveBlock(a) ==
  /\ \/ WriteBlock(a)
     \/ \E kept \in 0..Pending(saver[a]) : FlushAndWrite(a, kept) \/ SaveClose(a, kept)
  /\ UNCHANGED <<segs, key, vpp, loader, fresh, snaps, torn, promise>>

SaveOk(a) == saver[a].pc = "closed"
SaveFailed(a) == saver[a].pc = "failed"

-----------------------------------------------------------------------------
(* The tools, the failures of VPP and of the machine *)

save_shm ==
  /\ saver["tool"].pc = "idle" /\ key # 0
  /\ Spend("tsave")
  /\ SaveBegin("tool", key)
  /\ snaps' = snaps \cup {<<segs[key].ver, View(segs[key])>>}
  /\ torn' = (torn \/ saver["restd"].pc # "idle")
  /\ UNCHANGED <<segs, key, vpp, loader, file, fresh, promise>>

save_shm_end ==
  /\ SaveOk("tool") \/ SaveFailed("tool")
  /\ saver' = [saver EXCEPT !["tool"] = IdleSaver]
  /\ UNCHANGED <<segs, key, vpp, loader, file, sc, fresh, snaps, torn, promise>>

load_shm ==
  /\ loader["tool"].pc = "idle" /\ key # 0
  /\ Spend("tload")
  /\ loader' = [loader EXCEPT !["tool"] = [IdleLoader EXCEPT !.pc = "open", !.g = key]]
  /\ UNCHANGED <<segs, key, vpp, saver, file, fresh, snaps, torn, promise>>

\* IPC_RMID: the key is gone, those attached keep the memory
delete_shm ==
  /\ key # 0
  /\ Spend("delete")
  /\ key' = 0
  /\ UNCHANGED <<segs, vpp, loader, saver, file, fresh, snaps, torn, promise>>

VppCrash ==
  /\ vpp.pc \notin {"down", "fatal"}
  /\ Spend("vcrash")
  /\ vpp' = [vpp EXCEPT !.pc = "down", !.g = 0, !.i = 0,
                         !.hurt = @ \/ vpp.pc \in {"init", "maps", "regions"}]
  /\ loader' = [loader EXCEPT !["vpp"] = IdleLoader]
  /\ fresh' = FALSE
  /\ UNCHANGED <<segs, key, saver, file, snaps, torn, promise>>

\* the machine stops and starts: only the file is left
Reboot ==
  /\ Spend("reboot")
  /\ segs' = [g \in Gens |-> EmptySeg]
  /\ key' = 0
  /\ vpp' = [vpp EXCEPT !.pc = "down", !.g = 0, !.i = 0, !.hurt = FALSE]
  /\ loader' = [a \in DOMAIN loader |-> IdleLoader]
  /\ saver' = [a \in DOMAIN saver |-> IdleSaver]
  /\ fresh' = FALSE
  /\ torn' = (torn \/ saver["tool"].pc # "idle")
  /\ UNCHANGED <<file, snaps, promise>>

-----------------------------------------------------------------------------
\* the state after the first start of version v, nothing saved
Started(v) ==
  LET rs == sort_shm_map_reg_outside(v)
      start == MemStart(v)
      nconf == Len(OfKind(Regs[v], "config")) IN
  [EmptySeg EXCEPT !.status = "finish", !.ver = v, !.size = MAIN_SHM_LEN(v),
     !.maps = [i \in DOMAIN rs |-> [name |-> rs[i].name, off |-> start + LenOf(rs, i - 1),
                                    len |-> rs[i].len]],
     !.cstart = start, !.cend = start + LenOf(rs, nconf) - 1,
     !.mem = [c \in start..(MAIN_SHM_LEN(v) - 1) |-> InitValue]]

ShmInit ==
  /\ sc \in Scenarios
  /\ key = IF sc.boot THEN 0 ELSE 1
  /\ segs = [g \in Gens |-> IF g = 1 /\ ~sc.boot THEN Started(1) ELSE EmptySeg]
  /\ vpp = [pc |-> IF sc.boot THEN "down" ELSE "run", ver |-> 1, g |-> key, i |-> 0,
            hurt |-> FALSE]
  /\ loader = [a \in {"vpp", "tool"} |-> IdleLoader]
  /\ saver = [a \in {"restd", "tool"} |-> IdleSaver]
  /\ file = NoFile
  /\ fresh = FALSE /\ snaps = {} /\ torn = FALSE
  /\ promise = [on |-> FALSE, ver |-> 0, view |-> <<>>]

VppStep(others) ==
  \/ VppLink(others) \/ init_shm_main \/ StartMaps \/ StartRegion \/ StartFinish \/ VppCheck
  \/ LoadOpen("vpp") \/ LoadBlock("vpp") \/ LoadEnd("vpp")

ToolStep ==
  \/ save_shm \/ SaveRemove("tool") \/ SaveOpen("tool") \/ SaveBlock("tool") \/ save_shm_end
  \/ load_shm \/ LoadOpen("tool") \/ LoadBlock("tool") \/ LoadEnd("tool")
=============================================================================
