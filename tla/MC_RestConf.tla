------------------------------ MODULE MC_RestConf ------------------------------
EXTENDS RestConf

Reg(n, m, l) == [name |-> n, mem |-> m, len |-> l]

\* version 2 is version 1 linked in another order, version 3 has a longer region, version 4
\* another region of the same length
MC_Regs ==
  << <<Reg(4, "stat", 1), Reg(3, "config", 4), Reg(1, "config", 2), Reg(5, "stat", 1),
       Reg(2, "config", 1)>>,
     <<Reg(2, "config", 1), Reg(1, "config", 2), Reg(5, "stat", 1), Reg(3, "config", 4),
       Reg(4, "stat", 1)>>,
     <<Reg(1, "config", 3), Reg(2, "config", 1), Reg(4, "stat", 1), Reg(3, "config", 4),
       Reg(5, "stat", 1)>>,
     <<Reg(4, "stat", 1), Reg(3, "config", 4), Reg(1, "config", 2), Reg(6, "stat", 1),
       Reg(2, "config", 1)>> >>

MC_Puts ==
  { << [f |-> "type", t |-> "force_tx"], [f |-> "bind2", t |-> "1"] >>,
    << [f |-> "mac", t |-> "bad"], [f |-> "bind1", t |-> "1"] >>,
    << [f |-> "type", t |-> "loopbak"] >>,
    << [f |-> "mac", t |-> "1"], [f |-> "bind1", t |-> "2"], [f |-> "type", t |-> "none"] >> }

Scenario0 ==
  [boot |-> FALSE, put |-> 0, other |-> 0, reset |-> 0, sync |-> 0, down |-> 0, up |-> 0,
   acl |-> 0, tsave |-> 0, tload |-> 0, delete |-> 0, disk |-> 0, upgrade |-> 0,
   vcrash |-> 0, rcrash |-> 0, reboot |-> 0]

MC_Scenarios ==
  { \* the first start, cut at any step, another version
    [Scenario0 EXCEPT !.boot = TRUE, !.vcrash = 2, !.delete = 1, !.upgrade = 1],
    \* saved, changed, the machine stops
    [Scenario0 EXCEPT !.put = 2, !.sync = 2, !.reboot = 1],
    [Scenario0 EXCEPT !.other = 1, !.sync = 1, !.reboot = 1, !.upgrade = 1, !.disk = 1],
    [Scenario0 EXCEPT !.put = 1, !.sync = 1, !.rcrash = 1, !.reboot = 1],
    \* an ACL sync while the configuration is saved
    [Scenario0 EXCEPT !.acl = 1, !.sync = 1, !.reset = 1, !.reboot = 1, !.rcrash = 1],
    \* the tools beside restd
    [Scenario0 EXCEPT !.other = 1, !.sync = 1, !.tsave = 1, !.reboot = 1],
    [Scenario0 EXCEPT !.put = 1, !.tsave = 1, !.tload = 1, !.down = 1],
    [Scenario0 EXCEPT !.put = 1, !.sync = 1, !.delete = 1, !.vcrash = 1],
    \* download and upload
    [Scenario0 EXCEPT !.put = 2, !.down = 1, !.up = 1],
    [Scenario0 EXCEPT !.put = 1, !.down = 1, !.up = 1, !.reset = 1, !.rcrash = 1],
    [Scenario0 EXCEPT !.other = 1, !.down = 1, !.up = 1, !.sync = 1, !.acl = 1] }
=============================================================================
