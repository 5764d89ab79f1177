------------------------------ MODULE MC_CliStat ------------------------------
EXTENDS CliStat

Scenario0 ==
  [boot |-> FALSE, wrap |-> FALSE, cmds |-> {}, console |-> {}, hit |-> 0, call |-> 0,
   loss |-> 0, consoles |-> 0, tick |-> 0, restart |-> 0, in |-> 0, out |-> 0,
   tx |-> 0, miss |-> 0, patch |-> 0, wire |-> 0]

AclCmds == {"acl_sync", "acl_clear"}

MC_Scenarios ==
  { \* hits, and restd's commands, answered or not
    [Scenario0 EXCEPT !.cmds = AclCmds, !.hit = 2, !.call = 2, !.wrap = TRUE],
    [Scenario0 EXCEPT !.cmds = AclCmds, !.hit = 1, !.call = 3],
    \* late answers
    [Scenario0 EXCEPT !.cmds = {"show"}, !.call = 4, !.loss = 1],
    \* hits, restd and the console
    [Scenario0 EXCEPT !.cmds = AclCmds, !.hit = 1, !.call = 2,
       !.console = {"acl_sync", "acl_clear_one"}, !.consoles = 1],
    \* hits and a restart
    [Scenario0 EXCEPT !.cmds = AclCmds, !.hit = 2, !.call = 1, !.restart = 1],
    \* packets, both ways to the calculation, statistics zeroed
    [Scenario0 EXCEPT !.cmds = {"intf_sync"}, !.call = 1, !.tick = 1,
       !.out = 1, !.tx = 1, !.console = {"intf_clear"}, !.consoles = 1],
    [Scenario0 EXCEPT !.tick = 2, !.out = 2, !.tx = 1, !.patch = 1],
    [Scenario0 EXCEPT !.tick = 1, !.in = 1, !.miss = 1, !.patch = 2],
    \* start, restart with other ports, links
    [Scenario0 EXCEPT !.boot = TRUE, !.tick = 3, !.restart = 1, !.out = 1,
       !.tx = 1],
    [Scenario0 EXCEPT !.boot = TRUE, !.tick = 2, !.restart = 1, !.wire = 2,
       !.cmds = {"show"}, !.call = 1] }
=============================================================================
