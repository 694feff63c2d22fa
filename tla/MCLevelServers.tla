---------------------------- MODULE MCLevelServers ----------------------------
(* Instance of LevelServers for TLC: all four servers. *)
EXTENDS LevelServers
CONSTANTS c1, c2, c3

MCClients == {c1, c2, c3}
MCFds == {5, 6}
MCSizes == {2, 3}
MCSenders == {c1}
MCResetters == {c2}
MCPrograms == {"select", "select_io", "poll", "epoll"}
=============================================================================
