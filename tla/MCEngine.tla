----------------------------- MODULE MCEngine ------------------------------
(* Instances of Engine for TLC: the calls of an agent under an allowlist   *)
(* policy that makes "ws" readable and writable and "key" a credential.    *)
EXTENDS Engine, TLC

Obs(kind, path, facts) ==
  [kind |-> kind, path |-> path, facts |-> facts, to |-> {}, op |-> "read",
   res |-> "lexical", setup |-> FALSE, hooked |-> TRUE, outcome |-> "ok", call |-> 0,
   ts |-> 0]
Open(path, facts, op)   == [Obs("open", path, facts) EXCEPT !.op = op]
Opened(path, facts, op) == [Open(path, facts, op) EXCEPT !.res = "kernel"]
Unhooked(path, facts, op) == [Opened(path, facts, op) EXCEPT !.hooked = FALSE]
Both(path, facts, op) == <<Open(path, facts, op), Opened(path, facts, op)>>

Ws == {"allow_write"}
Key == {"credential"}

Written  == Both("ws", Ws, "write")
Symlink  == <<Open("ws", Ws, "read"), Opened("key", Key, "read")>>
Refused  == <<[Open("key", Key, "read") EXCEPT !.outcome = "failed"]>>
Outside  == Both("out", {"untrusted"}, "read")
CacheWritten == Both("cache", {"benign"}, "write")
CacheRefused == <<[Open("cache", {"benign"}, "write") EXCEPT !.outcome = "failed"]>>
CacheLate == <<CacheRefused[1], Opened("cache", {"benign"}, "write")>>
Listed   == <<Open("lib", {"allow_read"}, "list"), Opened("lib", {"allow_read"}, "read")>>
Device   == <<Open("dev", {"runtime_write"}, "write"), Opened("dev", {"runtime_write"}, "read")>>
RunOwn   == <<Obs("exec", "ws", {"listed_program"}), Unhooked("ws", Ws, "read")>>
RunOther == <<Obs("exec", "out", {}), Unhooked("out", {"untrusted"}, "read")>>
SetUp    == <<[Open("out", {"untrusted"}, "read") EXCEPT !.setup = TRUE]>>
LibRead  == Both("lib", {"allow_read"}, "read")
LibWritten == Both("lib", {"allow_read"}, "write")
Misread  == <<Open("lib", {"allow_read"}, "read"), Opened("lib", {"allow_read"}, "write")>>
ByRing   == <<Unhooked("lib", {"allow_read"}, "write")>>
Query    == <<Obs("dns", "name", {"domain"})>>
Connect  == <<[Obs("net", "host", {}) EXCEPT !.op = "connect"]>>
Exit     == <<Obs("exit", "name", {})>>
Renamed  == <<[Obs("rename", "ws", Ws) EXCEPT !.to = {"deny"}]>>
Deleted  == <<Obs("unlink", "key", Key)>>
SetUid   == <<Obs("chmod", "ws", Ws \cup {"setuid"})>>
Metadata == <<[Obs("net", "host", {"metadata"}) EXCEPT !.op = "send"]>>
Listens  == <<[Obs("net", "host", {}) EXCEPT !.op = "bind"]>>
Runtime  == <<Obs("unix", "name", {"runtime_socket"})>>
Unshare  == <<Obs("privileged", "name", {})>>
Capset   == <<Obs("capset", "name", {})>>
Kill     == <<Obs("kill", "name", {"monitor"})>>
KillAll  == <<Obs("kill", "name", {"everyone"})>>

FileShapes == {Written, Outside, RunOwn, RunOther, SetUp}
NetShapes == {Query, Connect, Refused}
RareShapes == {Symlink, LibRead, LibWritten, Misread, ByRing, Listed, Device, CacheWritten,
               CacheRefused, CacheLate, Exit,
               Renamed, Deleted, SetUid, Metadata, Listens, Runtime, Unshare,
               Capset, Kill, KillAll}

(* One agent works on files, one uses the network, one does anything while *)
(* the sensor drops records.                                               *)
ShapesOf == [files |-> FileShapes, net |-> NetShapes,
             any |-> FileShapes \cup NetShapes \cup RareShapes]
CallsOf == [files |-> 3, net |-> 4, any |-> 2]
DropsOf == [files |-> 0, net |-> 0, any |-> 1]
TimeOf  == [files |-> 3, net |-> 2, any |-> 2]
FewOfEach == [files |-> 2, dests |-> 1, execs |-> 1]

Symmetry == Permutations(Tids)
============================================================================
