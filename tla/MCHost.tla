------------------------------- MODULE MCHost --------------------------------
(* A small host for TLC: the parts of the agent that keep state between      *)
(* scans beside the judgement of one scan.  They share no variable, so each  *)
(* behaviour exercises one of them (focus) and the others stay as they are.  *)
EXTENDS MCDetection, HostBaseline, FingerprintStore, StorageLimit, ScanMemory

VARIABLE focus
hostVars == <<focus, vars, baseVars, printVars, limitVars, memoryVars>>

-----------------------------------------------------------------------------
(* HostBaseline: a key file, a crontab, an account and a UDP listener        *)

Line(text, tags) == [text |-> text, tags |-> tags]
Content(lines) == [lines |-> lines, executable |-> FALSE]
FactOf(class, path, semantic) ==
    [class |-> class, path |-> path, semantic |-> semantic, public |-> FALSE, udp |-> FALSE, port |-> 0]
FirstKey == Content(<<Line("first key", {"key"})>>)
OtherKey == Content(<<Line("#", {"comment"}), Line("other key", {"key"})>>)
Download == Content(<<Line("fetch", {"entry", "network_or_shell_command"})>>)
AccountAs(uid, rest) == [uid |-> uid, rest |-> rest]

MCFact ==
    [keys |-> FactOf("file", "authorized_keys", "authorized_keys"),
     cron |-> FactOf("persistence", "/etc/cron.d", "cron"),
     alice |-> FactOf("user", "", ""),
     quic |-> [FactOf("listener", "", "") EXCEPT !.public = TRUE, !.udp = TRUE, !.port = 40000]]
MCValues ==
    [keys |-> {FirstKey, OtherKey, Content(<< >>)}, cron |-> {Absent, Download},
     alice |-> {AccountAs(1, "sh"), AccountAs(0, "sh")},
     quic |-> {[owner |-> "proxy"], [owner |-> "nc"]}]
MCFirstFacts == [keys |-> FirstKey, cron |-> Absent, alice |-> AccountAs(1, "sh"),
                 quic |-> [owner |-> "proxy"]]

-----------------------------------------------------------------------------
(* FingerprintStore: one probe with two spellings from two sources, another  *)
(* probe from behind a proxy that was not resolved                           *)

Probe(source, path) ==
    [category |-> "web", rule |-> "WEB-001", source |-> source, score |-> 55, confidence |-> 65, count |-> 3,
     evidence |-> [probe_family |-> {"command_injection"}, sample_paths |-> {path}],
     proxy_source_unresolved |-> source = "proxy"]
MCAttacks == {Probe("s1", "/cgi?1"), Probe("s2", "/cgi?2"), Probe("proxy", "/sh")}
MCNormal ==
    [v \in {"command_injection", "/cgi?1", "/cgi?2", "/sh"} |-> IF v = "/cgi?2" THEN "/cgi?1" ELSE v]

-----------------------------------------------------------------------------
(* StorageLimit: rows of one size in three tables                            *)

MCFirstCounts ==
    {[t \in SizeTables |-> CASE t = "findings" -> f [] t = "baseline_snapshots" -> b
                             [] t = "raw_events" -> r [] OTHER -> 0] :
        f \in {3}, b \in {1, 2}, r \in {0, 3}}
MCKeepRows == [t \in SizeTables |-> IF t = "raw_events" THEN 0 ELSE 1]
MCRowBytes == [t \in SizeTables |-> 1]

-----------------------------------------------------------------------------
(* ScanMemory: an upgraded daemon, listeners on dynamic ports, one shared by *)
(* two processes, logs that are wiped, rotated, removed or made a symlink,   *)
(* and processes that meet new ports                                         *)

Wildcard == [ip |-> "0.0.0.0", scope |-> "public-wildcard-v4", public |-> TRUE]
Lan == [ip |-> "10.0.0.2", scope |-> "specific-v4", public |-> FALSE]
Wan == [ip |-> "203.0.113.7", scope |-> "specific-v4", public |-> TRUE]
Localhost == [ip |-> "127.0.0.1", scope |-> "loopback", public |-> FALSE]
SocketOn(addr, udp, port, name, package, hash) ==
    [udp |-> udp, addr |-> addr, port |-> port, name |-> name, package |-> package, hash |-> hash]
Sshd(hash) == SocketOn(Wildcard, FALSE, 22, "sshd", "openssh", hash)
Forwarded == SocketOn(Localhost, FALSE, 6010, "sshd", "openssh", "h1")
Dht(addr, port, hash) == SocketOn(addr, TRUE, port, "dht", Unknown, hash)
Orphan(port) == SocketOn(Wan, TRUE, port, Unknown, Unknown, Unknown)
LogOf(size, rotated, file) == [size |-> size, rotated |-> rotated, file |-> file]
Peers(ports, fanout, process) == [ports |-> ports, fanout |-> fanout, process |-> process]

Calm ==
    [sockets |-> <<Sshd("h1"), Forwarded, Dht(Lan, 40000, "h1")>>, packages |-> FALSE,
     logs |-> [auth |-> LogOf(1000, FALSE, TRUE), sys |-> LogOf(900, FALSE, TRUE)],
     starts |-> <<1>>, traffic |-> <<Peers({443}, 1, TRUE)>>]
MCHosts ==
    {Calm,
     [Calm EXCEPT !.sockets = <<SocketOn(Wildcard, FALSE, 22, Unknown, "openssh", "h2"), Sshd("h1"),
                                Dht(Wan, 40000, "h1")>>],
     [Calm EXCEPT !.sockets = <<Sshd("h2"), Dht(Wan, 40001, "h2"), Orphan(40002)>>, !.packages = TRUE],
     [Calm EXCEPT !.logs = [auth |-> LogOf(0, FALSE, TRUE), sys |-> LogOf(0, TRUE, TRUE)], !.starts = <<2>>,
                  !.traffic = <<Peers({443, 22}, 9, FALSE)>>],
     [Calm EXCEPT !.logs = [sys |-> LogOf(5, FALSE, FALSE)],
                  !.traffic = <<Peers({443, 22}, 9, TRUE), Peers({80}, 0, TRUE)>>]}
MCConfigs == {[minPort |-> 32768, paths |-> {"auth", "sys"}], [minPort |-> 50000, paths |-> {"sys"}]}

-----------------------------------------------------------------------------
HostInit ==
    /\ focus \in {"detection", "baseline", "fingerprints", "limit", "memory"}
    /\ Init /\ BaselineInit /\ FingerprintInit /\ LimitInit /\ MemoryInit
    /\ focus # "detection" => <<conf, pool>> = CHOOSE input \in Inputs : TRUE
    /\ focus # "limit" => count = CHOOSE c \in FirstCounts : TRUE
    /\ focus # "memory" => config = AnyConfig /\ ~memory.profiled

HostNext ==
    /\ UNCHANGED focus
    /\ \/ focus = "detection" /\ Next /\ UNCHANGED <<baseVars, printVars, limitVars, memoryVars>>
       \/ focus = "baseline" /\ BaselineNext /\ UNCHANGED <<vars, printVars, limitVars, memoryVars>>
       \/ focus = "fingerprints" /\ FingerprintNext /\ UNCHANGED <<vars, baseVars, limitVars, memoryVars>>
       \/ focus = "limit" /\ LimitNext /\ UNCHANGED <<vars, baseVars, printVars, memoryVars>>
       \/ focus = "memory" /\ MemoryNext /\ UNCHANGED <<vars, baseVars, printVars, limitVars>>

\* The shells, the scans and the pruners are the same two processes.
ASSUME SameProcesses == Terminal = Enricher /\ Terminal = Pruner /\ Terminal = Scanner
HostSymmetry == Permutations(Terminal)

HostSpec == HostInit /\ [][HostNext]_hostVars
=============================================================================
