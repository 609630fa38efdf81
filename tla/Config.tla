------------------------------- MODULE Config -------------------------------
(***************************************************************************)
(* Config::Config: reading audpipe.toml, the connection policy, the remote *)
(* and the local side, in the order of the code.  An integer of the file   *)
(* has 64 bits; what is stored has 16 or 32.                               *)
(***************************************************************************)
EXTENDS Integers

CONSTANTS
  Int64,      \* the integers a file may hold, of 64 bits
  None,          \* an absent key or table, a key of a wrong type
  PolicyKeys,    \* the integers of [net]
  Width,         \* of each policy key and of a port: 2^16 or 2^32
  DefaultPolicy, \* the ConnectionPolicy of config.hxx
  LowPort,       \* 1024
  DefaultPort,   \* DEFAULT_LOCAL_PORT
  Addresses,     \* what getaddrinfo makes of a name it resolves
  Resolves,      \* the names, and the addresses each may resolve to
  DEFAULT_LOCAL_IP,
  Files          \* the files considered

Hosts  == DOMAIN Resolves
Ports  == LowPort .. Width["port"] - 1
Optional(S) == S \union {None}
Side   == [ip : Optional(Hosts), port : Optional(Int64)]
Policy == [PolicyKeys -> Nat]
Table  == [net : [PolicyKeys -> Optional(Int64)],
           remote : Optional(Side), local : Optional(Side)]

ASSUME ConfigAssumption ==
  /\ "max_retries" \in PolicyKeys
  /\ Width \in [PolicyKeys \union {"port"} -> Nat \ {0}]
  /\ LowPort \in Nat /\ DefaultPort \in Ports
  /\ \A k \in PolicyKeys : DefaultPolicy[k] \in 0 .. Width[k] - 1
  /\ DefaultPolicy["max_retries"] > 0
  /\ Resolves \in [Hosts -> SUBSET Addresses]
  /\ DEFAULT_LOCAL_IP \in Hosts
  /\ Int64 \subseteq Int /\ Files \subseteq Table
  /\ None \notin Hosts /\ None \notin Addresses /\ None \notin Int

VARIABLES
  at,           \* where the constructor is
  file,         \* what audpipe.toml says
  table,        \* the parsed table
  connection, remote_ip, remote_port, local_ip, local_port

settings == <<connection, remote_ip, remote_port, local_ip, local_port>>
vars     == <<at, file, table, settings>>

Init ==
  /\ at = "read" /\ file \in Files /\ table = None
  /\ connection = DefaultPolicy
  /\ remote_ip = None /\ remote_port = None
  /\ local_ip = DEFAULT_LOCAL_IP /\ local_port = DefaultPort

\* An exception: the Config does not come to exist.
Refuse == at' = "refused" /\ UNCHANGED <<file, table, settings>>

-----------------------------------------------------------------------------
\* The file is read and parsed.
ReadFile ==
  /\ at = "read" /\ at' = "net"
  /\ table' = file
  /\ UNCHANGED <<file, settings>>

\* It cannot be opened, or is not TOML; a file without a byte makes the
\* std::string of a null pointer.
Unreadable == at = "read" /\ Refuse

\* The string is built from an array without a terminating NUL.  When the heap
\* has other bytes there, they become part of the text: more digits for the
\* integer that it ends with, or something that is no TOML (Unreadable).
Lengthened(t) ==
  {[t EXCEPT !.net[k] = n] : k \in {l \in PolicyKeys : t.net[l] # None},
                             n \in Int64}
  \union UNION {{[t EXCEPT ![s].port = n] : n \in Int64} :
                  s \in {r \in {"remote", "local"} :
                           t[r] # None /\ t[r].port # None}}
ReadPastEnd ==
  /\ at = "read" /\ at' = "net"
  /\ table' \in Lengthened(file)
  /\ UNCHANGED <<file, settings>>

-----------------------------------------------------------------------------
\* [net]: a value is narrowed to the width of its field, and only then
\* max_retries is looked at.
NarrowedNot(n, k) == n
Narrowed(n, k) == n % Width[k]

NetPolicy(net) ==
  [k \in PolicyKeys |->
     IF net[k] = None THEN DefaultPolicy[k] ELSE Narrowed(net[k], k)]

ReadNetChecksFirst ==
  /\ at = "net" /\ at' = "remote"
  /\ connection' = NetPolicy(table.net)
  /\ table.net["max_retries"] # 0
  /\ UNCHANGED <<file, table, remote_ip, remote_port, local_ip, local_port>>
ReadNet ==
  /\ at = "net" /\ at' = "remote"
  /\ connection' = NetPolicy(table.net)
  /\ connection'["max_retries"] # 0
  /\ UNCHANGED <<file, table, remote_ip, remote_port, local_ip, local_port>>

NoRetries ==
  /\ at = "net" /\ NetPolicy(table.net)["max_retries"] = 0
  /\ Refuse

-----------------------------------------------------------------------------
\* The other mode's table has to be there, with both of its keys.
ReadRemote ==
  /\ at = "remote" /\ table.remote # None
  /\ at' = "remote_ip" /\ UNCHANGED <<file, table, settings>>

NoRemote == at = "remote" /\ table.remote = None /\ Refuse

\* validate_ip: any of the addresses of a name that is there and resolves.
Lookup(host) == IF host \in Hosts THEN Resolves[host] ELSE {}

ResolveRemote ==
  /\ at = "remote_ip" /\ remote_ip' \in Lookup(table.remote.ip)
  /\ at' = "remote_port"
  /\ UNCHANGED <<file, table, connection, remote_port, local_ip, local_port>>

BadRemoteIp == at = "remote_ip" /\ Lookup(table.remote.ip) = {} /\ Refuse

\* validate_port: the range is checked on the wide integer, before the cast.
ValidPortLow(p) == p # None /\ p >= LowPort
ValidPort(p) == p # None /\ p >= LowPort /\ p <= Width["port"] - 1
PortOf(p)    == p % Width["port"]

ReadRemotePort ==
  /\ at = "remote_port" /\ ValidPort(table.remote.port)
  /\ remote_port' = PortOf(table.remote.port)
  /\ at' = "local"
  /\ UNCHANGED <<file, table, connection, remote_ip, local_ip, local_port>>

BadRemotePort ==
  at = "remote_port" /\ ~ValidPort(table.remote.port) /\ Refuse

-----------------------------------------------------------------------------
\* This mode's table may be left out: the defaults stay, the name of the local
\* host as it is.  If it is there it needs a port, but no ip.  (Something that
\* is no table is like an empty one here, and like none for [net] and remote.)
NoLocal ==
  /\ at = "local" /\ table.local = None
  /\ at' = "accepted" /\ UNCHANGED <<file, table, settings>>

LocalHostNeeded == table.local.ip
LocalHost ==
  IF table.local.ip = None THEN DEFAULT_LOCAL_IP ELSE table.local.ip

ResolveLocal ==
  /\ at = "local" /\ table.local # None
  /\ local_ip' \in Lookup(LocalHost)
  /\ at' = "local_port"
  /\ UNCHANGED <<file, table, connection, remote_ip, remote_port, local_port>>

BadLocalIp ==
  /\ at = "local" /\ table.local # None /\ Lookup(LocalHost) = {}
  /\ Refuse

ReadLocalPort ==
  /\ at = "local_port" /\ ValidPort(table.local.port)
  /\ local_port' = PortOf(table.local.port)
  /\ at' = "accepted"
  /\ UNCHANGED <<file, table, connection, remote_ip, remote_port, local_ip>>

BadLocalPort ==
  at = "local_port" /\ ~ValidPort(table.local.port) /\ Refuse

-----------------------------------------------------------------------------
Next ==
  \/ ReadFile \/ Unreadable \/ ReadPastEnd \/ ReadNet \/ NoRetries
  \/ ReadRemote \/ NoRemote \/ ResolveRemote \/ BadRemoteIp
  \/ ReadRemotePort \/ BadRemotePort \/ NoLocal \/ ResolveLocal \/ BadLocalIp
  \/ ReadLocalPort \/ BadLocalPort

Spec == Init /\ [][Next]_vars

-----------------------------------------------------------------------------
\* The types of the state: fields keep their width, and local_ip is an address
\* or still the default name.
TypeOK ==
  /\ at \in {"read", "net", "remote", "remote_ip", "remote_port", "local",
             "local_port", "accepted", "refused"}
  /\ file \in Table /\ table \in Optional(Table)
  /\ \A k \in PolicyKeys : connection[k] \in 0 .. Width[k] - 1
  /\ remote_ip \in Optional(Addresses) /\ remote_port \in Optional(Ports)
  /\ local_ip \in Addresses \union {DEFAULT_LOCAL_IP} /\ local_port \in Ports

\* Client's constructor makes at least one attempt: max_retries, which loops
\* count up to and an error message is keyed to, is never 0 after all the
\* conversions (with 0 the client would run without an Rtp and without an
\* error).
SomeAttempt == at = "accepted" => connection["max_retries"] > 0

\* The ports that are used are the ones that the text gave: no port out of
\* range gets in by way of its low 16 bits.
PortsAsWritten ==
  at = "accepted" =>
    /\ remote_port = table.remote.port
    /\ local_port = IF table.local = None THEN DefaultPort
                                          ELSE table.local.port

\* What the documents ask of a configuration.  audpipe.toml: only the remote
\* details have to be there; config.cpp:248: what is not present of the local
\* side is already set; config.cpp:177: max_retries is at least 1.
RemoteComplete(s) == s # None /\ Lookup(s.ip) # {} /\ s.port \in Ports
LocalComplete(s) ==
  s # None =>
    /\ Lookup(IF s.ip = None THEN DEFAULT_LOCAL_IP ELSE s.ip) # {}
    /\ s.port \in Ports \union {None}
RetriesComplete(net) ==
  net["max_retries"] = None \/ net["max_retries"] >= 1

\* Where the constructor departs from them: a local table without a port is
\* refused, and max_retries is narrowed before it is looked at.
Portless(t) == t.local # None /\ t.local.port = None
Wrapped(t)  ==
  t.net["max_retries"] \notin (0 .. Width["max_retries"] - 1) \union {None}

\* The validations, made one after the other between conversions, defaults and
\* early returns, accept the configurations that the documents call complete
\* and no others, but for these two departures; neither of them lets another
\* part of the file by.
VerdictAsDocumented ==
  /\ at = "accepted" =>
       /\ RemoteComplete(table.remote) /\ LocalComplete(table.local)
       /\ RetriesComplete(table.net) \/ Wrapped(table)
  /\ at = "refused" /\ table # None =>
       \/ ~RemoteComplete(table.remote) \/ ~LocalComplete(table.local)
       \/ ~RetriesComplete(table.net)
       \/ Portless(table) \/ Wrapped(table)

=============================================================================
