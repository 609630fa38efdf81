---------------------------- MODULE ConfigProofs ----------------------------
(***************************************************************************)
(* Proofs about Config for every width, every range of ports and every     *)
(* file.                                                                   *)
(***************************************************************************)
EXTENDS Config, TLAPS

BeforeNet   == {"read", "net"}
AfterRemote == {"local", "local_port", "accepted"}

\* What the constructor knows at each place.
Places ==
  /\ at \notin {"read", "refused"} => table \in Table
  /\ at \notin BeforeNet \union {"refused"} => connection["max_retries"] > 0
  /\ at \in AfterRemote => remote_port = table.remote.port
  /\ at \in {"remote_ip", "remote_port"} => table.remote \in Side
  /\ at \in {"local_port"} => table.local \in Side /\ table.local # None
  /\ at \notin {"accepted", "refused"} => local_port = DefaultPort
  /\ at = "accepted" =>
       local_port = IF table.local = None THEN DefaultPort
                                          ELSE table.local.port

IInv == TypeOK /\ Places

-----------------------------------------------------------------------------
\* Casts: a value in the range is kept, any other lands in the range.
LEMMA Fits ==
  ASSUME NEW w \in Nat \ {0}, NEW n \in Int
  PROVE  n % w \in 0 .. w - 1
  OBVIOUS

LEMMA PortKept ==
  ASSUME NEW p \in Optional(Int64), ValidPort(p)
  PROVE  PortOf(p) = p /\ p \in Ports
  <1>1. p \in Int /\ Width["port"] \in Nat \ {0} /\ LowPort \in Nat
    BY ConfigAssumption DEF ValidPort, Optional
  <1>2. p \in Nat /\ p < Width["port"] /\ p \in Ports
    BY <1>1 DEF ValidPort, Ports
  <1> QED
    BY <1>1, <1>2 DEF PortOf

LEMMA PolicyFits ==
  ASSUME NEW t \in Table
  PROVE  \A k \in PolicyKeys : NetPolicy(t.net)[k] \in 0 .. Width[k] - 1
  <1> SUFFICES ASSUME NEW k \in PolicyKeys
               PROVE  NetPolicy(t.net)[k] \in 0 .. Width[k] - 1
    OBVIOUS
  <1>1. t.net \in [PolicyKeys -> Optional(Int64)]
    BY DEF Table
  <1>2. Width[k] \in Nat \ {0} /\ DefaultPolicy[k] \in 0 .. Width[k] - 1
    BY ConfigAssumption
  <1>3. CASE t.net[k] = None
    BY <1>2, <1>3 DEF NetPolicy
  <1>4. CASE t.net[k] # None
    <2>1. t.net[k] \in Int
      BY <1>1, <1>4, ConfigAssumption DEF Optional
    <2>2. NetPolicy(t.net)[k] = t.net[k] % Width[k]
      BY <1>4 DEF NetPolicy, Narrowed
    <2> QED
      BY <1>2, <2>1, <2>2, Fits
  <1> QED
    BY <1>3, <1>4

\* The text that was read past its end still has the shape of a table.
LEMMA LengthenedIsTable ==
  ASSUME NEW t \in Table, NEW u \in Lengthened(t)
  PROVE  u \in Table
  <1>1. CASE \E k \in {l \in PolicyKeys : t.net[l] # None} : \E n \in Int64 :
               u = [t EXCEPT !.net[k] = n]
    <2>1. PICK k \in PolicyKeys, n \in Int64 : u = [t EXCEPT !.net[k] = n]
      BY <1>1
    <2>2. [t.net EXCEPT ![k] = n] \in [PolicyKeys -> Optional(Int64)]
      BY DEF Table, Optional
    <2> QED
      BY <2>1, <2>2 DEF Table
  <1>2. CASE \E s \in {"remote", "local"} : \E n \in Int64 :
               t[s] # None /\ u = [t EXCEPT ![s].port = n]
    <2>1. PICK s \in {"remote", "local"}, n \in Int64 :
             t[s] # None /\ u = [t EXCEPT ![s].port = n]
      BY <1>2
    <2>2. [t[s] EXCEPT !.port = n] \in Side
      BY <2>1 DEF Table, Side, Optional
    <2> QED
      BY <2>1, <2>2 DEF Table, Optional
  <1> QED
    BY <1>1, <1>2 DEF Lengthened

-----------------------------------------------------------------------------
LEMMA InitIInv == Init => IInv
  BY ConfigAssumption DEF Init, IInv, TypeOK, Places, Optional, BeforeNet,
     AfterRemote

LEMMA StepIInv == IInv /\ [Next]_vars => IInv'
  <1> SUFFICES ASSUME IInv, [Next]_vars PROVE IInv'
    OBVIOUS
  <1> USE DEF IInv, TypeOK, Places, BeforeNet, AfterRemote, settings
  <1>1. CASE Refuse
    BY <1>1 DEF Refuse
  <1>2. CASE ReadFile
    BY <1>2 DEF ReadFile, Optional
  <1>3. CASE ReadPastEnd
    <2>1. table' \in Table
      BY <1>3, LengthenedIsTable DEF ReadPastEnd
    <2> QED
      BY <1>3, <2>1 DEF ReadPastEnd, Optional
  <1>4. CASE ReadNet
    <2>1. table \in Table
      BY <1>4 DEF ReadNet
    <2>2. \A k \in PolicyKeys : connection'[k] \in 0 .. Width[k] - 1
      BY <1>4, <2>1, PolicyFits DEF ReadNet
    <2>3. connection'["max_retries"] > 0
      BY <1>4, <2>2, ConfigAssumption DEF ReadNet
    <2> QED
      BY <1>4, <2>1, <2>2, <2>3 DEF ReadNet
  <1>5. CASE ReadRemote
    BY <1>5 DEF ReadRemote, Table, Optional
  <1>6. CASE ResolveRemote
    <2>1. remote_ip' \in Addresses
      BY <1>6, ConfigAssumption DEF ResolveRemote, Lookup
    <2> QED
      BY <1>6, <2>1 DEF ResolveRemote, Optional
  <1>7. CASE ReadRemotePort
    <2>1. table.remote.port \in Optional(Int64)
      BY <1>7 DEF ReadRemotePort, Side
    <2>2. remote_port' = table.remote.port /\ remote_port' \in Ports
      BY <1>7, <2>1, PortKept DEF ReadRemotePort
    <2> QED
      BY <1>7, <2>2 DEF ReadRemotePort, Optional
  <1>8. CASE NoLocal
    BY <1>8 DEF NoLocal
  <1>9. CASE ResolveLocal
    <2>1. local_ip' \in Addresses
      BY <1>9, ConfigAssumption DEF ResolveLocal, Lookup
    <2>2. table.local \in Side
      BY <1>9 DEF ResolveLocal, Table, Optional
    <2> QED
      BY <1>9, <2>1, <2>2 DEF ResolveLocal
  <1>10. CASE ReadLocalPort
    <2>1. table.local.port \in Optional(Int64)
      BY <1>10 DEF ReadLocalPort, Side
    <2>2. local_port' = table.local.port /\ local_port' \in Ports
      BY <1>10, <2>1, PortKept DEF ReadLocalPort
    <2> QED
      BY <1>10, <2>2 DEF ReadLocalPort
  <1>11. CASE UNCHANGED vars
    BY <1>11 DEF vars
  <1> HIDE DEF IInv
  <1> QED
    BY <1>1, <1>2, <1>3, <1>4, <1>5, <1>6, <1>7, <1>8, <1>9, <1>10, <1>11
       DEF Next, Unreadable, NoRetries, NoRemote, BadRemoteIp, BadRemotePort,
           BadLocalIp, BadLocalPort

LEMMA Invariant == Spec => []IInv
  BY InitIInv, StepIInv, PTL DEF Spec

-----------------------------------------------------------------------------
\* The fields of Config and ConnectionPolicy keep their widths, and what is
\* not a port never becomes one.
THEOREM TypeCorrect == Spec => []TypeOK
  <1>1. IInv => TypeOK
    BY DEF IInv
  <1> QED
    BY Invariant, <1>1, PTL

\* Whatever the file says, Client's constructor has at least one attempt: the
\* comparison with 0 comes after the narrowing.
THEOREM AtLeastOneAttempt == Spec => []SomeAttempt
  <1>1. IInv => SomeAttempt
    BY DEF IInv, Places, SomeAttempt, BeforeNet
  <1> QED
    BY Invariant, <1>1, PTL

\* The ports that Rtp binds and sends to are those of the text.
THEOREM PortsKept == Spec => []PortsAsWritten
  <1>1. IInv => PortsAsWritten
    BY DEF IInv, Places, PortsAsWritten, AfterRemote
  <1> QED
    BY Invariant, <1>1, PTL

-----------------------------------------------------------------------------
(* The validations accept what the documents call complete, but for the two *)
(* departures.                                                              *)

\* A max_retries that fits its field is kept, so that 0 after the conversion is
\* 0 in the file.
LEMMA NetJudged ==
  ASSUME NEW t \in Table, ~Wrapped(t)
  PROVE  RetriesComplete(t.net) <=> NetPolicy(t.net)["max_retries"] # 0
  <1> DEFINE x == t.net["max_retries"]
             w == Width["max_retries"]
  <1>1. w \in Nat \ {0} /\ "max_retries" \in PolicyKeys
    BY ConfigAssumption
  <1>2. CASE x = None
    BY <1>1, <1>2, ConfigAssumption DEF NetPolicy, RetriesComplete
  <1>3. CASE x # None
    <2>1. x \in 0 .. w - 1
      BY <1>3 DEF Wrapped
    <2>2. NetPolicy(t.net)["max_retries"] = x % w
      BY <1>1, <1>3 DEF NetPolicy, Narrowed
    <2>3. x % w = x
      BY <1>1, <2>1
    <2> QED
      BY <1>1, <1>3, <2>1, <2>2, <2>3 DEF RetriesComplete
  <1> QED
    BY <1>2, <1>3

\* The range check of the code is membership in the ports.
LEMMA PortJudged ==
  ASSUME NEW p \in Optional(Int64)
  PROVE  ValidPort(p) <=> p \in Ports
  <1>1. Width["port"] \in Nat \ {0} /\ LowPort \in Nat /\ None \notin Int
    BY ConfigAssumption
  <1>2. CASE p = None
    BY <1>1, <1>2 DEF ValidPort, Ports
  <1>3. CASE p # None
    <2>1. p \in Int
      BY <1>3, ConfigAssumption DEF Optional
    <2> QED
      BY <1>1, <1>3, <2>1 DEF ValidPort, Ports
  <1> QED
    BY <1>2, <1>3

AfterNet == {"remote", "remote_ip", "remote_port"} \union AfterRemote

\* What has been judged at each place.
Judged ==
  /\ at = "read" => table = None
  /\ at \in AfterNet => Wrapped(table) \/ RetriesComplete(table.net)
  /\ at \in AfterNet \ {"remote"} => table.remote # None
  /\ at = "remote_port" => Lookup(table.remote.ip) # {}
  /\ at \in AfterRemote => RemoteComplete(table.remote)
  /\ at = "local_port" => table.local # None /\ Lookup(LocalHost) # {}
  /\ VerdictAsDocumented

LEMMA JudgedStep == IInv /\ Judged /\ [Next]_vars => Judged'
  <1> SUFFICES ASSUME IInv, Judged, [Next]_vars PROVE Judged'
    OBVIOUS
  <1> USE DEF Judged, VerdictAsDocumented, AfterNet, AfterRemote
  <1>1. CASE ReadFile \/ ReadPastEnd \/ Unreadable
    BY <1>1 DEF ReadFile, ReadPastEnd, Unreadable, Refuse
  <1>2. CASE ReadNet \/ NoRetries
    <2>1. table \in Table
      BY <1>2 DEF ReadNet, NoRetries, IInv, Places
    <2>2. \/ Wrapped(table)
          \/ RetriesComplete(table.net)
               <=> NetPolicy(table.net)["max_retries"] # 0
      BY <2>1, NetJudged
    <2>3. CASE ReadNet
      BY <2>2, <2>3 DEF ReadNet
    <2>4. CASE NoRetries
      BY <2>2, <2>4 DEF NoRetries, Refuse
    <2> QED
      BY <1>2, <2>3, <2>4
  <1>3. CASE ReadRemote \/ NoRemote
    BY <1>3 DEF ReadRemote, NoRemote, Refuse, RemoteComplete
  <1>4. CASE ResolveRemote \/ BadRemoteIp
    BY <1>4 DEF ResolveRemote, BadRemoteIp, Refuse, RemoteComplete
  <1>5. CASE ReadRemotePort \/ BadRemotePort
    <2>1. at = "remote_port" /\ table.remote.port \in Optional(Int64)
      BY <1>5 DEF ReadRemotePort, BadRemotePort, IInv, Places, Side
    <2>2. ValidPort(table.remote.port) <=> table.remote.port \in Ports
      BY <2>1, PortJudged
    <2>3. CASE ReadRemotePort
      BY <2>1, <2>2, <2>3 DEF ReadRemotePort, RemoteComplete
    <2>4. CASE BadRemotePort
      BY <2>2, <2>4 DEF BadRemotePort, Refuse, RemoteComplete
    <2> QED
      BY <1>5, <2>3, <2>4
  <1>6. CASE NoLocal
    BY <1>6 DEF NoLocal, settings, LocalComplete
  <1>7. CASE ResolveLocal
    BY <1>7 DEF ResolveLocal, LocalHost
  <1>8. CASE BadLocalIp
    BY <1>8 DEF BadLocalIp, Refuse, LocalHost, LocalComplete
  <1>9. CASE ReadLocalPort \/ BadLocalPort
    <2>1. at = "local_port" /\ table.local.port \in Optional(Int64)
      BY <1>9 DEF ReadLocalPort, BadLocalPort, IInv, Places, Side
    <2>2. ValidPort(table.local.port) <=> table.local.port \in Ports
      BY <2>1, PortJudged
    <2>3. CASE ReadLocalPort
      <3>1. LocalComplete(table.local)
        BY <2>1, <2>2, <2>3 DEF ReadLocalPort, LocalComplete, LocalHost
      <3> QED
        BY <2>1, <2>3, <3>1 DEF ReadLocalPort
    <2>4. CASE BadLocalPort
      BY <2>1, <2>2, <2>4 DEF BadLocalPort, Refuse, LocalComplete, Portless
    <2> QED
      BY <1>9, <2>3, <2>4
  <1>10. CASE UNCHANGED vars
    BY <1>10 DEF vars, LocalHost
  <1> QED
    BY <1>1, <1>2, <1>3, <1>4, <1>5, <1>6, <1>7, <1>8, <1>9, <1>10 DEF Next

\* Whatever the file holds and whatever the widths are, the chain of checks,
\* conversions and early returns accepts what the documents call complete and
\* refuses all else, for what the parser made of the file and but for a local
\* table without a port and a max_retries that does not fit its field.
THEOREM DocumentedVerdicts == Spec => []VerdictAsDocumented
  <1>1. Init => Judged
    BY DEF Init, Judged, VerdictAsDocumented, AfterNet, AfterRemote
  <1>2. Judged => VerdictAsDocumented
    BY DEF Judged
  <1> QED
    BY Invariant, <1>1, <1>2, JudgedStep, PTL DEF Spec

=============================================================================
