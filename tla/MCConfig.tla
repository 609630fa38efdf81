------------------------------ MODULE MCConfig ------------------------------
(***************************************************************************)
(* Config with 2-bit short integers and 3-bit long ones: ports are 2 and   *)
(* 3.  The integers have both neighbours of each bound, values that narrow *)
(* to 0 and to an allowed one, and negative ones.                          *)
(***************************************************************************)
EXTENDS Config

CONSTANTS v4, v6

MCInt64 == {-1, 0, 1, 2, 3, 4, 6, 8}
MCPolicyKeys == {"max_retries", "retry_backoff_ms"}
MCWidth == [max_retries |-> 4, retry_backoff_ms |-> 8, port |-> 4]
MCDefaultPolicy == [max_retries |-> 3, retry_backoff_ms |-> 2]
MCResolves == [localhost |-> {v4, v6}, peer |-> {v4}, nowhere |-> {}]

Good == [ip |-> "peer", port |-> 2]

\* Every [net] with good sides, and every pair of sides without [net].
MCFiles ==
  {[net |-> n, remote |-> Good, local |-> Good] :
      n \in [MCPolicyKeys -> MCInt64 \union {None}]}
  \union
  {[net |-> [k \in MCPolicyKeys |-> None], remote |-> r, local |-> l] :
      r, l \in {None} \union
               [ip : {None} \union DOMAIN MCResolves,
                port : MCInt64 \union {None}]}
=============================================================================
