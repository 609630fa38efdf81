CONSTANTS
  None = None
  v4 = v4
  v6 = v6
  Int64 <- MCInt64
  PolicyKeys <- MCPolicyKeys
  Width <- MCWidth
  DefaultPolicy <- MCDefaultPolicy
  LowPort = 2
  DefaultPort = 3
  Addresses = {v4, v6}
  Resolves <- MCResolves
  DEFAULT_LOCAL_IP = "localhost"
  Files <- MCFiles
SPECIFICATION Spec
\* a Config is made once
CHECK_DEADLOCK FALSE
INVARIANTS TypeOK SomeAttempt PortsAsWritten VerdictAsDocumented
