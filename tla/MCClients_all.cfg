SPECIFICATION FairSpec
CONSTANTS
  Unit <- Alphabet
  Conns = {"a", "b", "c"}
  Unsteady = {"b"}
  Fds = {1, 2, 3}
  Scripts <- Streams
  Inline = {"get", "sync", "monitor", "quit"}
  BulkLength <- Lengths
  MaxBulk = 2
  Writes = {"set"}
  MaxClients = 2
  MaxInline = 3
  GlueMax = 6
  Room = 2
  MaxSent = 8
  LowWater = 2
  DumpSize = 2
  IoBuf = 2
CONSTRAINT StopAtStale
INVARIANTS TypeOK CutsDoNotMatter RepliesInOrder EventsHaveClients BitsAreCurrent
PROPERTIES Served
