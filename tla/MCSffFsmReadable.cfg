\* No service and no attributes: only the poll of the INIT state reads the
\* stream.
CONSTANTS
  Services = {FALSE}
  Netifs = {}
  Hostifs = {}
  FileSize = 6
  BufferSize = 6
  Addresses = {}
SPECIFICATION FairSpec
PROPERTIES ReadableLeavesInit
CHECK_DEADLOCK FALSE
