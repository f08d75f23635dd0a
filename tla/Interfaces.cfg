CONSTANTS
  Names = {eth0, eth1, lo}
  LongName = LongName
  Ether = {eth0, eth1}
  MaxListed = 2
  Absent = Absent
  NoAddress = NoAddress
SPECIFICATION Spec
INVARIANT ExceptionsAreHandled
PROPERTIES PrintShowsTheCalm ZeroMeansSet
