CONSTANTS
  Threads = {t1}
  Hosts = {n1}
  Octets = {1, 200}
  Length = 2
  SignedChar = TRUE
  Nobody = Nobody
  Scratch = Scratch
SPECIFICATION ResolverSpec
INVARIANT StandardAddress
