CONSTANTS
  Threads = {t1, t2}
  Hosts = {n1, n2}
  Octets = {1, 200}
  Length = 2
  SignedChar = TRUE
  Nobody = Nobody
  Scratch = Scratch
SPECIFICATION ResolverSpec
INVARIANT RightUnlessDisturbed
