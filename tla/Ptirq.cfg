SPECIFICATION Spec
CONSTRAINT Within
CONSTANTS
  Pcpu <- Cpus
  p1 = p1
  p2 = p2
  VM = {sos, uos}
  SOS = sos
  Msi = {m1, m2, m3}
  Gsi = {g1, g2}
  Sid <- Requester
  IrEntries = 2
  PtEntries = 2
  Reserved = 2
  None = None
  sos = sos
  uos = uos
  m1 = m1
  m2 = m2
  m3 = m3
  g1 = g1
  g2 = g2
  dev = dev
  other = other
  ioapic = ioapic
INVARIANTS IrteOwned Delivered
SYMMETRY SameCpus
