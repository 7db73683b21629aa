SPECIFICATION Spec
CONSTANTS
  Sizes = {0, 14, 41, 42, 43, 60, 1513, 1514, 1515, 2048}
  IpLengths = {0, 19, 20, 27, 28, 29, 46, 1499, 1500, 1501, 65535}
  UdpLengths = {0, 7, 8, 9, 26, 1479, 1480, 1481, 65535}
  Fragments <- MCFragments
  Ends <- MCEnds
  FrameSize = 2048
  Headroom = 258
INVARIANTS
  ReflectsExactlyTheWorkload
  ChecksumsStayValid
  SupportedFramesFit
