-------------------------- MODULE ReflectorProofs --------------------------
(***************************************************************************)
(* What reflect_swap does to a frame of any length, with any header fields *)
(* and any endpoints.                                                      *)
(***************************************************************************)
EXTENDS Reflector, TLAPS

\* The byte 0x45 is version 4 with five words of header.
LEMMA FirstByte ==
  ASSUME NEW v \in {4, 6}, NEW l \in {5, 6}
  PROVE  16 * v + l = 69 <=> v = 4 /\ l = 5
OBVIOUS

\* The types of the fields of a frame.
LEMMA FrameFields ==
  ASSUME NEW f \in Frames
  PROVE  /\ f.size \in Nat /\ f.ip_length \in Nat /\ f.udp_length \in Nat
         /\ f.version \in {4, 6} /\ f.ihl \in {5, 6}
         /\ f.frag \subseteq 0..15 /\ f.end \in [Endpoints -> Nat]
<1>1. /\ f.size \in Sizes /\ f.ip_length \in IpLengths /\ f.udp_length \in UdpLengths
      /\ f.version \in {4, 6} /\ f.ihl \in {5, 6}
      /\ f.frag \in Fragments /\ f.end \in Ends
  BY DEF Frames
<1>2. /\ Sizes \subseteq Nat /\ IpLengths \subseteq Nat /\ UdpLengths \subseteq Nat
      /\ Fragments \subseteq SUBSET (0..15) /\ Ends \subseteq [Endpoints -> Nat]
  BY ReflectorAssumption
<1> QED
  BY <1>1, <1>2, Zenon

\* The checks of reflect_swap accept exactly the frames of the workload.
LEMMA SupportedIsWorkload ==
  ASSUME NEW f \in Frames
  PROVE  Supported(f) <=> InWorkload(f)
<1>1. /\ f.size \in Nat /\ f.ip_length \in Nat /\ f.udp_length \in Nat
      /\ f.version \in {4, 6} /\ f.ihl \in {5, 6}
  BY FrameFields
<1>2. f.frag \subseteq 0..15
  BY FrameFields
<1>3. VersionByte(f) = 69 <=> f.version = 4 /\ f.ihl = 5
  BY <1>1, FirstByte, ZenonT(40) DEF VersionByte
<1>4. f.frag \cap FragmentMask = {} <=>
        reserved \notin f.frag /\ MF \notin f.frag /\ \A b \in 0..12 : b \notin f.frag
  BY <1>2 DEF FragmentMask, reserved, MF
<1>5. /\ SizeAllowed(f.size) /\ f.ip_length >= 28 /\ f.ip_length <= f.size - 14
      /\ f.udp_length = f.ip_length - 20
      <=> /\ f.udp_length >= 8 /\ f.ip_length = 20 + f.udp_length
          /\ 14 + f.ip_length <= f.size /\ f.size <= 1514
  BY <1>1 DEF SizeAllowed, ethernet, ipv4, udp_header, REFLECTOR_IPV4_MTU
<1>6. ipv4 + udp_header = 28 /\ ethernet + REFLECTOR_IPV4_MTU = 1514 /\ ethernet = 14
      /\ ipv4 = 20 /\ udp_header = 8
  BY DEF ethernet, ipv4, udp_header, REFLECTOR_IPV4_MTU
<1>7. Supported(f) <=>
        /\ f.type = "ip" /\ f.version = 4 /\ f.ihl = 5 /\ f.protocol = "udp"
        /\ reserved \notin f.frag /\ MF \notin f.frag /\ \A b \in 0..12 : b \notin f.frag
        /\ SizeAllowed(f.size) /\ f.ip_length >= 28 /\ f.ip_length <= f.size - 14
        /\ f.udp_length = f.ip_length - 20
  BY <1>3, <1>4, <1>6 DEF Supported
<1> QED
  BY <1>5, <1>6, <1>7 DEF InWorkload

\* A reflection never changes what the checks look at.
LEMMA ReflectionKeepsHeaders ==
  ASSUME NEW f, NEW e
  PROVE  Supported([f EXCEPT !.end = e]) <=> Supported(f)
BY DEF Supported, VersionByte

\* The three swaps exchange the endpoints, and exchange them back.
LEMMA SwapsCross ==
  ASSUME NEW e \in [Endpoints -> Nat]
  PROVE  SwapEndpoints(e) = Crossed(e) /\ Crossed(Crossed(e)) = e
         /\ Crossed(e) \in [Endpoints -> Nat]
<1>1. Crossed(e) \in [Endpoints -> Nat]
  BY DEF Crossed, Endpoints
<1>2. Crossed(Crossed(e)) = e
  BY DEF Crossed, Endpoints
<1>3. SwapEndpoints(e) = Crossed(e)
  <2> DEFINE e1 == Swap(e, "dst_mac", "src_mac")
             e2 == Swap(e1, "saddr", "daddr")
             e3 == Swap(e2, "source", "dest")
  <2>1. /\ e1 \in [Endpoints -> Nat]
        /\ \A x \in Endpoints : e1[x] = IF x = "dst_mac" THEN e["src_mac"]
                                    ELSE IF x = "src_mac" THEN e["dst_mac"] ELSE e[x]
    BY DEF Swap, Copy, Endpoints
  <2> HIDE DEF e1
  <2>2. /\ e2 \in [Endpoints -> Nat]
        /\ \A x \in Endpoints : e2[x] = IF x = "saddr" THEN e1["daddr"]
                                    ELSE IF x = "daddr" THEN e1["saddr"] ELSE e1[x]
    BY <2>1 DEF Swap, Copy, Endpoints
  <2> HIDE DEF e2
  <2>3. /\ e3 \in [Endpoints -> Nat]
        /\ \A x \in Endpoints : e3[x] = IF x = "source" THEN e2["dest"]
                                    ELSE IF x = "dest" THEN e2["source"] ELSE e2[x]
    BY <2>2 DEF Swap, Copy, Endpoints
  <2> HIDE DEF e3
  <2>4. e3 = Crossed(e)
    <3>1. \A x \in Endpoints : e3[x] = Crossed(e)[x]
      BY <2>1, <2>2, <2>3 DEF Crossed, Endpoints
    <3> QED
      BY <2>3, <3>1, <1>1
  <2> QED
    BY <2>4 DEF SwapEndpoints, e1, e2, e3
<1> QED
  BY <1>1, <1>2, <1>3

-----------------------------------------------------------------------------
\* The inductive invariant: what has become of the frame that arrived.
ReflectorInv == received \in Frames /\ reflections \in 0..2 /\ ReflectsExactlyTheWorkload

\* Reflecting a frame keeps the invariant: the one step that changes a frame.
LEMMA ReflectStep == ReflectorInv /\ Reflect => ReflectorInv'
<1> SUFFICES ASSUME ReflectorInv, Reflect
             PROVE  ReflectorInv'
  OBVIOUS
<1> USE DEF ReflectorInv, Reflect
<1> DEFINE e == received.end
<1>1. e \in [Endpoints -> Nat]
  BY FrameFields
<1>2. received' = received /\ received \in Frames /\ reflections \in 0..1
      /\ reflections' = reflections + 1
  OBVIOUS
<1>3. Supported(received) <=> InWorkload(received)
  BY SupportedIsWorkload
<1>4. CASE ~InWorkload(received)
  <2>1. frame = received
    BY <1>4 DEF ReflectsExactlyTheWorkload
  <2> QED
    BY <1>2, <1>3, <1>4, <2>1 DEF ReflectsExactlyTheWorkload, InWorkload
<1>5. CASE InWorkload(received) /\ reflections = 0
  <2>1. frame = received
    BY <1>5 DEF ReflectsExactlyTheWorkload
  <2>2. frame' = [received EXCEPT !.end = Crossed(e)]
    BY <1>1, <1>3, <1>5, <2>1, SwapsCross
  <2> QED
    BY <1>2, <1>5, <2>2 DEF ReflectsExactlyTheWorkload
<1>6. CASE InWorkload(received) /\ reflections = 1
  <2>1. frame = [received EXCEPT !.end = Crossed(e)]
    BY <1>6 DEF ReflectsExactlyTheWorkload
  <2>2. Supported(frame) /\ frame.end = Crossed(e)
    BY <1>2, <1>3, <1>6, <2>1, ReflectionKeepsHeaders DEF Frames
  <2>3. SwapEndpoints(frame.end) = e
    BY <1>1, <2>2, SwapsCross
  <2>4. frame' = [frame EXCEPT !.end = e]
    BY <2>2, <2>3
  <2>5. frame' = received
    BY Zenon, <1>2, <2>1, <2>4 DEF Frames
  <2> QED
    BY <1>2, <1>6, <2>5 DEF ReflectsExactlyTheWorkload
<1> QED
  BY <1>2, <1>4, <1>5, <1>6

\* The invariant holds of every frame that arrives and of what is sent back.
LEMMA ReflectorInvariant == Spec => []ReflectorInv
<1>1. Init => ReflectorInv
  BY DEF Init, ReflectorInv, ReflectsExactlyTheWorkload
<1>2. ReflectorInv /\ [Next]_vars => ReflectorInv'
  <2> SUFFICES ASSUME ReflectorInv, [Next]_vars
               PROVE  ReflectorInv'
    OBVIOUS
  <2>1. CASE Reflect
    BY <2>1, ReflectStep
  <2>2. CASE UNCHANGED vars
    BY <2>2 DEF vars, ReflectorInv, ReflectsExactlyTheWorkload
  <2> QED
    BY <2>1, <2>2 DEF Next
<1> QED
  BY <1>1, <1>2, PTL DEF Spec

\* reflect_swap turns exactly the frames of the workload round, leaves all
\* others alone, and undoes its own work: for every length, every header and
\* every endpoint.
THEOREM ReflectorCorrect == Spec => []ReflectsExactlyTheWorkload
<1>1. ReflectorInv => ReflectsExactlyTheWorkload
  BY DEF ReflectorInv
<1> QED
  BY <1>1, ReflectorInvariant, PTL

\* The checksums of a reflected frame stay valid (bench.hpp:177), whatever its
\* addresses and ports.
THEOREM ReflectorKeepsChecksums == Spec => []ChecksumsStayValid
<1>1. ReflectorInv => ChecksumsStayValid
  <2> SUFFICES ASSUME ReflectorInv
               PROVE  ChecksumsStayValid
    OBVIOUS
  <2>1. CASE frame = received
    <3>1. [received EXCEPT !.end = received.end] = received
      BY DEF ReflectorInv, Frames
    <3> QED
      BY <2>1, <3>1 DEF ChecksumsStayValid
  <2>2. CASE frame = [received EXCEPT !.end = Crossed(received.end)]
    <3> DEFINE e == received.end
               c == frame.end
    <3>1. e \in [Endpoints -> Nat]
      BY FrameFields DEF ReflectorInv
    <3>2. c = Crossed(e)
      BY <2>2 DEF ReflectorInv, Frames
    <3>3. /\ c["saddr"] + c["daddr"] = e["saddr"] + e["daddr"]
          /\ c["saddr"] + c["daddr"] + c["source"] + c["dest"]
               = e["saddr"] + e["daddr"] + e["source"] + e["dest"]
      BY <3>1, <3>2 DEF Crossed, Endpoints
    <3>4. [frame EXCEPT !.end = e] = received
      BY Zenon, <2>2 DEF ReflectorInv, Frames
    <3> QED
      BY <3>3, <3>4 DEF ChecksumsStayValid
  <2> QED
    BY <2>1, <2>2 DEF ReflectorInv, ReflectsExactlyTheWorkload
<1> QED
  BY <1>1, ReflectorInvariant, PTL

\* A supported frame passes send_in_place's length check and fits its chunk,
\* for every FRAME_SIZE and headroom the static_assert admits.
THEOREM ReflectorFramesFit == Spec => []SupportedFramesFit
<1>1. ReflectorInv => SupportedFramesFit
  <2> SUFFICES ASSUME ReflectorInv, SizeAllowed(frame.size)
               PROVE  LengthAccepted(frame.size) /\ Headroom + frame.size <= FrameSize
    BY DEF SupportedFramesFit, Supported
  <2>1. frame.size \in Nat
    BY ReflectorAssumption DEF ReflectorInv, ReflectsExactlyTheWorkload, Frames
  <2> QED
    BY <2>1, ReflectorAssumption
    DEF SizeAllowed, LengthAccepted, ethernet, ipv4, udp_header, REFLECTOR_IPV4_MTU
<1> QED
  BY <1>1, ReflectorInvariant, PTL
=============================================================================
