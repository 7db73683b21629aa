------------------------------ MODULE Reflector ------------------------------
(***************************************************************************)
(* reflect_swap (bench.hpp), the in-place transformation the callback      *)
(* applies to a received frame, and the round trip of a frame that is      *)
(* reflected here and again by its peer.  A frame is its length, the       *)
(* header fields the code looks at, and the six endpoint fields it swaps.  *)
(***************************************************************************)
EXTENDS Naturals

CONSTANTS
  Sizes, IpLengths, UdpLengths,  \* frame length; length fields of the IP and UDP headers
  Fragments,                     \* flags and fragment offset of the IP header: the bits that are set
  Ends,                          \* endpoint fields
  FrameSize, Headroom            \* FRAME_SIZE; XDP_PACKET_HEADROOM + UMEM_HEADROOM

Endpoints == {"dst_mac", "src_mac", "saddr", "daddr", "source", "dest"}

\* The last one is a static_assert of main.cpp.
ASSUME ReflectorAssumption ==
  /\ Sizes \subseteq Nat /\ IpLengths \subseteq Nat /\ UdpLengths \subseteq Nat
  /\ Fragments \subseteq SUBSET (0..15)
  /\ Ends \subseteq [Endpoints -> Nat]
  /\ FrameSize \in Nat /\ Headroom \in Nat /\ Headroom + 14 + 1500 <= FrameSize

\* type: the EtherType; version and ihl: the first byte of the IP header.
Frames ==
  [size : Sizes, type : {"ip", "other"}, version : {4, 6}, ihl : {5, 6}, ip_length : IpLengths,
   frag : Fragments, protocol : {"udp", "other"}, udp_length : UdpLengths, end : Ends]

VARIABLES frame, received, reflections   \* the frame, as it arrived, times it was reflected
vars == <<frame, received, reflections>>

Init == frame \in Frames /\ received = frame /\ reflections = 0

-----------------------------------------------------------------------------
ethernet == 14
ipv4 == 20
udp_header == 8
REFLECTOR_IPV4_MTU == 1500

VersionByte(f) == 16 * f.version + f.ihl

\* Faulty form: 0x9fff, more fragments may follow.
FragmentMaskWithoutMf == (0..12) \cup {15}

\* 0xbfff, "Only DF is permitted" (bench.hpp:156).
FragmentMask == (0..13) \cup {15}

\* Faulty form: the frame may be larger than the MTU.
SizeAllowedUnbounded(size) == size >= ethernet + ipv4 + udp_header

SizeAllowed(size) == size >= ethernet + ipv4 + udp_header /\ size <= ethernet + REFLECTOR_IPV4_MTU

\* The checks, in their order: each subtraction comes after the check that
\* keeps it from wrapping around.
Supported(f) ==
  /\ SizeAllowed(f.size)
  /\ f.type = "ip" /\ VersionByte(f) = 69 /\ f.protocol = "udp"
  /\ f.frag \cap FragmentMask = {}
  /\ f.ip_length >= ipv4 + udp_header
  /\ f.ip_length <= f.size - ethernet
  /\ f.udp_length = f.ip_length - ipv4

\* memcpy of one field over another.
Copy(e, to, from) == [e EXCEPT ![to] = e[from]]

\* Faulty form: without the temporary.
SwapInPlace(e, a, b) == Copy(Copy(e, a, b), b, a)

Swap(e, a, b) == [Copy(e, a, b) EXCEPT ![b] = e[a]]

SwapEndpoints(e) ==
  Swap(Swap(Swap(e, "dst_mac", "src_mac"), "saddr", "daddr"), "source", "dest")

Reflect ==
  /\ reflections < 2
  /\ reflections' = reflections + 1
  /\ frame' = IF Supported(frame) THEN [frame EXCEPT !.end = SwapEndpoints(frame.end)] ELSE frame
  /\ UNCHANGED received

\* send_in_place accepts the length.
LengthAccepted(length) == length # 0 /\ length <= FrameSize

Next == Reflect \/ (reflections = 2 /\ UNCHANGED vars)

Spec == Init /\ [][Next]_vars

-----------------------------------------------------------------------------
(***************************************************************************)
(* Properties.                                                             *)
(***************************************************************************)
reserved == 15
MF == 13

\* A frame of the workload run_metadata.txt names:
\* "unicast_untagged_ipv4_ihl5_unfragmented_udp_reflection" (main.cpp:131),
\* whole: the datagram ends within the frame and fills the IP packet.
InWorkload(f) ==
  /\ f.type = "ip" /\ f.version = 4 /\ f.ihl = 5 /\ f.protocol = "udp"
  /\ reserved \notin f.frag /\ MF \notin f.frag /\ \A b \in 0..12 : b \notin f.frag
  /\ f.udp_length >= udp_header /\ f.ip_length = ipv4 + f.udp_length
  /\ ethernet + f.ip_length <= f.size
  /\ f.size <= ethernet + REFLECTOR_IPV4_MTU

\* Every endpoint field in the place of its counterpart.
Crossed(e) ==
  [dst_mac |-> e["src_mac"], src_mac |-> e["dst_mac"], saddr |-> e["daddr"],
   daddr |-> e["saddr"], source |-> e["dest"], dest |-> e["source"]]

\* Exactly the frames of the workload are turned round; "Unsupported shapes
\* leave all bytes unchanged" (bench.hpp:144); and a frame that is turned round
\* twice is the one that arrived.
ReflectsExactlyTheWorkload ==
  frame = IF reflections = 1 /\ InWorkload(received)
          THEN [received EXCEPT !.end = Crossed(received.end)]
          ELSE received

\* "Endpoint swaps only permute 16-bit checksum addends, including the UDP
\* pseudo-header" (bench.hpp:177): what the IP checksum and what the UDP
\* checksum adds up stays the same, so that neither is computed again.
ChecksumsStayValid ==
  LET ip_sum(e)  == e["saddr"] + e["daddr"]
      udp_sum(e) == e["saddr"] + e["daddr"] + e["source"] + e["dest"]
  IN  /\ [frame EXCEPT !.end = received.end] = received
      /\ ip_sum(frame.end) = ip_sum(received.end)
      /\ udp_sum(frame.end) = udp_sum(received.end)

\* A frame the reflector supports is never refused by send_in_place for its
\* length and lies within its UMEM chunk: the only rejections left are those of
\* a full TX ring.
SupportedFramesFit ==
  Supported(frame) => LengthAccepted(frame.size) /\ Headroom + frame.size <= FrameSize
=============================================================================
