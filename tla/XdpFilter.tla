----------------------------- MODULE XdpFilter -----------------------------
(***************************************************************************)
(* The XDP program (bpf/xdp_prog_bpf.c) on one packet after the other,     *)
(* while the control thread loads it, changes its two maps and takes it    *)
(* off again (xdp_loader.hpp).  The program walks over at most two VLAN    *)
(* tags and redirects IPv4 packets from the filtered source; each of its   *)
(* reads of the packet and of the maps is a step, so that the maps may     *)
(* change between them.                                                    *)
(***************************************************************************)
EXTENDS Naturals

CONSTANTS
  Sources,   \* source addresses; the kernel's initial map value is NoAddress
  NoAddress,
  Lengths    \* packet lengths, data_end - data

ASSUME FilterAssumption == NoAddress \in Sources /\ Lengths \subseteq Nat

EthHdr == 14
VlanHdr == 4
IpHdr == 20
VLAN_MAX_DEPTH == 2

EtherTypes == {"ip", "vlan", "other"}

\* etype[k] is the type field behind k VLAN tags; mine: it arrives on the
\* queue of the socket.
Packets == [len : Lengths, etype : [0..VLAN_MAX_DEPTH -> EtherTypes], saddr : Sources,
            mine : BOOLEAN]

VARIABLES
  packet, ppc,               \* the packet, and where the program is
  cursor, h_proto, depth,    \* its local variables
  verdict,                   \* of the last packet
  loader,                    \* where the control thread is
  attached, entry, target,   \* the program on the interface, xsks_map[queue], target_ip_map[0]
  configured,                \* history: the addresses given to the loader so far
  touched,                   \* history: bytes of the packet read, from its start
  targets, entries           \* history: values of target and entry while the packet was processed

program == <<packet, ppc, cursor, h_proto, depth, verdict, touched>>
control == <<loader, configured>>
maps    == <<attached, entry, target>>
seen    == <<targets, entries>>
vars    == <<program, control, maps, seen>>

NoPacket == [len |-> 0, etype |-> [k \in 0..VLAN_MAX_DEPTH |-> "other"],
             saddr |-> NoAddress, mine |-> FALSE]

Init ==
  /\ packet = NoPacket /\ ppc = "idle"
  /\ cursor = 0 /\ h_proto = "other" /\ depth = 0 /\ verdict = "PASS"
  /\ loader = "map_update" /\ configured = {}
  /\ attached = FALSE /\ entry = FALSE /\ target = NoAddress
  /\ touched = 0 /\ targets = {} /\ entries = {}

-----------------------------------------------------------------------------
(***************************************************************************)
(* xdp_filter_ip.                                                          *)
(***************************************************************************)
\* The program returns; nothing of it is left for the next packet.
Return(v) ==
  /\ ppc' = "idle" /\ verdict' = v
  /\ packet' = NoPacket /\ cursor' = 0 /\ h_proto' = "other" /\ depth' = 0
  /\ touched' = 0 /\ targets' = {} /\ entries' = {}

\* The packets the NIC hands to the program.
Arrive(p) ==
  /\ ppc = "idle" /\ attached
  /\ packet' = p
  /\ ppc' = "eth"
  /\ targets' = {target} /\ entries' = {entry}
  /\ UNCHANGED <<cursor, h_proto, depth, verdict, touched, control, maps>>

\* A header of the given size at the cursor, read only if it is there; k tags
\* lie before the type field that is found in it.
Header(size, k) ==
  IF cursor + size > packet.len
  THEN Return("PASS")
  ELSE /\ cursor' = cursor + size
       /\ touched' = cursor + size
       /\ h_proto' = packet.etype[k]
       /\ depth' = k
       /\ ppc' = "vlan"
       /\ UNCHANGED <<packet, verdict, seen>>

ParseEth == ppc = "eth" /\ Header(EthHdr, 0) /\ UNCHANGED <<control, maps>>

\* Faulty form: only one tag is stepped over.
VlanLoopEndsEarly == depth = VLAN_MAX_DEPTH - 1 \/ h_proto # "vlan"

VlanLoopEnds == depth = VLAN_MAX_DEPTH \/ h_proto # "vlan"

ParseVlan ==
  /\ ppc = "vlan"
  /\ ~VlanLoopEnds
  /\ Header(VlanHdr, depth + 1)
  /\ UNCHANGED <<control, maps>>

\* Faulty form: the IP header is read without looking at data_end.
ParseIpUnchecked ==
  /\ ppc = "vlan"
  /\ VlanLoopEnds
  /\ IF h_proto # "ip" THEN Return("PASS")
     ELSE /\ ppc' = "lookup" /\ touched' = cursor + IpHdr
          /\ UNCHANGED <<packet, cursor, h_proto, depth, verdict, seen>>
  /\ UNCHANGED <<control, maps>>

\* Only IPv4, and only with a whole header; the cursor stays on it.
ParseIp ==
  /\ ppc = "vlan"
  /\ VlanLoopEnds
  /\ IF h_proto # "ip" \/ cursor + IpHdr > packet.len THEN Return("PASS")
     ELSE /\ ppc' = "lookup" /\ touched' = cursor + IpHdr
          /\ UNCHANGED <<packet, cursor, h_proto, depth, verdict, seen>>
  /\ UNCHANGED <<control, maps>>

\* The array map always has its element: the lookup cannot fail.
Compare ==
  /\ ppc = "lookup"
  /\ IF packet.saddr # target THEN Return("PASS")
     ELSE ppc' = "redirect" /\ UNCHANGED <<packet, cursor, h_proto, depth, verdict, touched, seen>>
  /\ UNCHANGED <<control, maps>>

\* bpf_redirect_map: XDP_PASS without an entry for the packet's queue.
Redirect ==
  /\ ppc = "redirect"
  /\ Return(IF entry /\ packet.mine THEN "REDIRECT" ELSE "PASS")
  /\ UNCHANGED <<control, maps>>

Program == ParseEth \/ ParseVlan \/ ParseIp \/ Compare \/ Redirect

-----------------------------------------------------------------------------
(***************************************************************************)
(* The control thread.                                                     *)
(***************************************************************************)
Goto(here, there) == loader = here /\ loader' = there

\* What a packet under way may meet.
Observe ==
  IF ppc = "idle" THEN UNCHANGED seen
  ELSE targets' = targets \cup {target'} /\ entries' = entries \cup {entry'}

\* An address, parsed by parse_ipv4: any dotted quad, 0.0.0.0 too.
Configure(ip) == target' = ip /\ configured' = configured \cup {ip}

UpdateXsksMap ==
  /\ Goto("map_update", "set_ip")
  /\ entry' = TRUE
  /\ UNCHANGED <<program, configured, attached, target>>
  /\ Observe

\* Faulty form: the program is attached before the filter address is set.
SetTargetIpLate(ip) ==
  /\ Goto("set_ip", "attach")
  /\ UNCHANGED <<program, configured, maps>>
  /\ Observe

SetTargetIp(ip) ==
  /\ Goto("set_ip", "attach")
  /\ Configure(ip)
  /\ UNCHANGED <<program, attached, entry>>
  /\ Observe

\* While the program is on the interface; nothing in main calls it.
UpdateFilterIp(ip) ==
  /\ loader = "up"
  /\ Configure(ip)
  /\ UNCHANGED <<program, loader, attached, entry>>
  /\ Observe

Attach ==
  /\ Goto("attach", "up")
  /\ attached' = TRUE
  /\ UNCHANGED <<program, configured, entry, target, seen>>

\* At the end of the run, or when the rest of create fails.  The kernel may
\* refuse either call; the thread goes on.
StopRedirect ==
  /\ loader \in {"set_ip", "attach", "up"}
  /\ loader' = "stopped"
  /\ entry' \in {FALSE, entry}
  /\ UNCHANGED <<program, configured, attached, target>>
  /\ Observe

Detach ==
  /\ Goto("stopped", "detached")
  /\ attached' \in {FALSE, attached}
  /\ UNCHANGED <<program, configured, entry, target, seen>>

Loader ==
  \/ UpdateXsksMap \/ Attach \/ StopRedirect \/ Detach
  \/ \E ip \in Sources : SetTargetIp(ip) \/ UpdateFilterIp(ip)

Next == Program \/ Loader \/ \E p \in Packets : Arrive(p)

Spec == Init /\ [][Next]_vars

-----------------------------------------------------------------------------
(***************************************************************************)
(* Properties.                                                             *)
(***************************************************************************)
\* No byte behind data_end is ever read, for every nesting of VLAN tags.
ReadsWithinPacket == ppc # "idle" => touched <= packet.len

\* The packets the filter is for: IPv4 behind zero, one or two VLAN tags, with
\* a complete header, on the socket's queue.
Filtered(p) ==
  /\ p.mine
  /\ \E d \in 0..VLAN_MAX_DEPTH :
       /\ \A k \in 0..d-1 : p.etype[k] = "vlan"
       /\ p.etype[d] = "ip"
       /\ EthHdr + d * VlanHdr + IpHdr <= p.len

\* A redirected packet is one the filter is for, from a source that was the
\* target while it was processed, when there was an entry for its queue; a
\* packet that is passed had some reason to be.
VerdictIsRight ==
  [][ppc # "idle" /\ ppc' = "idle" =>
       IF verdict' = "REDIRECT"
       THEN Filtered(packet) /\ packet.saddr \in targets /\ TRUE \in entries
       ELSE ~Filtered(packet) \/ targets # {packet.saddr} \/ entries # {TRUE}]_vars

\* Only packets from an address given with -f or to update_filter_ip are
\* redirected.  The zero address the kernel initialises target_ip_map with is
\* none of them until somebody configures 0.0.0.0: the program is attached
\* after the address is set ("-f  Source IP to filter (required)", main.cpp:239).
OnlyConfiguredSources ==
  [][ppc # "idle" /\ ppc' = "idle" /\ verdict' = "REDIRECT" => packet.saddr \in configured]_vars
=============================================================================
