--------------------------- MODULE XdpFilterProofs ---------------------------
(***************************************************************************)
(* The XDP program for every set of packet lengths and source addresses:   *)
(* it reads no byte behind the packet, and its verdict is right whatever   *)
(* the control thread does to the maps in between.                         *)
(***************************************************************************)
EXTENDS XdpFilter, TLAPS

TypeOK ==
  /\ packet \in Packets \cup {NoPacket}
  /\ ppc \in {"idle", "eth", "vlan", "lookup", "redirect"}
  /\ cursor \in Nat /\ h_proto \in EtherTypes /\ depth \in 0..VLAN_MAX_DEPTH
  /\ verdict \in {"PASS", "REDIRECT"}
  /\ loader \in {"map_update", "set_ip", "attach", "up", "stopped", "detached"}
  /\ attached \in BOOLEAN /\ entry \in BOOLEAN /\ target \in Sources
  /\ touched \in Nat
  /\ targets \subseteq Sources /\ entries \subseteq BOOLEAN

\* The first d type fields announce a VLAN tag.
Tagged(p, d) == \A k \in 0..VLAN_MAX_DEPTH : k < d => p.etype[k] = "vlan"

\* How far the program has walked into the packet: the cursor is behind the
\* Ethernet header and depth tags, all of which the packet has.
Walked ==
  /\ ppc \in {"idle", "eth"} => cursor = 0 /\ touched = 0 /\ depth = 0
  /\ ppc # "idle" => packet \in Packets
  /\ ppc \in {"vlan", "lookup", "redirect"} =>
       /\ cursor = EthHdr + depth * VlanHdr /\ cursor <= packet.len
       /\ h_proto = packet.etype[depth]
       /\ Tagged(packet, depth)
  /\ ppc = "vlan" => touched = cursor
  /\ ppc \in {"lookup", "redirect"} =>
       h_proto = "ip" /\ touched = cursor + IpHdr /\ touched <= packet.len

\* The history variables know what the maps hold, and what Compare found.
Watched ==
  /\ ppc # "idle" => target \in targets /\ entry \in entries
  /\ ppc = "redirect" => packet.saddr \in targets

\* The program meets packets only with a configured address in its map.
TargetConfigured ==
  /\ loader \in {"attach", "up"} \/ attached => target \in configured
  /\ ppc # "idle" => targets \subseteq configured

IInv == TypeOK /\ Walked /\ Watched /\ TargetConfigured

-----------------------------------------------------------------------------
(***************************************************************************)
(* Packets.                                                                *)
(***************************************************************************)

\* The fields of a packet.
LEMMA PacketFields ==
  ASSUME NEW p \in Packets
  PROVE  /\ p.len \in Nat /\ p.saddr \in Sources /\ p.mine \in BOOLEAN
         /\ \A k \in 0..VLAN_MAX_DEPTH : p.etype[k] \in EtherTypes
  BY FilterAssumption DEF Packets

\* The headers add up: 14 bytes, four for every tag.
LEMMA Offsets ==
  ASSUME NEW d \in 0..VLAN_MAX_DEPTH
  PROVE  d \in Nat /\ d * VlanHdr \in Nat /\ d * VlanHdr = 4 * d /\ d <= 2
  BY DEF VLAN_MAX_DEPTH, VlanHdr

\* A packet with IPv4 behind its d tags is filtered if its IP header is whole,
\* and only then.
LEMMA FilteredHere ==
  ASSUME NEW p \in Packets, NEW d \in 0..VLAN_MAX_DEPTH, Tagged(p, d), p.etype[d] = "ip"
  PROVE  Filtered(p) <=> p.mine /\ EthHdr + d * VlanHdr + IpHdr <= p.len
  <1>1. ASSUME p.mine, EthHdr + d * VlanHdr + IpHdr <= p.len
        PROVE  Filtered(p)
    <2>1. \A k \in 0..d-1 : p.etype[k] = "vlan"
      BY Offsets DEF Tagged, VLAN_MAX_DEPTH
    <2>2. QED
      BY <1>1, <2>1 DEF Filtered
  <1>2. ASSUME Filtered(p)
        PROVE  p.mine /\ EthHdr + d * VlanHdr + IpHdr <= p.len
    <2>1. PICK e \in 0..VLAN_MAX_DEPTH :
            /\ \A k \in 0..e-1 : p.etype[k] = "vlan"
            /\ p.etype[e] = "ip"
            /\ EthHdr + e * VlanHdr + IpHdr <= p.len
      BY <1>2 DEF Filtered
    <2>2. e \in Nat /\ d \in Nat
      BY Offsets
    <2>3. ~(e < d)
      BY <2>1 DEF Tagged
    <2>4. ~(d < e)
      <3>1. SUFFICES ASSUME d < e PROVE FALSE
        OBVIOUS
      <3>2. d \in 0..e-1
        BY <2>2, <3>1
      <3>3. QED
        BY <2>1, <3>2
    <2>5. e = d
      BY <2>2, <2>3, <2>4
    <2>6. QED
      BY <1>2, <2>1, <2>5 DEF Filtered
  <1>3. QED
    BY <1>1, <1>2

\* A packet with anything else there is filtered only if that is a tag the
\* program steps over, and the packet goes on behind it.
LEMMA FilteredBeyond ==
  ASSUME NEW p \in Packets, NEW d \in 0..VLAN_MAX_DEPTH, Tagged(p, d), p.etype[d] # "ip",
         Filtered(p)
  PROVE  /\ p.etype[d] = "vlan" /\ d # VLAN_MAX_DEPTH
         /\ EthHdr + d * VlanHdr + VlanHdr <= p.len
  <1>1. PICK e \in 0..VLAN_MAX_DEPTH :
          /\ \A k \in 0..e-1 : p.etype[k] = "vlan"
          /\ p.etype[e] = "ip"
          /\ EthHdr + e * VlanHdr + IpHdr <= p.len
    BY DEF Filtered
  <1>2. /\ e \in Nat /\ e <= 2 /\ e * VlanHdr = 4 * e
        /\ d \in Nat /\ d <= 2 /\ d * VlanHdr = 4 * d
    BY Offsets
  <1>3. ~(e < d)
    BY <1>1 DEF Tagged
  <1>4. d < e
    BY <1>1, <1>2, <1>3
  <1>5. d \in 0..e-1
    BY <1>2, <1>4
  <1>6. p.etype[d] = "vlan"
    BY <1>1, <1>5
  <1>7. d # VLAN_MAX_DEPTH
    BY <1>2, <1>4 DEF VLAN_MAX_DEPTH
  <1>8. EthHdr + d * VlanHdr + VlanHdr <= p.len
    BY <1>1, <1>2, <1>4, PacketFields DEF EthHdr, VlanHdr, IpHdr
  <1>9. QED
    BY <1>6, <1>7, <1>8

\* A filtered packet has an Ethernet header.
LEMMA FilteredIsLong ==
  ASSUME NEW p \in Packets, Filtered(p)
  PROVE  EthHdr <= p.len
  <1>1. PICK e \in 0..VLAN_MAX_DEPTH : EthHdr + e * VlanHdr + IpHdr <= p.len
    BY DEF Filtered
  <1>2. QED
    BY <1>1, Offsets, PacketFields DEF EthHdr, IpHdr

-----------------------------------------------------------------------------
(***************************************************************************)
(* The program's steps.                                                    *)
(***************************************************************************)

\* The parts of the invariant that the program leaves alone.
LEMMA MapsStay ==
  ASSUME IInv, UNCHANGED <<control, maps, seen>>
  PROVE  /\ loader' \in {"map_update", "set_ip", "attach", "up", "stopped", "detached"}
         /\ attached' \in BOOLEAN /\ entry' \in BOOLEAN /\ target' \in Sources
         /\ targets' \subseteq Sources /\ entries' \subseteq BOOLEAN
         /\ loader' \in {"attach", "up"} \/ attached' => target' \in configured'
         /\ configured' = configured
  BY DEF IInv, TypeOK, TargetConfigured, control, maps, seen

\* Whatever the verdict, the program returns to its initial state.
LEMMA ReturnStep ==
  ASSUME IInv, NEW v \in {"PASS", "REDIRECT"}, Return(v), UNCHANGED <<control, maps>>
  PROVE  IInv'
  <1> USE DEF IInv, Return, control, maps
  <1>1. TypeOK'
    BY DEF TypeOK, EtherTypes, VLAN_MAX_DEPTH
  <1>2. Walked'
    BY DEF Walked
  <1>3. Watched' /\ TargetConfigured'
    BY DEF Watched, TargetConfigured
  <1>4. QED
    BY <1>1, <1>2, <1>3

\* A new packet.
LEMMA ArriveStep ==
  ASSUME IInv, NEW p \in Packets, Arrive(p)
  PROVE  IInv'
  <1> USE DEF IInv, Arrive, control, maps
  <1>1. TypeOK'
    BY DEF TypeOK
  <1>2. Walked'
    BY DEF Walked
  <1>3. Watched' /\ TargetConfigured'
    BY DEF Watched, TargetConfigured
  <1>4. QED
    BY <1>1, <1>2, <1>3

\* One header more, and with it the type field behind k tags.
LEMMA HeaderStep ==
  ASSUME IInv, NEW k \in 0..VLAN_MAX_DEPTH, NEW size \in Nat,
         ppc \in {"eth", "vlan"}, Tagged(packet, k),
         cursor + size = EthHdr + k * VlanHdr,
         Header(size, k), UNCHANGED <<control, maps>>
  PROVE  IInv'
  <1>1. CASE cursor + size > packet.len
    BY <1>1, ReturnStep DEF Header
  <1>2. CASE ~(cursor + size > packet.len)
    <2>1. /\ cursor' = cursor + size /\ touched' = cursor + size
          /\ h_proto' = packet.etype[k] /\ depth' = k /\ ppc' = "vlan"
          /\ packet' = packet /\ verdict' = verdict /\ UNCHANGED seen
      BY <1>2 DEF Header
    <2>2. packet \in Packets /\ packet.len \in Nat /\ packet.etype[k] \in EtherTypes
      BY PacketFields DEF IInv, Walked
    <2>3. cursor \in Nat /\ cursor' \in Nat /\ cursor' <= packet.len
      BY <1>2, <2>1, <2>2 DEF IInv, TypeOK
    <2>4. TypeOK'
      BY <2>1, <2>2, <2>3, MapsStay DEF IInv, TypeOK
    <2>5. Walked'
      BY <2>1, <2>2, <2>3 DEF Walked
    <2>6. Watched' /\ TargetConfigured'
      BY <2>1, MapsStay DEF IInv, Watched, TargetConfigured, maps, seen
    <2>7. QED
      BY <2>4, <2>5, <2>6 DEF IInv
  <1>3. QED
    BY <1>1, <1>2

\* The Ethernet header.
LEMMA ParseEthStep == ASSUME IInv, ParseEth PROVE IInv'
  <1>1. cursor = 0 /\ Tagged(packet, 0) /\ 0 \in 0..VLAN_MAX_DEPTH
    BY DEF IInv, Walked, ParseEth, Tagged, VLAN_MAX_DEPTH
  <1>2. EthHdr \in Nat /\ cursor + EthHdr = EthHdr + 0 * VlanHdr
    BY <1>1 DEF EthHdr, VlanHdr
  <1>3. QED
    BY <1>1, <1>2, HeaderStep DEF ParseEth

\* A VLAN tag.
LEMMA ParseVlanStep == ASSUME IInv, ParseVlan PROVE IInv'
  <1>1. depth \in 0..VLAN_MAX_DEPTH /\ depth # VLAN_MAX_DEPTH /\ h_proto = "vlan"
    BY DEF IInv, TypeOK, ParseVlan, VlanLoopEnds
  <1>2. /\ cursor = EthHdr + depth * VlanHdr
        /\ h_proto = packet.etype[depth] /\ Tagged(packet, depth)
    BY DEF IInv, Walked, ParseVlan
  <1>3. depth + 1 \in 0..VLAN_MAX_DEPTH
    BY <1>1 DEF VLAN_MAX_DEPTH
  <1>4. Tagged(packet, depth + 1)
    BY <1>1, <1>2 DEF Tagged, VLAN_MAX_DEPTH
  <1>5. VlanHdr \in Nat /\ cursor + VlanHdr = EthHdr + (depth + 1) * VlanHdr
    BY <1>1, <1>2 DEF EthHdr, VlanHdr, VLAN_MAX_DEPTH
  <1>6. QED
    BY <1>3, <1>4, <1>5, HeaderStep DEF ParseVlan

\* The IP header.
LEMMA ParseIpStep == ASSUME IInv, ParseIp PROVE IInv'
  <1>1. CASE h_proto # "ip" \/ cursor + IpHdr > packet.len
    BY <1>1, ReturnStep DEF ParseIp
  <1>2. CASE ~(h_proto # "ip" \/ cursor + IpHdr > packet.len)
    <2>1. /\ ppc = "vlan" /\ ppc' = "lookup" /\ touched' = cursor + IpHdr
          /\ packet' = packet /\ cursor' = cursor /\ h_proto' = h_proto
          /\ depth' = depth /\ verdict' = verdict
          /\ UNCHANGED <<control, maps, seen>>
      BY <1>2 DEF ParseIp
    <2>2. packet \in Packets /\ packet.len \in Nat /\ cursor \in Nat
      BY <2>1, PacketFields DEF IInv, TypeOK, Walked
    <2>3. touched' \in Nat /\ touched' <= packet.len
      BY <1>2, <2>1, <2>2 DEF IpHdr
    <2>4. TypeOK'
      BY <2>1, <2>3, MapsStay DEF IInv, TypeOK
    <2>5. Walked'
      BY <1>2, <2>1, <2>2, <2>3 DEF IInv, Walked
    <2>6. Watched' /\ TargetConfigured'
      BY <2>1, MapsStay DEF IInv, Watched, TargetConfigured, maps, seen
    <2>7. QED
      BY <2>4, <2>5, <2>6 DEF IInv
  <1>3. QED
    BY <1>1, <1>2

\* The comparison with the target address.
LEMMA CompareStep == ASSUME IInv, Compare PROVE IInv'
  <1>1. CASE packet.saddr # target
    BY <1>1, ReturnStep DEF Compare
  <1>2. CASE packet.saddr = target
    <2>1. /\ ppc = "lookup" /\ ppc' = "redirect"
          /\ packet' = packet /\ cursor' = cursor /\ h_proto' = h_proto
          /\ depth' = depth /\ verdict' = verdict /\ touched' = touched
          /\ UNCHANGED <<control, maps, seen>>
      BY <1>2 DEF Compare
    <2>2. TypeOK'
      BY <2>1, MapsStay DEF IInv, TypeOK
    <2>3. Walked'
      BY <2>1 DEF IInv, Walked
    <2>4. Watched' /\ TargetConfigured'
      BY <1>2, <2>1, MapsStay DEF IInv, Watched, TargetConfigured, maps, seen
    <2>5. QED
      BY <2>2, <2>3, <2>4 DEF IInv
  <1>3. QED
    BY <1>1, <1>2

\* bpf_redirect_map.
LEMMA RedirectStep == ASSUME IInv, Redirect PROVE IInv'
  <1>1. PICK v \in {"PASS", "REDIRECT"} : Return(v)
    BY DEF Redirect
  <1>2. QED
    BY <1>1, ReturnStep DEF Redirect

-----------------------------------------------------------------------------
(***************************************************************************)
(* The control thread's steps.                                             *)
(***************************************************************************)

\* A step of the control thread that never takes the configured address away
\* leaves a packet under way as it is.
LEMMA ControlStep ==
  ASSUME IInv, UNCHANGED program,
         Observe \/ UNCHANGED <<entry, target, seen>>,
         loader' \in {"map_update", "set_ip", "attach", "up", "stopped", "detached"},
         attached' \in BOOLEAN, entry' \in BOOLEAN, target' \in Sources,
         configured \subseteq configured',
         target' = target \/ target' \in configured',
         loader' \in {"attach", "up"} \/ attached' => target' \in configured'
  PROVE  IInv'
  <1>1. /\ packet' = packet /\ ppc' = ppc /\ cursor' = cursor /\ h_proto' = h_proto
        /\ depth' = depth /\ verdict' = verdict /\ touched' = touched
    BY DEF program
  <1>2. CASE UNCHANGED <<entry, target, seen>>
    <2>1. TypeOK'
      BY <1>1, <1>2 DEF IInv, TypeOK, seen
    <2>2. Watched' /\ TargetConfigured'
      BY <1>1, <1>2 DEF IInv, Watched, TargetConfigured, seen
    <2>3. QED
      BY <1>1, <2>1, <2>2 DEF IInv, Walked
  <1>3. CASE Observe /\ ppc = "idle"
    <2>1. targets' = targets /\ entries' = entries
      BY <1>3 DEF Observe, seen
    <2>2. TypeOK'
      BY <1>1, <2>1 DEF IInv, TypeOK
    <2>3. Watched' /\ TargetConfigured'
      BY <1>1, <1>3 DEF Watched, TargetConfigured
    <2>4. QED
      BY <1>1, <2>2, <2>3 DEF IInv, Walked
  <1>4. CASE Observe /\ ppc # "idle"
    <2>1. targets' = targets \cup {target'} /\ entries' = entries \cup {entry'}
      BY <1>4 DEF Observe
    <2>2. TypeOK'
      BY <1>1, <2>1 DEF IInv, TypeOK
    <2>3. target \in targets /\ targets \subseteq configured
      BY <1>4 DEF IInv, Watched, TargetConfigured
    <2>4. targets' \subseteq configured'
      BY <2>1, <2>3
    <2>5. Watched' /\ TargetConfigured'
      BY <1>1, <2>1, <2>4 DEF IInv, Watched, TargetConfigured
    <2>6. QED
      BY <1>1, <2>2, <2>5 DEF IInv, Walked
  <1>5. QED
    BY <1>2, <1>3, <1>4

\* create, update_filter_ip, stop_redirect and detach.
LEMMA LoaderStep == ASSUME IInv, Loader PROVE IInv'
  <1>1. /\ attached \in BOOLEAN /\ entry \in BOOLEAN /\ target \in Sources
        /\ loader \in {"attach", "up"} \/ attached => target \in configured
    BY DEF IInv, TypeOK, TargetConfigured
  <1>2. CASE UpdateXsksMap
    BY <1>1, <1>2, ControlStep DEF UpdateXsksMap, Goto
  <1>3. CASE Attach
    BY <1>1, <1>3, ControlStep DEF Attach, Goto
  <1>4. CASE StopRedirect
    BY <1>1, <1>4, ControlStep DEF StopRedirect
  <1>5. CASE Detach
    <2>1. CASE attached' = FALSE
      BY <1>1, <1>5, <2>1, ControlStep DEF Detach, Goto
    <2>2. CASE attached' = attached
      BY <1>1, <1>5, <2>2, ControlStep DEF Detach, Goto
    <2>3. QED
      BY <1>5, <2>1, <2>2 DEF Detach
  <1>6. ASSUME NEW ip \in Sources, SetTargetIp(ip)
        PROVE  IInv'
    BY <1>1, <1>6, ControlStep DEF SetTargetIp, Configure, Goto
  <1>7. ASSUME NEW ip \in Sources, UpdateFilterIp(ip)
        PROVE  IInv'
    BY <1>1, <1>7, ControlStep DEF UpdateFilterIp, Configure
  <1>8. QED
    BY <1>2, <1>3, <1>4, <1>5, <1>6, <1>7 DEF Loader

-----------------------------------------------------------------------------
(***************************************************************************)
(* Theorems.                                                               *)
(***************************************************************************)

\* The parts of the invariant hold together at every step of the program and
\* of the control thread.
LEMMA NextStep == ASSUME IInv, [Next]_vars PROVE IInv'
  <1>1. CASE Program
    BY <1>1, ParseEthStep, ParseVlanStep, ParseIpStep, CompareStep, RedirectStep DEF Program
  <1>2. CASE Loader
    BY <1>2, LoaderStep
  <1>3. ASSUME NEW p \in Packets, Arrive(p) PROVE IInv'
    BY <1>3, ArriveStep
  <1>4. CASE UNCHANGED vars
    BY <1>4 DEF vars, program, control, maps, seen, IInv, TypeOK, Walked, Watched, TargetConfigured
  <1>5. QED
    BY <1>1, <1>2, <1>3, <1>4 DEF Next

\* The inductive invariant of xdp_filter_ip and the loader around it: the
\* cursor, the history of the maps and the configured address belong together
\* in every reachable state.
THEOREM FilterInvariant == Spec => []IInv
  <1>1. Init => IInv
    <2> SUFFICES ASSUME Init PROVE IInv
      OBVIOUS
    <2>1. TypeOK
      <3>1. /\ attached \in BOOLEAN /\ entry \in BOOLEAN /\ target \in Sources
            /\ targets \subseteq Sources /\ entries \subseteq BOOLEAN
        BY FilterAssumption, Zenon DEF Init
      <3>2. cursor \in Nat /\ touched \in Nat /\ depth \in 0..VLAN_MAX_DEPTH
        BY DEF Init, VLAN_MAX_DEPTH
      <3>3. QED
        BY <3>1, <3>2 DEF Init, TypeOK, EtherTypes
    <2>2. Walked /\ Watched /\ TargetConfigured
      BY DEF Init, Walked, Watched, TargetConfigured
    <2>3. QED
      BY <2>1, <2>2 DEF IInv
  <1>2. QED
    BY <1>1, NextStep, PTL DEF Spec

\* For packets of every length and with every nesting of VLAN tags the program
\* reads no byte behind data_end.
THEOREM ReadsStayWithinPacket == Spec => []ReadsWithinPacket
  <1>1. IInv => ReadsWithinPacket
    <2> SUFFICES ASSUME IInv, ppc # "idle" PROVE touched <= packet.len
      BY DEF ReadsWithinPacket
    <2>1. packet.len \in Nat
      BY PacketFields DEF IInv, Walked
    <2>2. QED
      BY <2>1 DEF IInv, TypeOK, Walked
  <1>2. QED
    BY <1>1, FilterInvariant, PTL

\* What the program may do when it returns.
Verdict ==
  IF verdict' = "REDIRECT"
  THEN Filtered(packet) /\ packet.saddr \in targets /\ TRUE \in entries
  ELSE ~Filtered(packet) \/ targets # {packet.saddr} \/ entries # {TRUE}

\* Every return statement of xdp_filter_ip has a reason: the packet is too
\* short, of another type, from another source, or the queue has no entry.
LEMMA ReturnsRightly ==
  ASSUME IInv, Program, ppc' = "idle"
  PROVE  Verdict
  <1>1. packet \in Packets /\ packet.len \in Nat /\ packet.mine \in BOOLEAN /\ cursor \in Nat
    BY PacketFields
       DEF IInv, TypeOK, Walked, Program, ParseEth, ParseVlan, ParseIp, Compare, Redirect
  <1>2. CASE ParseEth
    <2>1. cursor = 0 /\ cursor + EthHdr > packet.len /\ verdict' = "PASS"
      BY <1>2 DEF IInv, Walked, ParseEth, Header, Return
    <2>2. ~Filtered(packet)
      BY <1>1, <2>1, FilteredIsLong DEF EthHdr
    <2>3. QED
      BY <2>1, <2>2 DEF Verdict
  <1>3. ASSUME ppc \in {"vlan", "lookup", "redirect"}
        PROVE  /\ depth \in 0..VLAN_MAX_DEPTH /\ Tagged(packet, depth)
               /\ h_proto = packet.etype[depth] /\ cursor = EthHdr + depth * VlanHdr
    BY <1>3 DEF IInv, TypeOK, Walked
  <1>4. CASE ParseVlan
    <2>1. cursor + VlanHdr > packet.len /\ verdict' = "PASS" /\ h_proto # "ip"
      BY <1>4 DEF ParseVlan, Header, Return, VlanLoopEnds
    <2>2. ~Filtered(packet)
      BY <1>1, <1>3, <1>4, <2>1, FilteredBeyond DEF ParseVlan, VlanHdr
    <2>3. QED
      BY <2>1, <2>2 DEF Verdict
  <1>5. CASE ParseIp
    <2>1. verdict' = "PASS" /\ (h_proto # "ip" \/ cursor + IpHdr > packet.len)
      BY <1>5 DEF ParseIp, Return
    <2>2. CASE h_proto # "ip"
      BY <1>1, <1>3, <1>5, <2>1, <2>2, FilteredBeyond DEF ParseIp, VlanLoopEnds, Verdict
    <2>3. CASE h_proto = "ip"
      <3>1. ~(EthHdr + depth * VlanHdr + IpHdr <= packet.len)
        BY <1>1, <1>3, <1>5, <2>1, <2>3 DEF ParseIp, IpHdr
      <3>2. QED
        BY <1>1, <1>3, <1>5, <2>1, <2>3, <3>1, FilteredHere DEF ParseIp, Verdict
    <2>4. QED
      BY <2>2, <2>3
  <1>6. CASE Compare
    BY <1>6 DEF IInv, Watched, Compare, Return, Verdict
  <1>7. CASE Redirect
    <2>1. /\ verdict' = (IF entry /\ packet.mine THEN "REDIRECT" ELSE "PASS")
          /\ ppc = "redirect"
      BY <1>7 DEF Redirect, Return
    <2>2. entry \in entries /\ entry \in BOOLEAN /\ packet.saddr \in targets
      BY <2>1 DEF IInv, TypeOK, Watched
    <2>3. EthHdr + depth * VlanHdr + IpHdr <= packet.len /\ packet.etype[depth] = "ip"
      BY <1>3, <2>1 DEF IInv, Walked
    <2>4. Filtered(packet) <=> packet.mine
      BY <1>1, <1>3, <2>1, <2>3, FilteredHere
    <2>5. CASE entry /\ packet.mine
      BY <2>1, <2>2, <2>4, <2>5 DEF Verdict
    <2>6. CASE ~(entry /\ packet.mine)
      BY <2>1, <2>2, <2>4, <2>6 DEF Verdict
    <2>7. QED
      BY <2>5, <2>6
  <1>8. QED
    BY <1>2, <1>4, <1>5, <1>6, <1>7 DEF Program

\* Only the program's own steps end a packet.
LEMMA OnlyProgramReturns ==
  ASSUME [Next]_vars, ppc # "idle", ppc' = "idle"
  PROVE  Program
  BY DEF Next, vars, program, Loader, UpdateXsksMap, Attach, StopRedirect, Detach,
         SetTargetIp, UpdateFilterIp, Arrive

\* A packet is redirected only if the filter is for it, from a source that was
\* the target meanwhile, and passed only for a reason, whatever the control
\* thread does to the maps between the program's two lookups.
THEOREM VerdictsAreRight == Spec => VerdictIsRight
  <1>1. IInv /\ [Next]_vars =>
          [ppc # "idle" /\ ppc' = "idle" =>
             IF verdict' = "REDIRECT"
             THEN Filtered(packet) /\ packet.saddr \in targets /\ TRUE \in entries
             ELSE ~Filtered(packet) \/ targets # {packet.saddr} \/ entries # {TRUE}]_vars
    BY OnlyProgramReturns, ReturnsRightly DEF Verdict
  <1>2. QED
    BY <1>1, FilterInvariant, PTL DEF Spec, VerdictIsRight

\* Every redirected packet is from an address the loader was given: the program
\* is never on the interface with the value target_ip_map is created with.
THEOREM OnlyConfiguredSourcesRedirected == Spec => OnlyConfiguredSources
  <1>1. IInv /\ [Next]_vars =>
          [ppc # "idle" /\ ppc' = "idle" /\ verdict' = "REDIRECT"
             => packet.saddr \in configured]_vars
    BY OnlyProgramReturns, ReturnsRightly DEF Verdict, IInv, TargetConfigured
  <1>2. QED
    BY <1>1, FilterInvariant, PTL DEF Spec, OnlyConfiguredSources
=============================================================================
