------------------------------ MODULE PktDecode ------------------------------
(* The decoding nodes of the packet graph: sf_eth_input, sf_ip4_input,      *)
(* sf_ip6_input, sf_tcp_input, sf_udp_input, up to sf_acl_entry or a        *)
(* reassembly node.                                                         *)
(*                                                                          *)
(* A node gets a frame of buffers and takes them two at a time while four   *)
(* or more are left, then one by one: the two loops are written out twice   *)
(* in the source and are two actions here.  What a node keeps of a packet   *)
(* is its window (current_data, current_length: what is still to be         *)
(* decoded) and the layers it records in sf_wdata_t.                        *)
(*                                                                          *)
(* A packet is the list of headers its bytes spell, with the lengths the    *)
(* headers declare; len is what was received of it.  Bytes after len are    *)
(* what the buffer held before: the headers of the list beyond len stand    *)
(* for them, and the code does read some of them before it looks at len.    *)
EXTENDS Naturals, Sequences, FiniteSets

CONSTANTS
  FrameSize,       \* packets of the frame that is decoded
  Frames,          \* what it may hold: sequences of FrameSize packets
  L2Offset         \* data_off - RTE_PKTMBUF_HEADROOM of a received packet

Buffer == 1..FrameSize

VARIABLES
  pkt,             \* packet of each buffer
  wd,              \* sf_wdata_t of each buffer
  running,         \* node that is running
  from,            \* buffers of its frame that it has not taken yet
  pending          \* frames that wait for a node, filled by the nodes before

decodeVars == <<pkt, wd, running, from, pending>>

ETH_HEADER_LEN == 14
VLAN_HEADER_LEN == 4
IPV6_HEADER_LEN == 40
IPV6_FRAG_HEADER_LEN == 8
UDP_HEADER_LEN == 8
MAX_IP_WDATA == 1
IP_PRO_INVALID == "invalid"     \* 0xff: a value the protocol field may have
U8 == 256
U16 == 65536

\* A received packet; a NIC passes on no frame without an Ethernet header.
ExtHeader == [k : {"opt", "frag"}, len : Nat, frag : BOOLEAN]
Packet == {p \in [tags : Nat, l3 : {"ipv4", "ipv6", "other"}, hlen : Nat,
                  ext : Seq(ExtHeader), frag : BOOLEAN,
                  proto : {"tcp", "udp", "none", IP_PRO_INVALID}, l4len : Nat,
                  len : ETH_HEADER_LEN..U16 - 1, total : 0..U16 - 1] :
             p.proto = "udp" => p.l4len = UDP_HEADER_LEN}

ASSUME FrameAssumption == FrameSize \in Nat /\ Frames \subseteq [Buffer -> Packet]
ASSUME L2OffsetAssumption == L2Offset \in 0..255     \* l2_hdr_offset is u8

Decoders == {"sf_eth_input", "sf_ip4_input", "sf_ip6_input", "sf_tcp_input",
             "sf_udp_input", "sf_acl_entry"}
Ends == {"sf_ip4_reass", "sf_ip6_reass", "sf_action_main"}
Nodes == Decoders \cup Ends \cup {"idle"}

NoLayer == [off |-> 0, hlen |-> 0]
NoIp == [off |-> 0, version |-> 0, protocol |-> "none", hlen |-> 0,
         plen |-> 0, frag |-> FALSE]

----------------------------------------------------------------------------
(* The window.  sf_wqe_len_t is 16 bits wide.                               *)

Advance(w, l) == [w EXCEPT !.cur = @ + l, !.len = (@ + U16 - l) % U16]

\* mutant: the window is put back behind the Ethernet header
Reset_AfterEth(w) == [w EXCEPT !.cur = L2Offset + ETH_HEADER_LEN,
  !.len = (@ + w.cur - L2Offset - ETH_HEADER_LEN) % U16]
\* sf_wqe_reset_wdata
Reset(w) == [w EXCEPT !.cur = L2Offset, !.len = (@ + w.cur - L2Offset) % U16]

SetError(w) == [w EXCEPT !.err = TRUE]

RxWdata(p) == [cur |-> L2Offset, len |-> p.len, err |-> FALSE,
               ip_cnt |-> 0, vlans |-> 0, vlan |-> NoLayer,
               ip |-> NoIp, l4_cnt |-> 0, l4 |-> NoLayer]

To(w, n) == [w |-> w, next |-> n]

(* What is recorded of a layer, at the current offset of the packet.        *)
UpdateVlan(w, off, l) == [w EXCEPT !.vlans = 1,
                                   !.vlan = [off |-> off, hlen |-> l]]
UpdateIp4(w, p) ==
  [w EXCEPT !.ip_cnt = @ + 1,
            !.ip = [off |-> w.cur, version |-> 4, protocol |-> p.proto,
                    hlen |-> p.hlen, plen |-> (p.total + U16 - p.hlen) % U16,
                    frag |-> p.frag]]
UpdateIp6(w, p, r) ==
  [w EXCEPT !.ip_cnt = @ + 1,
            !.ip = [off |-> w.cur, version |-> 6, protocol |-> r.protocol,
                    hlen |-> r.hlen, plen |-> (p.total + U16 - r.hlen) % U16,
                    frag |-> r.frag]]
\* mutant: the layer is recorded where its payload begins
UpdateL4_After(w, l) == [w EXCEPT !.l4_cnt = 1,
                                  !.l4 = [off |-> w.cur + l, hlen |-> l]]
UpdateL4(w, l) == [w EXCEPT !.l4_cnt = 1, !.l4 = [off |-> w.cur, hlen |-> l]]

----------------------------------------------------------------------------
(* sf_eth_input                                                             *)

\* parse_vlan_hdr_only: a tag is read while more than a tag is left; a packet
\* that ends within the tags keeps what was advanced, and records nothing.
\* The tags are counted in 8 bits: a count that wrapped to 0 is not recorded.
ParsedTags(w, p) ==
  Cardinality({i \in 1..p.tags : w.len > VLAN_HEADER_LEN * i})
ParseVlan(w, p) ==
  LET n  == ParsedTags(w, p)
      w1 == Advance(w, VLAN_HEADER_LEN * n)
      layer_cnt == n % U8
  IN IF n < p.tags
     THEN [w |-> w1, type |-> "ETHER_INVALID_TYPE"]
     ELSE [w |-> IF layer_cnt = 0 THEN w1
                 ELSE UpdateVlan(w1, w.cur, VLAN_HEADER_LEN * layer_cnt),
           type |-> p.l3]

\* parse_eth_hdr
ParseEth(w, p) == IF p.tags > 0 THEN ParseVlan(w, p)
                                ELSE [w |-> w, type |-> p.l3]

EthNext(type) == CASE type = "ipv4" -> "sf_ip4_input"
                   [] type = "ipv6" -> "sf_ip6_input"
                   [] OTHER         -> "sf_acl_entry"

EthDecode(w, p) == LET r == ParseEth(Advance(w, ETH_HEADER_LEN), p)
                   IN To(r.w, EthNext(r.type))

----------------------------------------------------------------------------
(* sf_ip4_input                                                             *)

Ip4Next(proto) == CASE proto = "udp" -> "sf_udp_input"
                    [] proto = "tcp" -> "sf_tcp_input"
                    [] OTHER         -> "sf_acl_entry"

\* ip4_decode and the lookup that follows it.  The header length is read
\* before it is known to be there.
Ip4Decode(w, p) ==
  IF w.ip_cnt >= MAX_IP_WDATA THEN To(w, "sf_acl_entry")
  ELSE IF w.len < p.hlen THEN To(SetError(w), "sf_acl_entry")
  ELSE IF p.frag THEN To(UpdateIp4(w, p), "sf_ip4_reass")
  ELSE To(Advance(UpdateIp4(w, p), p.hlen), Ip4Next(p.proto))

----------------------------------------------------------------------------
(* sf_ip6_input                                                             *)

\* Where the i-th of a list of headers ends that begin at start
Offsets(start, lens) ==
  LET S[i \in 0..Len(lens)] == IF i = 0 THEN start ELSE S[i-1] + lens[i]
  IN S

\* The extension headers of a packet: p.ext, each [k, len, frag]; k is "frag"
\* for a fragment header and "opt" for the others.  A header is passed when
\* more than it is left; a fragment header with an offset or the M flag ends
\* the walk.  Passed(p) is the number of headers passed.
ExtLens(p) == [i \in 1..Len(p.ext) |-> p.ext[i].len]
ExtLen(p, n) == Offsets(IPV6_HEADER_LEN, ExtLens(p))[n]
FragAt(p, n) == n > 0 /\ p.ext[n].k = "frag" /\ p.ext[n].frag
Walked(w, p) == {n \in 0..Len(p.ext) :
                   \A i \in 1..n : w.len > ExtLen(p, i) /\ ~FragAt(p, i-1)}
Passed(w, p) == CHOOSE n \in Walked(w, p) : \A k \in Walked(w, p) : k <= n

\* parse_ipv6_hdr: [protocol, hlen, frag].  IP_PRO_INVALID is an error, and
\* what the last header that is passed may really name as the next one.
ParseIp6(w, p) ==
  LET n == Passed(w, p)
      f == FragAt(p, n)
  IN IF w.len < IPV6_HEADER_LEN
     THEN [protocol |-> IP_PRO_INVALID, hlen |-> 0, frag |-> FALSE]
     ELSE [protocol |-> IF n = Len(p.ext) THEN p.proto
                        ELSE IF f THEN "opt" ELSE IP_PRO_INVALID,
           hlen |-> ExtLen(p, n), frag |-> f]

Ip6Next(proto, frag) ==
  CASE frag                    -> "sf_ip6_reass"
    [] ~frag /\ proto = "tcp" -> "sf_tcp_input"
    [] ~frag /\ proto = "udp" -> "sf_udp_input"
    [] OTHER                   -> "sf_acl_entry"

\* mutant: the window of a fragment is moved past its headers
RecordIp6_AdvanceFrag(w, p, r) ==
  To(Advance(UpdateIp6(w, p, r), r.hlen), Ip6Next(r.protocol, r.frag))
RecordIp6(w, p, r) ==
  To(IF r.frag THEN UpdateIp6(w, p, r) ELSE Advance(UpdateIp6(w, p, r), r.hlen),
     Ip6Next(r.protocol, r.frag))

\* mutant: the loop over two forgets the error
Ip6DecodeTwo_NoError(w, p) ==
  LET r == ParseIp6(w, p)
  IN IF r.protocol = IP_PRO_INVALID THEN To(w, "sf_acl_entry")
     ELSE RecordIp6(w, p, r)

\* The loop that takes two packets looks only at the protocol ...
Ip6DecodeTwo(w, p) ==
  LET r == ParseIp6(w, p)
  IN IF r.protocol = IP_PRO_INVALID THEN To(SetError(w), "sf_acl_entry")
     ELSE RecordIp6(w, p, r)

\* ... the loop that takes one looks at ip_wdata_cnt too
Ip6DecodeOne(w, p) ==
  LET r  == ParseIp6(w, p)
      w1 == IF r.protocol = IP_PRO_INVALID THEN SetError(w) ELSE w
  IN IF w.ip_cnt >= MAX_IP_WDATA \/ r.protocol = IP_PRO_INVALID
     THEN To(w1, "sf_acl_entry")
     ELSE RecordIp6(w, p, r)

----------------------------------------------------------------------------
(* sf_tcp_input, sf_udp_input                                               *)

TcpDecode(w, p) == To(IF w.len < p.l4len THEN SetError(w)
                      ELSE Advance(UpdateL4(w, p.l4len), p.l4len), "sf_acl_entry")

UdpDecode(w, p) == To(IF w.len < UDP_HEADER_LEN THEN SetError(w)
                      ELSE Advance(UpdateL4(w, UDP_HEADER_LEN), UDP_HEADER_LEN), "sf_acl_entry")

\* sf_acl_entry puts the window back over the whole packet for the actions
AclEntry(w, p) == To(Reset(w), "sf_action_main")

----------------------------------------------------------------------------
(* Frames.  Enqueue is vlib_validate_buffer_enqueue: every buffer that was  *)
(* taken goes to the frame of the node it chose, in order.                  *)

Enqueue(q, b, n) == [q EXCEPT ![n] = Append(@, b)]

Two(n, D(_,_)) ==
  LET b0 == from[1]
      b1 == from[2]
      r0 == D(wd[b0], pkt[b0])
      r1 == D(wd[b1], pkt[b1])
  IN /\ running = n /\ Len(from) >= 4
     /\ wd' = [wd EXCEPT ![b0] = r0.w, ![b1] = r1.w]
     /\ pending' = Enqueue(Enqueue(pending, b0, r0.next), b1, r1.next)
     /\ from' = SubSeq(from, 3, Len(from))
     /\ UNCHANGED <<pkt, running>>

One(n, D(_,_)) ==
  LET b == from[1]
      r == D(wd[b], pkt[b])
  IN /\ running = n /\ Len(from) \in 1..3
     /\ wd' = [wd EXCEPT ![b] = r.w]
     /\ pending' = Enqueue(pending, b, r.next)
     /\ from' = Tail(from)
     /\ running' = IF Len(from) = 1 THEN "idle" ELSE n
     /\ UNCHANGED pkt

EthTwo == Two("sf_eth_input", EthDecode)
EthOne == One("sf_eth_input", EthDecode)
Ip4Two == Two("sf_ip4_input", Ip4Decode)
Ip4One == One("sf_ip4_input", Ip4Decode)
Ip6Two == Two("sf_ip6_input", Ip6DecodeTwo)
Ip6One == One("sf_ip6_input", Ip6DecodeOne)
TcpTwo == Two("sf_tcp_input", TcpDecode)
TcpOne == One("sf_tcp_input", TcpDecode)
UdpTwo == Two("sf_udp_input", UdpDecode)
UdpOne == One("sf_udp_input", UdpDecode)
AclTwo == Two("sf_acl_entry", AclEntry)
AclOne == One("sf_acl_entry", AclEntry)

\* vlib_main dispatches a node whose frame is not empty
Dispatch(n) ==
  /\ running = "idle" /\ pending[n] # <<>>
  /\ running' = n
  /\ from' = pending[n]
  /\ pending' = [pending EXCEPT ![n] = <<>>]
  /\ UNCHANGED <<pkt, wd>>

DecodeInit ==
  /\ pkt \in Frames
  /\ wd = [b \in Buffer |-> RxWdata(pkt[b])]
  /\ running = "idle" /\ from = <<>>
  /\ pending = [n \in Nodes |-> IF n = "sf_eth_input"
                                THEN [b \in Buffer |-> b] ELSE <<>>]

DecodeNext ==
  \/ EthTwo \/ EthOne \/ Ip4Two \/ Ip4One \/ Ip6Two \/ Ip6One
  \/ TcpTwo \/ TcpOne \/ UdpTwo \/ UdpOne \/ AclTwo \/ AclOne
  \/ \E n \in Decoders : Dispatch(n)

DecodeSpec == DecodeInit /\ [][DecodeNext]_decodeVars

----------------------------------------------------------------------------
Layer == [off : Nat, hlen : Nat]
IpLayer == [off : Nat, version : {0, 4, 6}, hlen : Nat, plen : 0..U16 - 1,
            protocol : {"none", "tcp", "udp", "opt", IP_PRO_INVALID}, frag : BOOLEAN]
Wdata == [cur : Nat, len : 0..U16 - 1, err : BOOLEAN, vlans : 0..1, vlan : Layer,
          ip_cnt : 0..MAX_IP_WDATA, ip : IpLayer, l4_cnt : 0..1, l4 : Layer]

\* Type invariant: the counters of the layers stay within their arrays.
DecodeTypeOK ==
  /\ pkt \in [Buffer -> Packet] /\ wd \in [Buffer -> Wdata]
  /\ running \in Decoders \cup {"idle"} /\ from \in Seq(Buffer)
  /\ pending \in [Nodes -> Seq(Buffer)]

At(b, n) == \E i \in DOMAIN pending[n] : pending[n][i] = b

(* Where the headers of a packet really are: the reference the recorded     *)
(* layers are compared with.  Hdr(p) lists the lengths of the headers from  *)
(* IP on, HdrEnd(p, i) is where the i-th of them ends.                      *)
EndOf(p) == L2Offset + p.len
IpStart(p) == L2Offset + ETH_HEADER_LEN + VLAN_HEADER_LEN * p.tags
IsIp(p) == p.l3 \in {"ipv4", "ipv6"}
IpHdr(p) == IF p.l3 = "ipv4" THEN <<p.hlen>>
            ELSE <<IPV6_HEADER_LEN>> \o ExtLens(p)
FragHdr(p) == IF p.l3 = "ipv4" THEN {i \in {1} : p.frag}
              ELSE {i \in 2..Len(p.ext) + 1 :
                      p.ext[i-1].k = "frag" /\ p.ext[i-1].frag}
IsFrag(p) == IsIp(p) /\ FragHdr(p) # {}
HasL4(p) == IsIp(p) /\ ~IsFrag(p) /\ p.proto \in {"tcp", "udp"}
Hdr(p) == IF HasL4(p) THEN Append(IpHdr(p), p.l4len) ELSE IpHdr(p)
HdrEnd(p, i) == Offsets(IpStart(p), Hdr(p))[i]
\* the headers that are decoded: all, or up to the one that makes a fragment
LastHdr(p) == IF IsFrag(p) THEN CHOOSE i \in FragHdr(p) :
                                  \A k \in FragHdr(p) : i <= k
              ELSE Len(Hdr(p))
LastIpHdr(p) == IF IsFrag(p) THEN LastHdr(p) ELSE Len(IpHdr(p))
\* nothing of them is missing; an extension header has something after it
Complete(p) ==
  /\ EndOf(p) >= HdrEnd(p, LastHdr(p))
  /\ p.tags > 0 => EndOf(p) > IpStart(p)
  /\ LastIpHdr(p) > 1 => EndOf(p) > HdrEnd(p, LastIpHdr(p))

\* The protocol an IPv6 packet names after the last header that is decoded is
\* the value the code takes for an error
NamesInvalid(p) == /\ p.l3 = "ipv6" /\ p.proto = IP_PRO_INVALID
                   /\ LastIpHdr(p) = Len(IpHdr(p))

\* The window of a packet never leaves the bytes received: whatever a header
\* declares, no decoder advances past the end, where the 16 bit length would
\* wrap and every later length check would pass.
WindowInside == \A b \in Buffer : wd[b].cur + wd[b].len = EndOf(pkt[b])

\* The VLAN layer ends where the layer at c begins, if its tags were counted
VlanBefore(p, w, c) ==
  w.vlans = 1 => /\ w.vlan.off + w.vlan.hlen <= c
                 /\ p.tags < U8 => w.vlan.off + w.vlan.hlen = c

\* A recorded layer lies within the bytes received, and the layers follow one
\* another without a gap: the actions and the reassembly copy by these offsets.
\* (The VLAN tags are counted in 8 bits: of 256 or more the first ones only are
\* recorded, and the IP header comes further on.)
RecordedInside ==
  \A b \in Buffer : LET w == wd[b] IN
    /\ w.vlans = 1 => w.vlan.off + w.vlan.hlen <= EndOf(pkt[b])
    /\ w.ip_cnt > 0 => /\ w.ip_cnt = 1
                       /\ w.ip.off + w.ip.hlen <= EndOf(pkt[b])
                       /\ VlanBefore(pkt[b], w, w.ip.off)
    /\ w.l4_cnt = 1 => /\ w.l4.off + w.l4.hlen <= EndOf(pkt[b])
                       /\ w.ip_cnt = 1 /\ ~w.ip.frag
                       /\ w.l4.off = w.ip.off + w.ip.hlen

\* What is recorded of a packet does not depend on its place in the frame:
\* the loop over two packets and the loop over one decode alike.
SameInBothLoops ==
  \A n \in Nodes : \A i, j \in DOMAIN pending[n] :
    LET b == pending[n][i]
        c == pending[n][j]
    IN pkt[b] = pkt[c] => wd[b] = wd[c]

\* A packet whose headers are all there is decoded as it was sent: its IP and
\* L4 headers are recorded where they are, a fragment and only a fragment goes
\* to reassembly with its window on the IP header, and the payload length is
\* the one up to the end of the packet if the header declares it truly.  The
\* IPv6 packets whose protocol is 0xff are excepted.
LayersAsSent ==
  \A b \in Buffer : LET p == pkt[b]
                         w == wd[b]
                         ends == {n \in Ends : At(b, n)} IN
    (ends # {} /\ IsIp(p) /\ Complete(p) /\ ~NamesInvalid(p)) =>
      /\ ~w.err /\ w.ip_cnt = 1
      /\ w.ip.off = IpStart(p)
      /\ w.ip.off + w.ip.hlen = HdrEnd(p, LastIpHdr(p))
      /\ w.ip.frag = IsFrag(p)
      /\ ends = {IF ~IsFrag(p) THEN "sf_action_main"
                 ELSE IF p.l3 = "ipv4" THEN "sf_ip4_reass" ELSE "sf_ip6_reass"}
      /\ IsFrag(p) => w.cur = IpStart(p)
      /\ w.l4_cnt = IF HasL4(p) THEN 1 ELSE 0
      /\ HasL4(p) => w.l4.off + w.l4.hlen = HdrEnd(p, LastHdr(p))
      /\ (IpStart(p) + p.total = EndOf(p) /\ p.total >= w.ip.hlen)
            => w.ip.off + w.ip.hlen + w.ip.plen = EndOf(p)

\* A packet that ends within its IP or L4 headers reaches the rules marked
\* PACKET_TYPE_ERROR, and no other packet is, but for an IPv6 packet whose
\* protocol is 0xff: it is marked however complete it is.  (A packet cut within
\* its VLAN tags is not marked: it has no known type.)
CutMeansError ==
  \A b \in Buffer : At(b, "sf_action_main") =>
    (wd[b].err <=> /\ IsIp(pkt[b])
                   /\ ~Complete(pkt[b]) \/ NamesInvalid(pkt[b])
                   /\ pkt[b].tags > 0 => EndOf(pkt[b]) > IpStart(pkt[b]))

\* The actions get the window over the whole packet, however far and with
\* whichever error the decoding ended.
ActionsSeeWholePacket ==
  \A b \in Buffer : At(b, "sf_action_main") =>
    wd[b].cur = L2Offset /\ wd[b].len = pkt[b].len

\* A buffer is in one frame only, and in it once: the loops over a frame lose
\* and duplicate nothing, for every number of packets left over.
EachBufferOnce ==
  /\ \A n, m \in Nodes : \A i \in DOMAIN pending[n], j \in DOMAIN pending[m] :
       pending[n][i] = pending[m][j] => n = m /\ i = j
  /\ \A i, j \in DOMAIN from : from[i] = from[j] => i = j
  /\ \A n \in Nodes : \A i \in DOMAIN pending[n], j \in DOMAIN from :
       pending[n][i] # from[j]
  /\ \A b \in Buffer : \/ \E n \in Nodes : At(b, n)
                       \/ \E i \in DOMAIN from : from[i] = b

\* However the headers are cut and whatever they declare, the window and every
\* recorded layer stay within the bytes received.
WindowSound == DecodeTypeOK /\ WindowInside /\ RecordedInside

\* An IP packet whose VLAN tags are all there is recorded as it was sent or
\* marked as in error, and never both.
LayersSound == LayersAsSent /\ CutMeansError

\* Every packet of a frame comes to the actions once, and whole.
DeliveredOnce == ActionsSeeWholePacket /\ EachBufferOnce

----------------------------------------------------------------------------
(* The inductive invariant: a packet decoded by itself, node by node, and   *)
(* what that says of a packet in a frame.                                   *)

AfterEth(p) == EthDecode(RxWdata(p), p)

AfterIp(p) == LET r == AfterEth(p)
              IN CASE r.next = "sf_ip4_input" -> Ip4Decode(r.w, p)
                   [] r.next = "sf_ip6_input" -> Ip6DecodeOne(r.w, p)
                   [] OTHER                   -> r

AfterL4(p) == LET r == AfterIp(p)
              IN CASE r.next = "sf_tcp_input" -> TcpDecode(r.w, p)
                   [] r.next = "sf_udp_input" -> UdpDecode(r.w, p)
                   [] OTHER                   -> r

Decoded(p) == LET r == AfterL4(p)
              IN IF r.next = "sf_acl_entry" THEN AclEntry(r.w, p) ELSE r

\* What is known of packet p when it waits for node n
StageAt(n, p, w) ==
  \/ n = "sf_eth_input" /\ w = RxWdata(p)
  \/ n \in {"sf_ip4_input", "sf_ip6_input"} /\ AfterEth(p) = To(w, n)
  \/ n \in {"sf_tcp_input", "sf_udp_input"} /\ AfterIp(p) = To(w, n)
  \/ n = "sf_acl_entry" /\ AfterL4(p) = To(w, n)
  \/ n \in Ends /\ Decoded(p) = To(w, n)

FrameInv ==
  /\ pkt \in [Buffer -> Packet] /\ wd = [b \in Buffer |-> wd[b]]
  /\ running \in Decoders \cup {"idle"} /\ from \in Seq(Buffer)
  /\ pending \in [Nodes -> Seq(Buffer)]
  /\ running = "idle" => from = <<>>

\* The frames carry packets that were decoded so far, one by one.
StageInv ==
  /\ \A n \in Nodes : \A i \in DOMAIN pending[n] :
       StageAt(n, pkt[pending[n][i]], wd[pending[n][i]])
  /\ \A i \in DOMAIN from : StageAt(running, pkt[from[i]], wd[from[i]])

DecodeInv == FrameInv /\ EachBufferOnce /\ StageInv
=============================================================================
