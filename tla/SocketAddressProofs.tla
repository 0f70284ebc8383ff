------------------------ MODULE SocketAddressProofs -------------------------
(***************************************************************************)
(* What the port in an address comes to, for every port and every address, *)
(* and what the addresses of a name are.                                   *)
(***************************************************************************)
EXTENDS SocketAddress, TLAPS

\* The two bytes of a 16-bit number can be told from it.
LEMMA Bytes ==
  ASSUME NEW a \in 0..255, NEW b \in 0..255
  PROVE  (a * 256 + b) % 256 = b /\ (a * 256 + b) \div 256 = a
<1>1. (a * 256 + b) % 256 = b
  OBVIOUS
<1>2. (a * 256 + b) \div 256 = a
  OBVIOUS
<1> QED BY <1>1, <1>2

\* htons() and ntohs() undo each other on 16 bits.
LEMMA HtonsInvolution ==
  ASSUME NEW n \in PortNumbers
  PROVE  Htons(Htons(n)) = n
<1> DEFINE low == n % 256
           high == n \div 256
<1>1. low \in 0..255 /\ high \in 0..255 /\ n = high * 256 + low
  BY DEF PortNumbers
<1>2. Htons(n) = low * 256 + high
  BY DEF Htons
<1> HIDE DEF low, high
<1>3. (low * 256 + high) % 256 = high /\ (low * 256 + high) \div 256 = low
  BY <1>1, Bytes
<1>4. Htons(Htons(n)) = high * 256 + low
  BY <1>2, <1>3 DEF Htons
<1> QED BY <1>1, <1>4

\* 0 is a port number, ...
LEMMA ZeroPort == 0 \in PortNumbers
  BY DEF PortNumbers

\* ... a port changes its byte order into a port, and only 0 into 0.
LEMMA HtonsPort ==
  ASSUME NEW p \in PortNumbers
  PROVE  Htons(p) \in PortNumbers /\ (Htons(p) = 0 <=> p = 0)
<1> DEFINE low == p % 256
           high == p \div 256
           last == 65535
<1>1. low \in 0..255 /\ high \in 0..255 /\ p = high * 256 + low
  BY DEF PortNumbers
<1>2. Htons(p) = low * 256 + high
  BY DEF Htons
<1> HIDE DEF low, high
<1>3. Htons(p) \in Int /\ Htons(p) >= 0 /\ Htons(p) <= last
  BY <1>1, <1>2, SMT
<1>4. Htons(p) = 0 <=> p = 0
  BY <1>1, <1>2, SMT
<1>5. last \in Int /\ PortNumbers = 0..last
  BY DEF PortNumbers
<1> HIDE DEF last
<1>6. Htons(p) \in PortNumbers
  BY <1>3, <1>5
<1> QED BY <1>4, <1>6

\* What an address is with another port.
LEMMA WithPortFields ==
  ASSUME NEW a \in SocketAddresses, NEW p \in PortNumbers
  PROVE  /\ WithPort(a, p) \in SocketAddresses
         /\ WithPort(a, p).port = Htons(p) /\ WithPort(a, p).family = a.family
         /\ a.port = Htons(p) => WithPort(a, p) = a
  BY HtonsPort DEF WithPort, SocketAddresses

\* A name that was made with a port reports that port.
LEMMA SamePort ==
  ASSUME NEW a \in SocketAddresses, NEW b \in SocketAddresses, NEW p \in PortNumbers,
         b = WithPort(a, p)
  PROVE  GetPortNumber(b) = p /\ WithPort(a, GetPortNumber(b)) = b
  BY HtonsInvolution, WithPortFields DEF GetPortNumber

\* Names resolve to addresses of the family and the host that the resolver
\* gives, with the port that was asked for.
LEMMA Resolved ==
  ASSUME NEW name \in Names, NEW p \in PortNumbers, NEW version \in Versions,
         NEW addresses, addresses = ResolveToAddresses(name, p, CreateHints(version))
  PROVE  /\ addresses \in Seq(SocketAddresses)
         /\ DOMAIN addresses = DOMAIN GetAddrInfo(name, version)
         /\ \A i \in DOMAIN addresses :
              /\ addresses[i].port = Htons(p)
              /\ addresses[i].family = GetAddrInfo(name, version)[i].family
              /\ addresses[i].family \in {IPV4, IPV6}
              /\ addresses[i].host = GetAddrInfo(name, version)[i].host
              /\ addresses[i].host \in Hosts
         /\ addresses # << >> => /\ 1 \in DOMAIN addresses
                                 /\ addresses[1] \in SocketAddresses
                                 /\ addresses[1].port = Htons(p)
<1> DEFINE hosts == GetAddrInfo(name, version)
           Hosted == [family: {IPV4, IPV6}, host: Hosts]
           plain(i) == [family |-> hosts[i].family, port |-> 0, host |-> hosts[i].host]
<1>1. hosts \in Seq(Hosted)
  BY ResolverAssumption
<1>2. addresses = [i \in DOMAIN hosts |-> WithPort(plain(i), p)]
  BY DEF ResolveToAddresses, CreateHints
<1> HIDE DEF hosts, Hosted
<1>3. Len(hosts) \in Nat /\ DOMAIN hosts = 1..Len(hosts) /\ \A i \in 1..Len(hosts) : hosts[i] \in Hosted
  BY <1>1
<1>4. ASSUME NEW i \in DOMAIN hosts
      PROVE  /\ addresses[i] \in SocketAddresses /\ addresses[i].port = Htons(p)
             /\ addresses[i].family = hosts[i].family /\ addresses[i].family \in {IPV4, IPV6}
             /\ addresses[i].host = hosts[i].host /\ addresses[i].host \in Hosts
  <2>1. hosts[i].family \in {IPV4, IPV6} /\ hosts[i].host \in Hosts
    BY <1>3, <1>4 DEF Hosted
  <2>2. plain(i) \in SocketAddresses
    BY <2>1, ZeroPort DEF SocketAddresses, Versions
  <2>3. addresses[i] = WithPort(plain(i), p)
    BY <1>2
  <2>4. WithPort(plain(i), p).host = hosts[i].host
    BY DEF WithPort
  <2> QED BY <2>1, <2>2, <2>3, <2>4, WithPortFields
<1>5. DOMAIN addresses = DOMAIN hosts
  BY <1>2
<1>6. addresses \in Seq(SocketAddresses) /\ (addresses # << >> => 1 \in DOMAIN addresses)
  <2>1. addresses = [i \in 1..Len(hosts) |-> addresses[i]]
    BY <1>2, <1>3
  <2>2. \A i \in 1..Len(hosts) : addresses[i] \in SocketAddresses
    BY <1>3, <1>4
  <2>3. addresses \in Seq(SocketAddresses)
    BY <1>3, <2>1, <2>2
  <2> QED BY <2>3
<1> QED BY <1>3, <1>4, <1>5, <1>6 DEF hosts

\* An address given a port reports that port and is otherwise what it was: the
\* port that bind() and TCPServerSocket's constructor put into the address they
\* keep is the one getPortNumber() reads from it.
THEOREM PortRoundTrip ==
  ASSUME NEW address \in SocketAddresses, NEW port \in PortNumbers
  PROVE  /\ GetPortNumber(WithPort(address, port)) = port
         /\ GetInternetProtocolVersion(WithPort(address, port)) = GetInternetProtocolVersion(address)
         /\ GetAddress(WithPort(address, port)) = GetAddress(address)
<1>1. /\ WithPort(address, port).port = Htons(port)
      /\ WithPort(address, port).family = address.family
      /\ WithPort(address, port).host = address.host
  BY DEF WithPort, SocketAddresses
<1>2. GetPortNumber(WithPort(address, port)) = port
  BY <1>1, HtonsInvolution DEF GetPortNumber
<1>3. GetInternetProtocolVersion(WithPort(address, port)) = GetInternetProtocolVersion(address)
  BY <1>1 DEF GetInternetProtocolVersion
<1>4. GetAddress(WithPort(address, port)) = GetAddress(address)
  BY <1>1, <1>3 DEF GetAddress
<1> QED BY <1>2, <1>3, <1>4
=============================================================================
