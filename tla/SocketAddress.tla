---------------------------- MODULE SocketAddress ----------------------------
(***************************************************************************)
(* kt::SocketAddress and the functions on it: what the socket classes make *)
(* of host names, protocol versions and port numbers.  A host is the text  *)
(* of its address; a port inside an address is in network byte order.      *)
(***************************************************************************)
EXTENDS Integers, Sequences

CONSTANTS
  Hostnames,          \* the names callers use
  Hosts,              \* the texts of the addresses that names resolve to
  GetAddrInfo(_, _)   \* getaddrinfo(): the hosts of a name, of one family or any

\* InternetProtocolVersion, the values of sa_family.
AnyVersion == 0
IPV4 == 2
IPV6 == 10
Versions == {AnyVersion, IPV4, IPV6}

NullOpt == "std::nullopt"

\* getLocalAddress()
GetLocalAddress(version) ==
  CASE version = IPV4 -> "127.0.0.1"
    [] version = IPV6 -> "::1"
    [] OTHER -> "localhost"

\* getEmptyAddress()
GetEmptyAddress(version) ==
  CASE version = IPV4 -> "0.0.0.0"
    [] version = IPV6 -> "::"
    [] OTHER -> NullOpt

Names == Hostnames \cup {GetLocalAddress(version) : version \in Versions}

\* The names are those of single addresses: not the one that stands for all.
ASSUME ResolverAssumption ==
  /\ Hosts \cap {"", "0.0.0.0", "::", NullOpt} = {}
  /\ \A name \in Names, version \in Versions :
       /\ GetAddrInfo(name, version) \in Seq([family: {IPV4, IPV6}, host: Hosts])
       /\ \A i \in DOMAIN GetAddrInfo(name, version) :
            version \in {AnyVersion, GetAddrInfo(name, version)[i].family}

PortNumbers == 0..65535
SocketAddresses == [family: Versions, port: PortNumbers, host: Hosts \cup {""}]

\* kt::SocketAddress{}
ZeroAddress == [family |-> AnyVersion, port |-> 0, host |-> ""]

\* htons() on a little-endian machine; also ntohs().
Htons(n) == (n % 256) * 256 + n \div 256

\* address.ipv4.sin_port = htons(port): at the same place in an IPV6 address.
WithPort(address, port) == [address EXCEPT !.port = Htons(port)]

\* getInternetProtocolVersion()
GetInternetProtocolVersion(address) ==
  IF address.family \in {IPV4, IPV6} THEN address.family ELSE AnyVersion

\* getPortNumber()
PortAsStored(address) == address.port   \* mutant: no ntohs()
GetPortNumber(address) == Htons(address.port)

\* getAddress(): inet_ntop() writes nothing for a family it does not know.
GetAddress(address) ==
  LET version == GetInternetProtocolVersion(address)
  IN  IF version = AnyVersion \/ address.host \in {"", GetEmptyAddress(version)}
      THEN NullOpt ELSE address.host

\* The size of sockaddr_in and of sockaddr_in6, and getAddressLength().
SizeOf(family) == IF family = IPV4 THEN 16 ELSE 28
LengthAsIPV4(address) == SizeOf(IPV4)   \* mutant
GetAddressLength(address) == SizeOf(GetInternetProtocolVersion(address))

\* createUdpHints() and createTcpHints(): of the hints, the family.
CreateHints(version) == version

\* resolveToAddresses(): empty when the name does not resolve.
ResolveToAddresses(hostname, port, hints) ==
  LET hosts == GetAddrInfo(hostname, hints)
  IN  [i \in DOMAIN hosts |->
         WithPort([family |-> hosts[i].family, port |-> 0, host |-> hosts[i].host], port)]

\* What bind() and the server's constructor resolve, their localHostname being optional.
ResolveLocal(localHostname, port, version) ==
  ResolveToAddresses(
    IF localHostname = NullOpt THEN GetLocalAddress(version) ELSE localHostname,
    port, CreateHints(version))
=============================================================================
