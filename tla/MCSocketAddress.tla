-------------------------- MODULE MCSocketAddress ---------------------------
(***************************************************************************)
(* getaddrinfo() on a machine where "localhost" has an address of either   *)
(* version, the IPV6 one first, as is usual; other names are numeric       *)
(* addresses or do not resolve.                                            *)
(***************************************************************************)
EXTENDS Sequences

Loopback4 == [family |-> 2, host |-> "127.0.0.1"]
Loopback6 == [family |-> 10, host |-> "::1"]

HostsOf(name) ==
  CASE name = "localhost" -> <<Loopback6, Loopback4>>
    [] name = "127.0.0.1" -> <<Loopback4>>
    [] name = "::1" -> <<Loopback6>>
    [] OTHER -> << >>

LocalResolver(name, version) ==
  SelectSeq(HostsOf(name), LAMBDA h : version \in {0, h.family})
=============================================================================
