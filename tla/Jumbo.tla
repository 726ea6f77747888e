------------------------------- MODULE Jumbo -------------------------------
(***************************************************************************)
(* driver/input/jumbo.hpp: the IP fragments of a capture file put together *)
(* again, one datagram at a time.  Offsets count units of eight octets,    *)
(* and the first unit of a datagram is its UDP header.                     *)
(***************************************************************************)
EXTENDS Integers, Sequences

NewJumbo == [ip_id |-> 0, buf_off |-> 0, buf |-> <<>>]

\* What a fragment carries of its datagram.
IpData(fr) == [i \in 1..fr.len |-> [gram |-> fr.gram, at |-> fr.off + i - 1]]

DstPort(buf) == buf[1].gram.port

NoPacket(j)       == [jumbo |-> j, new |-> FALSE]
NewPacket(j, buf) == [jumbo |-> j, new |-> TRUE, port |-> DstPort(buf), data |-> Tail(buf)]

\* Mutation: the place of a fragment is not looked at.
ContinueAnywhere(j, fr) ==
  LET k == [j EXCEPT !.buf = @ \o IpData(fr), !.buf_off = @ + fr.len]
  IN IF fr.more THEN NoPacket(k) ELSE NewPacket([k EXCEPT !.ip_id = 0], k.buf)

\* The next fragment of the datagram under way; anything else with its id is
\* dropped.  A completed datagram leaves its offset behind.
Continue(j, fr) ==
  LET k == [j EXCEPT !.buf = @ \o IpData(fr), !.buf_off = @ + fr.len]
  IN IF fr.off # j.buf_off THEN NoPacket(j)
     ELSE IF fr.more THEN NoPacket(k)
     ELSE NewPacket([k EXCEPT !.ip_id = 0], k.buf)

\* A first fragment abandons the datagram under way; a whole datagram does not
\* touch it.
Begin(j, fr) ==
  IF fr.off # 0 THEN NoPacket(j)
  ELSE IF fr.more
         THEN NoPacket([ip_id |-> fr.gram.id, buf_off |-> fr.len, buf |-> IpData(fr)])
         ELSE NewPacket(j, IpData(fr))

NewFragment(j, fr) ==
  IF ~fr.gram.udp THEN NoPacket(j)
  ELSE IF fr.gram.id = j.ip_id THEN Continue(j, fr)
  ELSE Begin(j, fr)
=============================================================================
