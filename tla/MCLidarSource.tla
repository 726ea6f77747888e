--------------------------- MODULE MCLidarSource ---------------------------
EXTENDS LidarSource

\* A record of a plain capture.
Rec(port, size, begins) == [port |-> port, size |-> size, kind |-> port, begins |-> begins]

\* A datagram of a jumbo capture, and its fragments.
Gram(id, port, len, begins) == [id |-> id, udp |-> TRUE, port |-> port, len |-> len, kind |-> port, begins |-> begins]
Frag(g, off, len) == [gram |-> g, off |-> off, len |-> len, more |-> off + len < g.len]

A == Gram(7, "msop", 4, TRUE)
B == Gram(8, "msop", 6, FALSE)
C == Gram(9, "msop", 6, TRUE)
D == Gram(10, "difop", 2, FALSE)
O == Gram(11, "other", 2, FALSE)
Z == Gram(0, "msop", 2, TRUE)
V == Gram(0, "msop", 4, FALSE)
T == [Gram(12, "msop", 2, TRUE) EXCEPT !.udp = FALSE]

\* Whole; with B's middle fragment lost; in the wrong order; with id 0.
Whole == <<Frag(A, 0, 2), Frag(A, 2, 2), Frag(D, 0, 2), Frag(O, 0, 2), Frag(T, 0, 2),
           Frag(B, 0, 2), Frag(B, 2, 2), Frag(B, 4, 2), Frag(C, 0, 2), Frag(C, 2, 2), Frag(C, 4, 2)>>
Lost  == <<Frag(A, 0, 2), Frag(A, 2, 2), Frag(B, 0, 2), Frag(B, 4, 2), Frag(C, 0, 2), Frag(D, 0, 2),
           Frag(C, 2, 2), Frag(C, 4, 2)>>
Early == <<Frag(A, 2, 2), Frag(A, 0, 2), Frag(C, 0, 2), Frag(C, 4, 2), Frag(C, 2, 2), Frag(B, 0, 2),
           Frag(A, 0, 2), Frag(A, 2, 2), Frag(B, 2, 2)>>
Zero  == <<Frag(Z, 0, 2), Frag(Z, 0, 2), Frag(V, 2, 2), Frag(A, 0, 2), Frag(Z, 0, 2), Frag(A, 2, 2)>>

Plain == <<Rec("msop", "fits", FALSE), Rec("difop", "fits", FALSE), Rec("msop", "long", FALSE),
           Rec("imu", "fits", FALSE), Rec("msop", "fits", TRUE), Rec("msop", "short", TRUE),
           Rec("msop", "fits", FALSE), Rec("other", "fits", FALSE), Rec("msop", "fits", TRUE),
           Rec("msop", "fits", TRUE), Rec("msop", "fits", TRUE)>>
Topic == <<Rec("msop", "fits", FALSE), Rec("difop", "fits", FALSE), Rec("msop", "fits", TRUE),
           Rec("msop", "fits", TRUE)>>
Turns == <<Rec("msop", "fits", TRUE), Rec("msop", "fits", FALSE)>>

Setup(input, records, repeat, dense, byRows) ==
  [input |-> input, records |-> records, repeat |-> repeat, dense |-> dense, byRows |-> byRows,
   relay |-> byRows, difop |-> TRUE, imu |-> dense]

MCSetups ==
  {Setup("pcap", Plain, FALSE, FALSE, TRUE), Setup("pcap", Turns, TRUE, TRUE, TRUE)}
  \cup {Setup("pcapJumbo", r, FALSE, FALSE, FALSE) : r \in {Whole, Lost, Early, Zero}}
  \cup {Setup("epoll", <<>>, FALSE, d, FALSE) : d \in BOOLEAN}
  \cup {Setup("raw", Topic, FALSE, FALSE, TRUE)}
=============================================================================
