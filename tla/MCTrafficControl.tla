-------------------------- MODULE MCTrafficControl --------------------------
(* Instances of TrafficControl for TLC: limits of one or two devices, with  *)
(* every way their hashes can collide in small ranges, or wrap.             *)
EXTENDS TrafficControl

Cidr(i, d, values) == [id |-> i, dev |-> d, tx |-> i, rx |-> 10 + i, kind |-> "cidr",
                       values |-> values, prio |-> 0]
Prio(x, p)  == [x EXCEPT !.prio = p]
Whole(i, d)   == [Cidr(i, d, <<>>) EXCEPT !.kind = "any"]
Mark(i, d)  == [Cidr(i, d, <<"m">>) EXCEPT !.kind = "fwmark", !.rx = 0]

TwoDevices == <<"eth0", "wg0">>

\* Two clients, of two addresses each, whose filters may share priorities; one of them and
\* everyone, at the highest priorities; a mark and an address at one priority; one mark in
\* two limits; two devices.
Pool   == {Cidr(1, "wg0", <<"a", "b">>), Cidr(2, "wg0", <<"c", "d">>)}
Mixed  == {Prio(Cidr(1, "wg0", <<"a", "b">>), 6), Prio(Whole(2, "wg0"), 6)}
Marked == {Prio(Mark(1, "wg0"), 3), Cidr(2, "wg0", <<"a">>)}
Twice  == {Prio(Mark(1, "wg0"), 3), Prio(Mark(2, "wg0"), 3)}
Apart  == {Cidr(1, "eth0", <<"a">>), Cidr(2, "wg0", <<"a">>)}
Limits == {Pool, Mixed, Marked, Twice, Apart, {}}
=============================================================================
