------------------------------ MODULE MCBundles ------------------------------
(* An instance of Bundles for TLC: one client, one remote address, a list   *)
(* of both, one form of each kind or more, ids that do not grow with the    *)
(* attempts.                                                                *)
EXTENDS Bundles

Egress  == [kind |-> "egress", src |-> "a", out |-> "gre0", forward |-> FALSE, nat |-> TRUE]
Return  == [kind |-> "return", src |-> "a", out |-> "gre0", to |-> "x",
            established |-> TRUE, rp |-> FALSE]
Masq    == [kind |-> "masq", src |-> Any, srcList |-> "vips", out |-> "gre0", full |-> FALSE]
Gateway == [kind |-> "gateway", src |-> Any, in |-> Any, out |-> Any]
Config  == [kind |-> "config", forward |-> FALSE, forward6 |-> TRUE, rp |-> "2", dev |-> Any,
            apply |-> TRUE]

Access(do, ports) ==
  [kind |-> "access", do |-> do, chain |-> "forward", src |-> Any, dst |-> Any, srcList |-> Any,
   dstList |-> Any, in |-> Any, out |-> Any, ports |-> ports]
Block    == [Access("block", <<{"ssh"}, {"web"}>>) EXCEPT !.src = "a", !.dstList = "vips", !.out = "wan0"]
Allow    == Access("allow", <<{"web"}>>)
\* Nothing is applied any more once it is stored.
Nobody  == [Access("allow", <<Services>>) EXCEPT !.srcList = "none"]
MCForms == {Egress, Return, Masq, Gateway, Config, Block, Allow, Nobody}

MCLists == [l \in ListNames |-> IF l = "none" THEN {} ELSE Addrs]

\* Ids of later attempts may come before those of earlier ones.
Slots == (1..MaxAttempts) \X (1..MaxCalls)
Turning == [s \in Slots |-> ((s[1] + 1) % 3) * 10 + s[2]]
MCNumberings == {Turning}
=============================================================================
