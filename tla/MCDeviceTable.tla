---------------------------- MODULE MCDeviceTable ----------------------------
(* Small instances of DeviceTable: the texts of one to three answers.      *)
EXTENDS DeviceTable

(* Devices first .. last of a kind, all with the same data, or of a miner  *)
(* that names its hash rate differently.                                   *)
List(k, first, last) ==
    [a \in 1 .. last - first + 1 |->
        [kind |-> k, n |-> first + a - 1, data |-> "x", span |-> "5s", cut |-> FALSE]]

Slow(s)  == [a \in DOMAIN s |-> [s[a] EXCEPT !.span = "20s"]]
Other(s) == [a \in DOMAIN s |-> [s[a] EXCEPT !.data = "y"]]
Torn(s)  == [s EXCEPT ![Len(s)].cut = TRUE]

Pieces ==
    LET g == List("GPU", 0, 0)
        gg == List("GPU", 0, 1)
    IN  { <<>>, g, gg,
          List("GPU", 0, 11),                                (* GPU1, GPU10 *)
          g \o List("PGA", 0, 1) \o List("ASC", 0, 0),
          Slow(List("ASC", 0, 2)),
          g \o Other(gg), gg \o Other(g),            (* two lists in a piece *)
          Other(List("GPU", 0, 10)) \o gg,
          gg \o gg,                                     (* an answer repeated *)
          g \o List("GPU", 2, 2), List("GPU", 1, 1) \o Other(gg),      (* gaps *)
          List("GPU", 10, 11) \o Other(gg),
          Torn(gg), List("PGA", 0, 0) \o Torn(g),
          gg \o Slow(List("PGA", 0, 0)) }

SomeTexts ==
    {<<a>> : a \in Pieces} \union {<<<<>>, a>> : a \in Pieces}
        \union {<<<<>>, a, b>> : a \in Pieces, b \in Pieces}
=============================================================================
