----------------------------- MODULE MCIgwPipeline -----------------------------
(* Two clusters; a1 and a2 in A, b1 and b2 in B.  e1 and e2 are IPv4, e3 is  *)
(* IPv6, e1 and e3 end in a 1.                                              *)
EXTENDS IgwPipeline

CONSTANTS a1, a2, b1, b2, A, B, e1, e2, e3

MCCluster == [g \in Gateways |-> IF g \in {a1, a2} THEN A ELSE B]
MCCrossed == [c \in {A, B} |-> IF c = A THEN B ELSE A]
MCToB     == [c \in {A, B} |-> B]
MCDlOwner == [c \in {A, B} |-> [e \in Eips |-> IF c = A THEN a1 ELSE IF e = e2 THEN b2 ELSE b1]]

Entry(within, between, shared, path) ==
    [known |-> TRUE, within |-> within, between |-> between, shared |-> shared, path |-> path]

(* What a controller may get wrong: gateways that disagree on an eip.       *)
MCEntries ==
    {Entry(w, b, NoShared, "ok") : w \in BOOLEAN, b \in BOOLEAN}
    \union {Entry(TRUE, FALSE, e1, "ok")}
    \union {Entry(FALSE, FALSE, NoShared, path) : path \in {"noVm", "noTunnel"}}
    \union {[Entry(FALSE, FALSE, NoShared, "ok") EXCEPT !.known = FALSE]}
MCAnyTables == {[g \in Gateways |-> [e \in Eips |-> f[g]]] : f \in [Gateways -> MCEntries]}

(* What it should write: e1 and e2 share a bandwidth, e3 has its own; both  *)
(* are kept in cluster B, and spread over its gateways.                    *)
MCAgreed(g, e) == Entry(TRUE, MCCluster[g] = A, IF e = e3 THEN NoShared ELSE e2, "ok")
MCAgreedEntries == {MCAgreed(g, e) : g \in Gateways, e \in Eips}
MCAgreedTables == {[g \in Gateways |-> [e \in Eips |-> MCAgreed(g, e)]]}

(* These tables are agreed on, as OneMeterCorrect asks.                     *)
MCShared == [e \in {e1, e2, e3} |-> IF e = e3 THEN NoShared ELSE e2]
MCHome   == [e \in {e1, e2, e3} |-> B]
ASSUME AgreedAssumption == \A t \in MCAgreedTables : Agree(t, MCShared, MCHome)
====
