---------------------------- MODULE EcmpSelector ----------------------------
(***************************************************************************)
(* What the netlink half of the daemon promises about the two external      *)
(* ECMP groups, whatever the kernel sends, whichever writes fail and        *)
(* whatever the undefined loop index of process_route_msg happens to be:    *)
(*                                                                         *)
(*  - a pipe that forwards is never programmed with an empty group;         *)
(*  - a group only ever selects gateways of its own pipe which the kernel   *)
(*    has named as the next hop of a route.                                 *)
(*                                                                         *)
(* It does not promise that the group follows the current route: see the    *)
(* findings of SwitchlinkRoute.                                            *)
(***************************************************************************)
CONSTANTS
    Gateway,    \* the gateways of the configured hostifs
    Pipe,       \* the external pipes
    PipeOf      \* PipeOf[g]: the pipe of the port behind which g is

VARIABLES
    announced,  \* gateways named as next hop so far
    active      \* active[p]: members of the group of pipe p that are enabled

selectorVars == <<announced, active>>

GatewaysOn(p) == {g \in Gateway : PipeOf[g] = p}

SelectorInit ==
    /\ announced = {}
    /\ active = [p \in Pipe |-> {}]

(* The kernel names next hops. *)
Announce(S) ==
    /\ announced' = announced \cup S
    /\ UNCHANGED active

(* The groups of the pipes in P are programmed with non-empty sets. *)
Program(P, f) ==
    /\ \A p \in P : f[p] # {} /\ f[p] \subseteq GatewaysOn(p) \cap announced
    /\ active' = [p \in Pipe |-> IF p \in P THEN f[p] ELSE active[p]]
    /\ UNCHANGED announced

SelectorNext ==
    \/ \E S \in SUBSET Gateway : Announce(S)
    \/ \E P \in SUBSET Pipe, f \in [Pipe -> SUBSET Gateway] : Program(P, f)

SelectorSpec == SelectorInit /\ [][SelectorNext]_selectorVars
=============================================================================
