----------------------------- MODULE MerkleDAG -----------------------------
(***************************************************************************)
(* The immutable graph of content-addressed nodes.  A node is identified   *)
(* by its cid; its links never change, so they are a constant.             *)
(***************************************************************************)
CONSTANTS
  Nodes,   \* cids of the user's nodes
  Links    \* Links[n]: the cids node n links to

ASSUME LinksAssumption == Links \in [Nodes -> SUBSET Nodes]

\* S holds every node that a node of S leads to through the links L
ClosedUnder(L, S) == \A m \in S : L[m] \subseteq S

\* What dag.EnumerateChildren visits when it starts at the roots and follows
\* L: the least set that holds them and is closed under L.
Reach(L, roots) ==
  {n \in Nodes : \A S \in SUBSET Nodes :
                    roots \subseteq S /\ ClosedUnder(L, S) => n \in S}

\* The graph below each node, the node included
Below == [c \in Nodes |-> Reach(Links, {c})]

BelowAll(roots) == UNION {Below[c] : c \in roots}

\* The links a walk can follow when only the nodes of "present" can be read
\* and it does not go below the nodes of "stop"
WalkLinks(present, stop) ==
  [n \in Nodes |-> IF n \in present \ stop THEN Links[n] ELSE {}]
=============================================================================
