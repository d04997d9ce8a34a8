--------------------------- MODULE MCEmsDiscovery ---------------------------
(***************************************************************************)
(* EmsDiscovery for TLC: P, Q and R hear each other, R and S hear each     *)
(* other; S has not met R.  P makes a discovery that is passed on once and *)
(* asks for S, so that two floods of its overlap; S makes a discovery that *)
(* is not passed on, or sends a message to all.                            *)
(***************************************************************************)
EXTENDS EmsDiscovery

CONSTANTS P, Q, R, S,
          Deep, Shallow,        \* the discoveries of P and of S
          Ask,                  \* the request of P for S
          Hello                 \* the message of S

MCRange == [n \in Nodes |-> CASE n = R -> {P, Q, S} [] n = S -> {R}
                              [] OTHER -> {P, Q, R} \ {n}]
MCMet == [n \in Nodes |-> IF n = S THEN {} ELSE MCRange[n]]
MCOrigin == [r \in Requests |-> IF r \in {Shallow, Hello} THEN S ELSE P]
MCWanted == [r \in Requests |-> CASE r = Ask -> S [] r = Hello -> Nobody [] OTHER -> Everyone]
MCDepth == [r \in Requests |-> IF r = Deep THEN 1 ELSE 0]
MCTogether == {{Deep, Ask, Shallow}, {Deep, Hello}}
=============================================================================
