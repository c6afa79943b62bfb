------------------------- MODULE DependencyTracking -------------------------
(***************************************************************************)
(* What the dirty cell tracker promises to its client: links and volatile  *)
(* cells change only by the calls that are made for it, and each query is  *)
(* answered, once, with exactly the dirty ranges, in order of dependency   *)
(* when that was asked for.  How the answer is found is not said.          *)
(***************************************************************************)
EXTENDS Dependencies

CONSTANTS
  Clients,      \* the <<src, dest>> pairs clients may add and remove
  Volatiles,    \* the ranges clients may declare volatile
  Requests      \* the queries clients may make

VARIABLES links, volatile, waiting, request, answer

vars == <<links, volatile, waiting, request, answer>>

NoRequest == [modified |-> {}, formulas |-> {}, sorted |-> FALSE]
NoAnswer  == [dirty |-> {}, order |-> <<>>]

Init ==
  /\ links = {} /\ volatile = {}
  /\ waiting = FALSE /\ request = NoRequest /\ answer = NoAnswer

Change ==
  /\ ~waiting
  /\ \/ /\ \E c \in Clients :
             links' \in {links \cup Links(c[1], c[2]), links \ Links(c[1], c[2])}
        /\ UNCHANGED volatile
     \/ /\ \E v \in Volatiles : volatile' \in {volatile \cup {v}, volatile \ {v}}
        /\ UNCHANGED links
  /\ UNCHANGED <<waiting, request, answer>>

Ask ==
  /\ ~waiting /\ waiting' = TRUE
  /\ request' \in Requests
  /\ answer' = NoAnswer
  /\ UNCHANGED <<links, volatile>>

\* The answer is the dirty set, listed in order if that was asked for.
IsAnswer(given) ==
  /\ IsDirtySet(links, Roots(links, volatile, request), given.dirty)
  /\ IF request.sorted THEN IsDirtyOrder(links, given.dirty, given.order)
                       ELSE given.order = <<>>

Reply ==
  /\ waiting /\ waiting' = FALSE
  /\ IsAnswer(answer')
  /\ UNCHANGED <<links, volatile, request>>

Forget ==
  /\ ~waiting
  /\ request' = NoRequest /\ answer' = NoAnswer
  /\ UNCHANGED <<links, volatile, waiting>>

Next == Change \/ Ask \/ Reply \/ Forget

\* Every query is answered.
Spec == Init /\ [][Next]_vars /\ (waiting ~> ~waiting)
=============================================================================
