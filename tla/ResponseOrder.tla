---------------------------- MODULE ResponseOrder ----------------------------
(***************************************************************************)
(* What a pipeline ledger promises to the client it sits in front of,      *)
(* stated without grammars, COPY or errors: requests are numbered as they  *)
(* are admitted, every response goes to the oldest request still waiting,  *)
(* and a request may be excused from being answered (it failed with the    *)
(* cycle it belongs to, or it never has a response), but the oldest        *)
(* waiting request is only ever released by its own final response.        *)
(***************************************************************************)
EXTENDS Integers

VARIABLES waiting,   \* the numbers of the requests that still await a response
          next,      \* the number of the next request
          last       \* the request the latest response went to, or -1

vars == <<waiting, next, last>>

Oldest(S) == CHOOSE i \in S : \A j \in S : i <= j

Init == waiting = {} /\ next = 0 /\ last = -1

(* A request arrives; it joins the waiting ones unless it needs no response. *)
Admit ==
  /\ next' = next + 1
  /\ waiting' \in SUBSET (waiting \cup {next})
  /\ waiting # {} => Oldest(waiting) \in waiting'
  /\ UNCHANGED last

(* The oldest waiting request receives a response that is not its last. *)
Respond ==
  /\ waiting # {}
  /\ last' = Oldest(waiting)
  /\ UNCHANGED <<waiting, next>>

(* The oldest waiting request is released; younger ones may fail with it. *)
Complete ==
  /\ waiting # {}
  /\ last' = Oldest(waiting)
  /\ waiting' \in SUBSET (waiting \ {Oldest(waiting)})
  /\ UNCHANGED next

(* Requests behind the oldest are excused before their turn. *)
Excuse ==
  /\ waiting # {}
  /\ waiting' \in SUBSET waiting
  /\ Oldest(waiting) \in waiting'
  /\ UNCHANGED <<next, last>>

Next == Admit \/ Respond \/ Complete \/ Excuse

Spec == Init /\ [][Next]_vars
=============================================================================
