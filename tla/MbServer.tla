------------------------------ MODULE MbServer ------------------------------
(***************************************************************************)
(* What the Modbus slave promises the bus: a request it has heard is       *)
(* carried out once, and then, unless it was broadcast, answered once, and *)
(* all that before the next request is heard.  When noise has come before  *)
(* all of it is done, the slave promises less: it may still carry out the  *)
(* request, or garbage, but once only, and it sends nothing.               *)
(***************************************************************************)
EXTENDS Naturals, Sequences

CONSTANT NumIds    \* requests are numbered 1..NumIds, cyclically

VARIABLES
  req,     \* the last request heard, 0 before the first
  cast,    \* it was broadcast
  served,  \* what has been done about it
  spoilt   \* noise has come in between

vars == <<req, cast, served, spoilt>>

Did(what, r) == [what |-> what, id |-> r]

(* All that is to be done about request r.                                 *)
Due(r, c) == IF r = 0 THEN <<>>
             ELSE IF c THEN <<Did("execute", r)>>
             ELSE <<Did("execute", r), Did("answer", r)>>

Init == req = 0 /\ cast = FALSE /\ served = <<>> /\ spoilt = FALSE

Hear ==
  /\ served = Due(req, cast) \/ spoilt
  /\ req' \in 1..NumIds \ {req}
  /\ cast' \in BOOLEAN
  /\ served' = <<>> /\ spoilt' = FALSE

Serve ==
  /\ ~spoilt
  /\ Len(served) < Len(Due(req, cast))
  /\ served' = Append(served, Due(req, cast)[Len(served) + 1])
  /\ UNCHANGED <<req, cast, spoilt>>

(* Noise comes while something is still to be done,                        *)
Spoil ==
  /\ ~spoilt /\ served # Due(req, cast)
  /\ spoilt' = TRUE
  /\ UNCHANGED <<req, cast, served>>

(* and what was received, or what the noise has made of it, is carried out.*)
Grope ==
  /\ spoilt /\ served = <<>>
  /\ \E r \in {0, req} : served' = <<Did("execute", r)>>
  /\ UNCHANGED <<req, cast, spoilt>>

Next == Hear \/ Serve \/ Spoil \/ Grope

Spec == Init /\ [][Next]_vars /\ WF_vars(Serve)
=============================================================================
