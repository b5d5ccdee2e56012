----------------------------- MODULE NetPosition -----------------------------
(***************************************************************************)
(* What position tracking promises: the net position of a symbol, positive *)
(* long and negative short, moves by exactly the signed quantity of every  *)
(* fill that is acknowledged.  A fill that is answered with an error may   *)
(* leave the net position where it was, apply it, or stop half way, at     *)
(* flat, but which of these depends on what the fill was to do.            *)
(***************************************************************************)
EXTENDS Integers

CONSTANTS Symbols, MaxFill

VARIABLES
    active,   \* a session is set
    net,      \* net position per symbol
    result    \* the answer to the last fill

Signed == -MaxFill .. MaxFill

Init ==
    /\ active = FALSE
    /\ net = [s \in Symbols |-> 0]
    /\ result = "none"

Crosses(n, q) == \/ n > 0 /\ n + q <= 0
                 \/ n < 0 /\ n + q >= 0

\* From flat the entry is made before it is stored.  A fill that reaches flat
\* stops there or goes through.  Any other fill is undone.
AfterError(n, q) ==
    IF n = 0 THEN {q} ELSE IF Crosses(n, q) THEN {0, n + q} ELSE {n}

Acknowledge(s, q) ==
    /\ active
    /\ net' = [net EXCEPT ![s] = @ + q]
    /\ result' = "ok"
    /\ UNCHANGED active

Fail(s, q) ==
    /\ active
    /\ \E n \in AfterError(net[s], q) : net' = [net EXCEPT ![s] = n]
    /\ result' = "error"
    /\ UNCHANGED active

Refuse == ~ active /\ result' = "error" /\ UNCHANGED <<active, net>>

\* Another session, or none: only none says what the positions are.
Switch ==
    /\ active' \in BOOLEAN
    /\ net' \in [Symbols -> Int]
    /\ ~ active' => net' = [s \in Symbols |-> 0]
    /\ result' = "none"

Next ==
    \/ \E s \in Symbols, q \in Signed \ {0} : Acknowledge(s, q) \/ Fail(s, q)
    \/ Refuse
    \/ Switch

Spec == Init /\ [][Next]_<<active, net, result>>

=============================================================================
