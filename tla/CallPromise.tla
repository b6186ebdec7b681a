----------------------------- MODULE CallPromise -----------------------------
(***************************************************************************)
(* What a call of the iBMC client API promises the program that makes it:   *)
(* an effect on the server at most once; once the call has returned, the    *)
(* effect has happened; once it was refused, the effect never happens; and  *)
(* only a call that lost its connection may act after it has ended.         *)
(***************************************************************************)
EXTENDS Naturals, Sequences

CONSTANTS Clients, Ops, Effects, Outcomes
    \* Effects: the operations that change the server's resources

VARIABLES
    current,   \* [Clients -> the operation under way, or "none"]
    done,      \* [Clients -> the calls that ended, with their outcome]
    performed  \* the effects, in order: whose, and of which call

vars == <<current, done, performed>>

Init == /\ current = [c \in Clients |-> "none"]
        /\ done = [c \in Clients |-> <<>>]
        /\ performed = <<>>

Has(c, n) == \E i \in DOMAIN performed : performed[i] = [client |-> c, n |-> n]

Refusals == {"401", "412", "RecursionError"}

End(c, o, x) == done' = [done EXCEPT ![c] = Append(@, [op |-> o, outcome |-> x])]

Begin(c, o) ==
    /\ current[c] = "none"
    /\ current' = [current EXCEPT ![c] = o]
    /\ UNCHANGED <<done, performed>>

\* Calls decided locally: connect() when connected, disconnect() when not.
EndAtOnce(c, o, x) ==
    /\ current[c] = "none" /\ o \notin Effects
    /\ End(c, o, x)
    /\ UNCHANGED <<current, performed>>

\* The effect of the call under way, or of one that lost its connection.
Perform(c, n) ==
    /\ ~Has(c, n)
    /\ \/ n = Len(done[c]) + 1 /\ current[c] \in Effects
       \/ n \in DOMAIN done[c] /\ done[c][n].op \in Effects
                               /\ done[c][n].outcome = "ConnectionError"
    /\ performed' = Append(performed, [client |-> c, n |-> n])
    /\ UNCHANGED <<current, done>>

Return(c, x) ==
    LET o == current[c]
        n == Len(done[c]) + 1
    IN  /\ o # "none"
        /\ x = "ok" /\ o \in Effects => Has(c, n)
        /\ x \in Refusals => ~Has(c, n)
        /\ End(c, o, x)
        /\ current' = [current EXCEPT ![c] = "none"]
        /\ UNCHANGED performed

Next == \E c \in Clients :
          \/ \E o \in Ops : Begin(c, o) \/ \E x \in Outcomes : EndAtOnce(c, o, x)
          \/ \E n \in 1 .. Len(done[c]) + 1 : Perform(c, n)
          \/ \E x \in Outcomes : Return(c, x)

Spec == Init /\ [][Next]_vars
=============================================================================
