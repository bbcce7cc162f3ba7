------------------------------- MODULE ExitGate ------------------------------
(***************************************************************************)
(* What the cooldown promises, without the token it guards.  Holders own   *)
(* shares; a holder leaves only through a gate that opens DELAY after the  *)
(* holder asked for it and closes WINDOW later.  Receiving shares may push *)
(* the opening back, at most to a full delay from now, and never brings it *)
(* forward, reopens a gate that has closed or opens one nobody asked for.  *)
(* A gate stamp of 0 means that the holder is not waiting.                 *)
(***************************************************************************)
EXTENDS Integers

CONSTANTS Holders, DELAY, WINDOW

VARIABLES clock, shares, stamp

gateVars == <<clock, shares, stamp>>

Closed(h) == clock > stamp[h] + DELAY + WINDOW

Open(h) == stamp[h] # 0 /\ clock > stamp[h] + DELAY /\ ~ Closed(h)

\* The stamps a holder may be left with after receiving shares.
Postponed(h) ==
    IF stamp[h] = 0 \/ Closed(h) THEN {0} ELSE stamp[h] .. clock

\* A holder with nothing left stops waiting.
Remaining(h) == IF shares'[h] = 0 THEN 0 ELSE stamp[h]

GateInit ==
    /\ clock \in Nat
    /\ shares = [h \in Holders |-> 0]
    /\ stamp = [h \in Holders |-> 0]

Ask(h) ==
    /\ shares[h] # 0
    /\ stamp' = [stamp EXCEPT ![h] = clock]
    /\ UNCHANGED <<clock, shares>>

Enter(h) ==
    /\ shares' = [shares EXCEPT ![h] = shares'[h]]
    /\ shares'[h] > shares[h]
    /\ \E s \in Postponed(h) : stamp' = [stamp EXCEPT ![h] = s]
    /\ UNCHANGED clock

Leave(h) ==
    /\ Open(h)
    /\ \E n \in 1 .. shares[h] : shares' = [shares EXCEPT ![h] = @ - n]
    /\ stamp' = [stamp EXCEPT ![h] = Remaining(h)]
    /\ UNCHANGED clock

Pass(g, h) ==
    /\ g # h
    /\ \E n \in 0 .. shares[g] :
            shares' = [shares EXCEPT ![g] = @ - n, ![h] = @ + n]
    /\ \E s \in Postponed(h) :
            stamp' = [stamp EXCEPT ![g] = Remaining(g), ![h] = s]
    /\ UNCHANGED clock

Wait ==
    /\ clock' > clock
    /\ UNCHANGED <<shares, stamp>>

GateNext ==
    \/ Wait
    \/ \E h \in Holders : Ask(h) \/ Enter(h) \/ Leave(h)
    \/ \E g, h \in Holders : Pass(g, h)

GateSpec == GateInit /\ [][GateNext]_gateVars

=============================================================================
