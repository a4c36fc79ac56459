----------------------------- MODULE HandleSpace -----------------------------
(***************************************************************************)
(* What the agent promises about the names it hands out: a name given to   *)
(* one party (a consumer for an object or an allocation, a provider for    *)
(* its platforms and devices) is a name nobody holds, and nobody else      *)
(* comes to hold it until its holder has let go of every reference.        *)
(* ObjectTable refines this module (ObjectTable!Names).                    *)
(***************************************************************************)
EXTENDS Naturals

CONSTANTS Parties,  \* consumers and providers
          Ids       \* the names

VARIABLE holds      \* holds[p][i]: references party p has to name i

HandlesInit == holds = [p \in Parties |-> [i \in Ids |-> 0]]

Unheld(i) == \A p \in Parties : holds[p][i] = 0

Grant(p, i) == /\ Unheld(i)
               /\ holds' = [holds EXCEPT ![p][i] = 1]

Dup(p, i) == /\ holds[p][i] > 0
             /\ holds' = [holds EXCEPT ![p][i] = @ + 1]

Drop(p, i) == /\ holds[p][i] > 0
              /\ holds' = [holds EXCEPT ![p][i] = @ - 1]

\* the party is gone and so are its references
Quit(p) == holds' = [holds EXCEPT ![p] = [i \in Ids |-> 0]]

HandlesNext == \E p \in Parties :
  \/ \E i \in Ids : Grant(p, i) \/ Dup(p, i) \/ Drop(p, i)
  \/ Quit(p)

HandlesSpec == HandlesInit /\ [][HandlesNext]_holds
=============================================================================
