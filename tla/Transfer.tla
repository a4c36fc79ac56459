------------------------------ MODULE Transfer ------------------------------
(***************************************************************************)
(* What a stream promises to the one who receives it: for every transfer   *)
(* that is announced the bytes of that transfer arrive, each once and in   *)
(* order, and it is over when all have come.  Once a party is lost nothing *)
(* is promised.  Stream refines this module (Stream!IsTransfer).           *)
(***************************************************************************)
EXTENDS Naturals, Sequences

VARIABLES serial,  \* the number of the transfer
          size,    \* how many bytes it has
          buffer,  \* what has arrived: bytes <<serial, position>>
          open,    \* is it under way?
          lost     \* has a party disappeared?

transferVars == <<serial, size, buffer, open, lost>>

TransferInit == serial = 0 /\ size = 0 /\ buffer = <<>> /\ ~open /\ ~lost

Announce == /\ ~open /\ open'
            /\ serial' = serial + 1
            /\ size' \in Nat
            /\ buffer' = <<>>
            /\ UNCHANGED lost

\* the next bytes arrive
Arrive == /\ open
          /\ \E n \in 1..(size - Len(buffer)) :
               buffer' = buffer \o [i \in 1..n |-> <<serial, Len(buffer) + i>>]
          /\ UNCHANGED <<serial, size, open, lost>>

Complete == /\ open /\ ~open'
            /\ Len(buffer) = size
            /\ UNCHANGED <<serial, size, buffer, lost>>

Lose == lost'

TransferNext == Announce \/ Arrive \/ Complete \/ Lose

TransferSpec == TransferInit /\ [][TransferNext]_transferVars
=============================================================================
