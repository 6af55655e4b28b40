--------------------------- MODULE RequestService ---------------------------
(***************************************************************************)
(* What a sequential server promises to one that asks: requests are served *)
(* one at a time, in the order in which they were asked; each one gets one *)
(* reply, and the ones that call for none get none.                        *)
(***************************************************************************)
EXTENDS Naturals, Sequences

CONSTANTS
    Requests,
    Silent,     \* the requests that get no reply
    Verdicts    \* what a reply may say

VARIABLES
    asked,
    served,     \* how many of them were served
    replies

serviceVars == <<asked, served, replies>>

ServiceInit == asked = <<>> /\ served = 0 /\ replies = <<>>

Ask ==
    /\ \E r \in Requests : asked' = Append(asked, r)
    /\ UNCHANGED <<served, replies>>

Serve ==
    /\ served < Len(asked)
    /\ served' = served + 1
    /\ \/ /\ asked[served + 1] \in Silent
          /\ UNCHANGED replies
       \/ /\ asked[served + 1] \notin Silent
          /\ \E o \in Verdicts : replies' = Append(replies, [n |-> served + 1, outcome |-> o])
    /\ UNCHANGED asked

ServiceNext == Ask \/ Serve

ServiceSpec == ServiceInit /\ [][ServiceNext]_serviceVars
=============================================================================
