------------------------------ MODULE DmAuthority ------------------------------
(***************************************************************************)
(* What the direct-message flow promises: a message is sent under an       *)
(* authority.  A person's approval grants one for a fixed text; a claim    *)
(* arms it; an armed authority delivers one copy at most and is spent; only *)
(* a reconciliation grants it again.                                       *)
(***************************************************************************)
EXTENDS Naturals

CONSTANTS Opps, Texts, NoText

VARIABLES
  auth,   (* "none", "granted", "armed" or "spent", per opportunity          *)
  words,  (* the text that was approved                                      *)
  copies  (* messages delivered                                              *)

avars == <<auth, words, copies>>

AInit ==
  /\ auth = [o \in Opps |-> "none"]
  /\ words = [o \in Opps |-> NoText]
  /\ copies = [o \in Opps |-> 0]

Grant(o, t) ==
  /\ auth[o] = "none"
  /\ auth' = [auth EXCEPT ![o] = "granted"]
  /\ words' = [words EXCEPT ![o] = t]
  /\ UNCHANGED copies

Arm(o) ==
  /\ auth[o] = "granted"
  /\ auth' = [auth EXCEPT ![o] = "armed"]
  /\ UNCHANGED <<words, copies>>

Deliver(o) ==
  /\ auth[o] = "armed"
  /\ auth' = [auth EXCEPT ![o] = "spent"]
  /\ copies' = [copies EXCEPT ![o] = @ + 1]
  /\ UNCHANGED words

\* The authority ends without a delivery: given up, expired or crashed.
Lapse(o) ==
  /\ auth[o] \in {"granted", "armed"}
  /\ auth' = [auth EXCEPT ![o] = "spent"]
  /\ UNCHANGED <<words, copies>>

Renew(o) ==
  /\ auth[o] = "spent"
  /\ auth' = [auth EXCEPT ![o] = "granted"]
  /\ UNCHANGED <<words, copies>>

ANext ==
  \E o \in Opps :
    \/ \E t \in Texts : Grant(o, t)
    \/ Arm(o) \/ Deliver(o) \/ Lapse(o) \/ Renew(o)

ASpec == AInit /\ [][ANext]_avars
=============================================================================
