------------------------------- MODULE Council ------------------------------
(***************************************************************************)
(* What a multisig promises to its owners, without accounts, indices and   *)
(* sequence numbers.  The members of a council propose motions and approve *)
(* them.  A motion is enacted at most once, and only with the approval of  *)
(* as many present members as the council's quorum; when the membership is *)
(* set anew, the motions that are open are void.                           *)
(***************************************************************************)
EXTENDS Naturals, FiniteSets

CONSTANTS Councils, Motions

VARIABLES
  council,   \* members and quorum of each council that was founded
  motion     \* council, state and approvers of each motion

vars == <<council, motion>>

Init ==
  /\ council = [m \in {} |-> 0]
  /\ motion = [t \in {} |-> 0]

Sound(c) == c.quorum \in 1 .. Cardinality(c.members)

Found(m) ==
  /\ m \notin DOMAIN council
  /\ DOMAIN council' = DOMAIN council \cup {m}
  /\ \A x \in DOMAIN council : council'[x] = council[x]
  /\ Sound(council'[m])
  /\ UNCHANGED motion

Propose(t) ==
  /\ t \notin DOMAIN motion
  /\ DOMAIN motion' = DOMAIN motion \cup {t}
  /\ \A x \in DOMAIN motion : motion'[x] = motion[x]
  /\ motion'[t].council \in DOMAIN council
  /\ \E p \in council[motion'[t].council].members :
       motion'[t] = [council |-> motion'[t].council, state |-> "open", approvers |-> {p}]
  /\ UNCHANGED council

Approve(t) ==
  /\ t \in DOMAIN motion /\ motion[t].state = "open"
  /\ \E p \in council[motion[t].council].members :
       motion' = [motion EXCEPT ![t].approvers = @ \cup {p}]
  /\ UNCHANGED council

Carried(t) ==
  /\ motion[t].state = "open"
  /\ Cardinality(motion[t].approvers) >= council[motion[t].council].quorum

Close(m, state) == [council |-> m.council, state |-> state, approvers |-> {}]

(* The enacted motions may change the quorum of one of their councils, or  *)
(* reorganise it.                                                          *)
Enact(T) ==
  /\ T # {} /\ \A t \in T : Carried(t)
  /\ \/ /\ \/ UNCHANGED council
           \/ \E m \in {motion[t].council : t \in T} :
                /\ council' = [council EXCEPT ![m].quorum = council'[m].quorum]
                /\ Sound(council'[m])
        /\ motion' = [t \in DOMAIN motion |->
             IF t \in T THEN Close(motion[t], "enacted") ELSE motion[t]]
     \/ \E m \in {motion[t].council : t \in T} :
          /\ council' = [council EXCEPT ![m] = council'[m]]
          /\ Sound(council'[m])
          /\ motion' = [t \in DOMAIN motion |->
               IF t \in T THEN Close(motion[t], "enacted")
               ELSE IF motion[t].council = m /\ motion[t].state = "open"
                 THEN Close(motion[t], "void") ELSE motion[t]]

Next ==
  \/ \E m \in Councils : Found(m)
  \/ \E t \in Motions : Propose(t) \/ Approve(t)
  \/ \E T \in SUBSET DOMAIN motion : Enact(T)

Spec == Init /\ [][Next]_vars
=============================================================================
