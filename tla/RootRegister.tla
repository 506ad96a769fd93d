---------------------------- MODULE RootRegister ----------------------------
(***************************************************************************)
(* What the control block promises its readers, with every mechanism taken *)
(* away: one register holding the root published last, and for each reader *)
(* the root it was last answered.  A publish replaces the register in one  *)
(* step, by another root or by none, and a read copies it in one step.  A  *)
(* handle that is opened again has read nothing.  ControlBlock implements  *)
(* this specification.                                                     *)
(***************************************************************************)
CONSTANTS Readers,  \* the handles that read
          Roots,    \* the roots that may be published
          NoRoot    \* the zero sentinel: nothing published

VARIABLES register, \* the root published last
          view      \* view[r]: the root reader r was last answered

regVars == <<register, view>>

Init == /\ register = NoRoot
        /\ view = [r \in Readers |-> NoRoot]

Publish(v) == /\ register' = v
              /\ UNCHANGED view

Read(r) == /\ view' = [view EXCEPT ![r] = register]
           /\ UNCHANGED register

Reopen(r) == /\ view' = [view EXCEPT ![r] = NoRoot]
             /\ UNCHANGED register

Next == \/ \E v \in Roots \cup {NoRoot} : Publish(v)
        \/ \E r \in Readers : Read(r) \/ Reopen(r)

Spec == Init /\ [][Next]_regVars
=============================================================================
