-------------------------- MODULE StrandQueueProofs --------------------------
(***************************************************************************)
(* What follows from the promise of the queue alone: a strand is performed *)
(* one job at a time.                                                      *)
(***************************************************************************)
EXTENDS StrandQueue, TLAPS

\* A running job is still queued, and is the head of its strand.
RunningAreHeads == \A i \in running : IsHead(i)

Inv == TypeOK /\ RunningAreHeads

\* The invariant holds at the start and is kept by every step.
LEMMA Inductive == ASSUME Ids \subseteq Nat PROVE Spec => []Inv
<1>1. Init => Inv
      BY DEF Init, Inv, TypeOK, RunningAreHeads
<1>2. Inv /\ [Next]_vars => Inv'
  <2> SUFFICES ASSUME Inv, [Next]_vars PROVE Inv'
      OBVIOUS
  <2> USE DEF Inv, TypeOK, RunningAreHeads, IsHead
  <2>1. ASSUME NEW i \in Ids, NEW s \in Strands \cup {NoStrand}, Enqueue(i, s)
        PROVE  Inv'
    <3>1. \A k \in queued : k # i /\ k <= i
          BY <2>1 DEF Enqueue
    <3>2. TypeOK'
          BY <2>1 DEF Enqueue
    <3>3. ASSUME NEW j \in running PROVE IsHead(j)'
          BY <2>1, <3>1 DEF Enqueue
    <3> QED BY <2>1, <3>2, <3>3 DEF Enqueue
  <2>2. ASSUME NEW i \in Ids, Start(i)
        PROVE  Inv'
        BY <2>2 DEF Start
  <2>3. ASSUME NEW i \in Ids, Stop(i)
        PROVE  Inv'
        BY <2>3 DEF Stop
  <2>4. ASSUME NEW i \in Ids, Remove(i)
        PROVE  Inv'
        BY <2>4 DEF Remove
  <2>5. CASE UNCHANGED vars
        BY <2>5 DEF vars
  <2> QED BY <2>1, <2>2, <2>3, <2>4, <2>5 DEF Next
<1> QED BY <1>1, <1>2, PTL DEF Spec

\* Whoever implements StrandQueue performs at most one job of a strand at a
\* time: starting at the head and leaving a running job in place are enough.
THEOREM StrandsAreSerial == ASSUME Ids \subseteq Nat PROVE Spec => []OneAtATime
<1>1. Inv => OneAtATime
      BY DEF Inv, TypeOK, RunningAreHeads, IsHead, OneAtATime
<1> QED BY <1>1, Inductive, PTL
=============================================================================
