--------------------------- MODULE FolderLockProofs ---------------------------
(***************************************************************************)
(* Theorems about the folder lock, for every set of invocations and files. *)
(* The argument: a name that is never unlinked while a command runs gives  *)
(* every command a handle of one and the same file, and the operating      *)
(* system gives the lock of one file to one handle at a time.              *)
(***************************************************************************)
EXTENDS FolderLock, TLAPS

(***************************************************************************)
(* A process that is gone (however it ended) disturbs nobody's handle and  *)
(* frees exactly the locks it held.                                        *)
(***************************************************************************)
LEMMA ReleaseKeepsInv ==
    ASSUME NEW p \in Procs, IInv, Release(p)
    PROVE  IInv'
<1> USE NoProcAssumption, NoFileAssumption
<1>1. TypeOK'
  BY DEF IInv, TypeOK, Release, Stages
<1>2. HandlesAreTheName'
  BY DEF IInv, TypeOK, HandlesAreTheName, Release
<1>3. OwnersHold'
  <2> SUFFICES ASSUME NEW q \in Procs, NEW i \in Inodes
               PROVE  owner'[i] = q <=> pc'[q] = "holding" /\ fd'[q] = i
    BY DEF OwnersHold
  <2>1. CASE q = p
    BY <2>1 DEF IInv, TypeOK, OwnersHold, Release
  <2>2. CASE q # p
    BY <2>2 DEF IInv, TypeOK, OwnersHold, Release
  <2> QED BY <2>1, <2>2
<1> QED BY <1>1, <1>2, <1>3 DEF IInv

\* Nobody holds or has opened anything at first.
LEMMA InitEstablishesInv == Init => IInv
BY NoProcAssumption, NoFileAssumption
   DEF Init, IInv, TypeOK, HandlesAreTheName, OwnersHold, Stages

(***************************************************************************)
(* Every step preserves the inductive invariant.                           *)
(***************************************************************************)
LEMMA NextKeepsInv == IInv /\ [Next]_vars => IInv'
<1> SUFFICES ASSUME IInv, [Next]_vars PROVE IInv'
  OBVIOUS
<1> USE NoProcAssumption, NoFileAssumption
<1> USE DEF IInv, TypeOK, HandlesAreTheName, OwnersHold, Stages
<1>1. CASE UNCHANGED vars
  BY <1>1 DEF vars
<1>2. ASSUME NEW p \in Procs, Invoke(p) PROVE IInv'
  BY <1>2 DEF Invoke
<1>3. ASSUME NEW p \in Procs, Create(p) PROVE IInv'
  BY <1>3 DEF Create, Unused
<1>4. ASSUME NEW p \in Procs, AlreadyExists(p) PROVE IInv'
  BY <1>4 DEF AlreadyExists
<1>5. ASSUME NEW p \in Procs, Open(p) PROVE IInv'
  BY <1>5 DEF Open
<1>6. ASSUME NEW p \in Procs, CheckLinks(p) PROVE IInv'
  BY <1>6 DEF CheckLinks
<1>7. ASSUME NEW p \in Procs, TryLock(p) PROVE IInv'
  BY <1>7 DEF TryLock
<1>8. ASSUME NEW p \in Procs, Refused(p) \/ Finish(p) \/ Kill(p) PROVE IInv'
  BY <1>8, ReleaseKeepsInv DEF Refused, Finish, Kill
<1>9. CASE PowerLoss
  BY <1>9 DEF PowerLoss
<1>10. CASE LinkElsewhere
  BY <1>10 DEF LinkElsewhere
<1>11. CASE RemoveName
  BY <1>11 DEF RemoveName
<1>12. ASSUME NEW i \in Inodes, UnlinkElsewhere(i) PROVE IInv'
  BY <1>12 DEF UnlinkElsewhere
<1> QED
  BY <1>1, <1>2, <1>3, <1>4, <1>5, <1>6, <1>7, <1>8, <1>9, <1>10, <1>11, <1>12
     DEF Next, Step, Environment

\* The inductive invariant holds of every reachable state.
THEOREM Invariance == Spec => []IInv
BY InitEstablishesInv, NextKeepsInv, PTL DEF Spec

(***************************************************************************)
(* The variables keep their types, whatever interleaving of invocations,   *)
(* kills and power losses.                                                 *)
(***************************************************************************)
THEOREM TypeCorrect == Spec => []TypeOK
<1>1. IInv => TypeOK
  BY DEF IInv
<1> QED BY <1>1, Invariance, PTL

\* Two holders would hold locks of the same file.
LEMMA InvExcludes == IInv => MutualExclusion
BY NoFileAssumption DEF IInv, TypeOK, HandlesAreTheName, OwnersHold,
   MutualExclusion, Holding

(***************************************************************************)
(* Root::lock admits at most one invocation to the folder (files.rs:88).   *)
(***************************************************************************)
THEOREM Exclusion == Spec => []MutualExclusion
BY InvExcludes, Invariance, PTL

(***************************************************************************)
(* The holder has the lock of the file the name denotes, and no lock       *)
(* outlives its invocation.                                                *)
(***************************************************************************)
THEOREM NoStaleLock == Spec => []HolderLocksTheName
<1>1. IInv => HolderLocksTheName
  BY NoProcAssumption, NoFileAssumption
     DEF IInv, TypeOK, HandlesAreTheName, OwnersHold, HolderLocksTheName, Holding
<1> QED BY <1>1, Invariance, PTL

(***************************************************************************)
(* The detailed lock implements Mutex: taking the lock is Enter, a holder  *)
(* that ends or dies is Leave, and every other step is invisible.          *)
(***************************************************************************)
LEMMA HoldersAlone == IInv => \A p \in Holding : Holding = {p}
<1> SUFFICES ASSUME IInv, NEW p \in Holding PROVE Holding = {p}
  OBVIOUS
<1>1. \A q \in Holding : q = p
  BY InvExcludes DEF MutualExclusion
<1> QED BY <1>1

\* Whoever lets its handle go leaves the critical section, if it was in it.
LEMMA ReleaseIsLeave ==
    ASSUME NEW p \in Procs, IInv, Release(p)
    PROVE  Abstract!Next \/ Holding' = Holding
<1>1. CASE pc[p] = "holding"
  <2>1. Holding = {p}
    BY <1>1, HoldersAlone DEF Holding
  <2>2. Holding' = {}
    BY <2>1 DEF Holding, Release, IInv, TypeOK
  <2> QED BY <2>1, <2>2 DEF Abstract!Next, Abstract!Leave
<1>2. CASE pc[p] # "holding"
  <2>1. \A q \in Procs : pc'[q] = "holding" <=> pc[q] = "holding"
    BY <1>2 DEF Release, IInv, TypeOK
  <2> QED BY <2>1 DEF Holding
<1> QED BY <1>1, <1>2

(***************************************************************************)
(* A step that moves p between stages outside the folder does not change   *)
(* the set of holders.                                                     *)
(***************************************************************************)
LEMMA OutsideStep ==
    ASSUME NEW p \in Procs, TypeOK, pc[p] # "holding",
           NEW s \in Stages \ {"holding"}, pc' = [pc EXCEPT ![p] = s]
    PROVE  Holding' = Holding
<1>1. \A q \in Procs : pc'[q] = "holding" <=> pc[q] = "holding"
  BY DEF TypeOK
<1> QED BY <1>1 DEF Holding

\* Every step of the protocol is one of Mutex, or stutters.
LEMMA StepRefines == IInv /\ [Next]_vars => [Abstract!Next]_Holding
<1> SUFFICES ASSUME IInv, [Next]_vars PROVE Abstract!Next \/ Holding' = Holding
  OBVIOUS
<1>1. TypeOK
  BY DEF IInv
<1>2. CASE UNCHANGED vars
  BY <1>2 DEF vars, Holding
<1>3. ASSUME NEW p \in Procs,
             Invoke(p) \/ Create(p) \/ AlreadyExists(p) \/ Open(p) \/ CheckLinks(p)
      PROVE  Holding' = Holding
  <2>1. pc[p] # "holding"
    BY <1>3 DEF Invoke, Create, AlreadyExists, Open, CheckLinks
  <2>2. PICK s \in Stages \ {"holding"} : pc' = [pc EXCEPT ![p] = s]
    BY <1>3 DEF Invoke, Create, AlreadyExists, Open, CheckLinks, Stages
  <2> QED BY <1>1, <2>1, <2>2, OutsideStep
<1>4. ASSUME NEW p \in Procs, TryLock(p) PROVE Abstract!Next
  <2>1. Holding = {}
    <3> SUFFICES ASSUME NEW q \in Holding PROVE FALSE
      OBVIOUS
    <3>1. fd[q] = entry /\ owner[entry] = q /\ fd[p] = entry /\ q \in Procs
      BY <1>4, NoFileAssumption
         DEF IInv, TypeOK, HandlesAreTheName, OwnersHold, Holding, TryLock
    <3> QED BY <3>1, <1>4, NoProcAssumption DEF TryLock
  <2>2. Holding' = {p}
    <3>1. \A q \in Procs : q # p => pc'[q] = pc[q]
      BY <1>4 DEF TryLock, IInv, TypeOK
    <3>2. pc'[p] = "holding"
      BY <1>4 DEF TryLock, IInv, TypeOK
    <3> QED BY <2>1, <3>1, <3>2 DEF Holding
  <2> QED BY <2>1, <2>2 DEF Abstract!Next, Abstract!Enter
<1>5. ASSUME NEW p \in Procs, Refused(p) \/ Finish(p) \/ Kill(p)
      PROVE  Abstract!Next \/ Holding' = Holding
  BY <1>5, ReleaseIsLeave DEF Refused, Finish, Kill
<1>6. CASE PowerLoss
  <2>1. Holding' = {}
    BY <1>6 DEF PowerLoss, Holding
  <2> QED BY <2>1 DEF Abstract!Next, Abstract!Leave
<1>7. CASE LinkElsewhere \/ RemoveName \/ \E i \in Inodes : UnlinkElsewhere(i)
  BY <1>7 DEF LinkElsewhere, RemoveName, UnlinkElsewhere, Holding
<1> QED
  BY <1>2, <1>3, <1>4, <1>5, <1>6, <1>7 DEF Next, Step, Environment

(***************************************************************************)
(* The refinement, for every set of invocations: Root::lock is a lock.     *)
(***************************************************************************)
THEOREM Refinement == Spec => ImplementsMutex
<1>1. Init => Abstract!Init
  BY DEF Init, Abstract!Init, Holding
<1> QED
  BY <1>1, StepRefines, Invariance, PTL DEF Spec, ImplementsMutex, Abstract!Spec

-----------------------------------------------------------------------------
\* The rank of every invocation falls with its own steps, and never rises
\* until it is invoked again.
RankOK == \A p \in Procs : Rank(p) \in 0..4
Descends ==
    \A p \in Procs : /\ Step(p) => Rank(p)' < Rank(p)
                     /\ pc[p] # "idle" => Rank(p)' <= Rank(p)

\* What others do leaves an invocation at its stage, or ends it.
LEMMA OthersKeepStage ==
    ASSUME IInv, NEW p \in Procs, ~Step(p), ~Invoke(p), [Next]_vars
    PROVE  pc'[p] \in {pc[p], "idle"}
<1>1. CASE UNCHANGED vars
  BY <1>1 DEF vars
<1>2. ASSUME NEW q \in Procs, q # p,
             Invoke(q) \/ Step(q) \/ Finish(q) \/ Kill(q)
      PROVE  pc'[p] = pc[p]
  BY <1>2 DEF Invoke, Step, Create, AlreadyExists, Open, CheckLinks, TryLock,
              Refused, Finish, Kill, Release, IInv, TypeOK
<1>3. ASSUME Finish(p) \/ Kill(p) PROVE pc'[p] = "idle"
  BY <1>3 DEF Finish, Kill, Release, IInv, TypeOK
<1>4. CASE Environment
  BY <1>4 DEF Environment, PowerLoss, LinkElsewhere, RemoveName, UnlinkElsewhere
<1> QED
  BY <1>1, <1>2, <1>3, <1>4 DEF Next

(***************************************************************************)
(* The safety half of EveryAttemptEnds: each call of Root::lock brings an  *)
(* invocation nearer to having the folder or to its end, whoever has the   *)
(* folder now, and nothing other invocations or the user do makes it try a *)
(* call again (files.rs:86-104).                                           *)
(***************************************************************************)
THEOREM EveryAttemptIsBounded == Spec => []RankOK /\ [][Descends]_vars
<1>1. IInv => RankOK
  BY DEF RankOK, IInv, TypeOK, Stages, Rank, StepsLeft
<1>2. ASSUME IInv, [Next]_vars PROVE Descends
  <2> SUFFICES ASSUME NEW p \in Procs
               PROVE  /\ Step(p) => Rank(p)' < Rank(p)
                      /\ pc[p] # "idle" => Rank(p)' <= Rank(p)
    BY DEF Descends
  <2>1. Rank(p) = StepsLeft[pc[p]] /\ Rank(p)' = StepsLeft[pc'[p]] /\ Rank(p) \in 0..4
    BY <1>1, <1>2 DEF RankOK, Rank, StepsLeft
  <2>2. ASSUME Step(p) PROVE Rank(p)' < Rank(p) /\ Rank(p)' <= Rank(p)
    <3>1. \/ pc[p] = "creating" /\ pc'[p] \in {"checking", "opening", "idle"}
          \/ pc[p] = "opening" /\ pc'[p] \in {"checking", "idle"}
          \/ pc[p] = "checking" /\ pc'[p] \in {"locking", "idle"}
          \/ pc[p] = "locking" /\ pc'[p] \in {"holding", "idle"}
      BY <1>2, <2>2
         DEF Step, Create, AlreadyExists, Open, CheckLinks, TryLock, Refused,
             Release, IInv, TypeOK
    <3>2. StepsLeft[pc'[p]] < StepsLeft[pc[p]] /\ StepsLeft[pc'[p]] <= StepsLeft[pc[p]]
      BY <3>1 DEF StepsLeft
    <3> QED
      BY <2>1, <3>2
  <2>3. ASSUME ~Step(p), pc[p] # "idle" PROVE Rank(p)' <= Rank(p)
    <3>1. pc'[p] \in {pc[p], "idle"}
      BY <1>2, <2>3, OthersKeepStage DEF Invoke
    <3>2. StepsLeft["idle"] = 0
      BY DEF StepsLeft
    <3> QED
      BY <2>1, <3>1, <3>2
  <2> QED
    BY <2>1, <2>2, <2>3
<1> QED
  BY <1>1, <1>2, Invariance, PTL DEF Spec
=============================================================================
