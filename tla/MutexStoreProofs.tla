-------------------------- MODULE MutexStoreProofs --------------------------
(***************************************************************************)
(* Proofs about mutex_store for any numbers of stores and customers and    *)
(* any stock, demand and draws: no store and no demand goes below zero, no *)
(* update is lost, and a customer that leaves has exactly what it wanted.  *)
(***************************************************************************)
EXTENDS MutexStore, TLAPS

Inside == {"read", "write", "unlock"}

\* A thread inside a critical section owns the mutex of its store.
Owns == \A t \in Threads : pc[t] \in Inside => st_mtx[st_id[t]] = t

\* What a thread has read of its store is still there when it writes.
Fresh == \A t \in Threads : pc[t] = "write" => tmp[t] = st_val[st_id[t]]

\* The amounts on their way: never negative, within the demand, and within the
\* stock once they were clamped under the mutex.
Amounts ==
  /\ \A t \in Threads : stf_num[t] >= 0
  /\ \A c \in Customers :
       /\ pc[c] \in Inside \cup {"lock"} => stf_num[c] <= cst_val[c]
       /\ pc[c] = "write" => stf_num[c] <= tmp[c]

\* Drawn plus still wanted is what was wanted, except between the two updates.
Balance ==
  \A c \in Customers :
    /\ pc[c] = "unlock" => sold[c] + cst_val[c] - stf_num[c] = demand[c]
    /\ pc[c] # "unlock" => sold[c] + cst_val[c] = demand[c]
    /\ pc[c] = "done" => cst_val[c] <= 0

IInv == TypeOK /\ Owns /\ Fresh /\ NonNegative /\ Amounts /\ Balance /\ NoLostUpdate

\* The inductive invariant holds when main has created the threads.
LEMMA InvInit == Init => IInv
<1> SUFFICES ASSUME Init PROVE IInv
  OBVIOUS
<1>1. (CHOOSE s \in Stores : TRUE) \in Stores
  BY StoreAssumption
<1>a. st_val \in [Stores -> Nat] /\ demand \in [Customers -> Nat]
  BY AmountAssumption DEF Init
<1>2. TypeOK
  <2>1. /\ st_val \in [Stores -> Int] /\ ledger \in [Stores -> Int]
        /\ cst_val \in [Customers -> Int] /\ sold \in [Customers -> Int]
    BY <1>a DEF Init
  <2>2. st_id \in [Threads -> Stores]
    BY <1>1 DEF Init
  <2>3. QED  BY <2>1, <2>2 DEF Init, TypeOK
<1>3. Owns /\ Fresh /\ NonNegative /\ Amounts /\ Balance /\ NoLostUpdate
  BY <1>a
  DEF Init, Inside, Owns, Fresh, NonNegative, Amounts, Balance, NoLostUpdate, Threads
<1>4. QED  BY <1>2, <1>3 DEF IInv

\* Two threads inside the critical sections of one store are the same thread.
LEMMA Exclusion ==
  ASSUME Owns, NEW t \in Threads, NEW u \in Threads,
         pc[t] \in Inside, pc[u] \in Inside, st_id[t] = st_id[u]
  PROVE  t = u
BY DEF Owns

\* Every step of the customers, of the loader and of main preserves it.
LEMMA InvStep == IInv /\ [Next]_vars => IInv'
<1> SUFFICES ASSUME IInv, [Next]_vars PROVE IInv'
  OBVIOUS
<1> USE AmountAssumption, ThreadAssumption
    DEF IInv, TypeOK, Owns, Fresh, NonNegative, Amounts, Balance, NoLostUpdate,
        Inside, Threads
<1>1. ASSUME NEW c \in Customers, NEW s \in Stores, NEW n \in Draw,
             CstChoose(c, s, n)
      PROVE  IInv'
  <2>1. /\ AtMost(n, cst_val[c]) \in Int
        /\ 0 <= AtMost(n, cst_val[c]) /\ AtMost(n, cst_val[c]) <= cst_val[c]
    BY <1>1 DEF AtMost, CstChoose
  <2>2. QED  BY <1>1, <2>1 DEF CstChoose
<1>2. ASSUME NEW c \in Customers, CstDone(c) PROVE IInv'
  BY <1>2 DEF CstDone
<1>3. ASSUME NEW c \in Customers, CstClamp(c) PROVE IInv'
  <2>1. st_val[st_id[c]] \in Nat /\ stf_num[c] \in Nat
    OBVIOUS
  <2>2. /\ AtMost(stf_num[c], st_val[st_id[c]]) \in Nat
        /\ AtMost(stf_num[c], st_val[st_id[c]]) <= st_val[st_id[c]]
        /\ AtMost(stf_num[c], st_val[st_id[c]]) <= stf_num[c]
    BY <2>1 DEF AtMost
  <2>3. QED  BY <1>3, <2>2 DEF CstClamp
<1>4. ASSUME NEW c \in Customers, CstTake(c) PROVE IInv'
  <2>1. tmp[c] = st_val[st_id[c]] /\ tmp[c] - stf_num[c] \in Nat
    BY <1>4 DEF CstTake
  <2>2. \A u \in Threads : u # c /\ pc[u] = "write" => st_id[u] # st_id[c]
    BY <1>4, Exclusion DEF CstTake
  <2>3. TypeOK' /\ Owns' /\ Amounts' /\ Balance'
    BY <1>4, <2>1 DEF CstTake
  <2>4. Fresh' /\ NonNegative'
    BY <1>4, <2>1, <2>2 DEF CstTake
  <2>5. NoLostUpdate'
    BY <1>4, <2>1 DEF CstTake
  <2>6. QED  BY <2>3, <2>4, <2>5
<1>5. ASSUME NEW c \in Customers, CstPay(c) PROVE IInv'
  <2>1. \A u \in Threads : u # c /\ pc[u] \in Inside => st_id[u] # st_id[c]
    BY <1>5, Exclusion DEF CstPay
  <2>2. Owns'
    BY <1>5, <2>1 DEF CstPay, Unlock
  <2>3. TypeOK' /\ Fresh' /\ NonNegative' /\ Amounts' /\ Balance' /\ NoLostUpdate'
    BY <1>5 DEF CstPay, Unlock
  <2>4. QED  BY <2>2, <2>3
<1>6. ASSUME NEW s \in Stores, NEW n \in Draw, LdrChoose(s, n) PROVE IInv'
  BY <1>6 DEF LdrChoose
<1>7. CASE LdrRead
  BY <1>7 DEF LdrRead
<1>8. CASE LdrAdd
  <2>1. tmp[Loader] = st_val[st_id[Loader]] /\ tmp[Loader] + stf_num[Loader] \in Nat
    BY <1>8 DEF LdrAdd
  <2>2. \A u \in Threads : u # Loader /\ pc[u] = "write" => st_id[u] # st_id[Loader]
    BY <1>8, Exclusion DEF LdrAdd
  <2>3. TypeOK' /\ Owns' /\ Amounts' /\ Balance'
    BY <1>8, <2>1 DEF LdrAdd
  <2>4. Fresh' /\ NonNegative'
    BY <1>8, <2>1, <2>2 DEF LdrAdd
  <2>5. NoLostUpdate'
    BY <1>8, <2>1 DEF LdrAdd
  <2>6. QED  BY <2>3, <2>4, <2>5
<1>9. CASE LdrUnlock
  <2>1. \A u \in Threads : u # Loader /\ pc[u] \in Inside => st_id[u] # st_id[Loader]
    BY <1>9, Exclusion DEF LdrUnlock
  <2>2. Owns'
    BY <1>9, <2>1 DEF LdrUnlock, Unlock
  <2>3. TypeOK' /\ Fresh' /\ NonNegative' /\ Amounts' /\ Balance' /\ NoLostUpdate'
    BY <1>9 DEF LdrUnlock, Unlock
  <2>4. QED  BY <2>2, <2>3
<1>10. ASSUME NEW t \in Threads, Lock(t) PROVE IInv'
  BY <1>10 DEF Lock
<1>11. CASE MainExit
  BY <1>11 DEF MainExit
<1>12. CASE UNCHANGED vars
  BY <1>12 DEF vars
<1>13. QED
  BY <1>1, <1>2, <1>3, <1>4, <1>5, <1>6, <1>7, <1>8, <1>9, <1>10, <1>11, <1>12
  DEF Next, CstInside, LdrInside, Exited

\* The inductive invariant holds in every reachable state.
LEMMA InvHolds == Spec => []IInv
BY InvInit, InvStep, PTL DEF Spec

\* The variables keep their types (ms.c 14-55).
THEOREM TypeCorrect == Spec => []TypeOK
<1>1. IInv => TypeOK
  BY DEF IInv
<1>2. QED  BY InvHolds, <1>1, PTL

\* No store is ever overdrawn and no customer draws more than it wanted
\* (ms.c 21-27).
THEOREM NeverNegative == Spec => []NonNegative
<1>1. IInv => NonNegative
  BY DEF IInv
<1>2. QED  BY InvHolds, <1>1, PTL

\* The store mutex makes the unprotected-looking read and write of st_val
\* atomic: the stock is the initial stock plus everything loaded minus
\* everything drawn (ms.c 23-31, 45-50).
THEOREM UpdatesKept == Spec => []NoLostUpdate
<1>1. IInv => NoLostUpdate
  BY DEF IInv
<1>2. QED  BY InvHolds, <1>1, PTL

\* A customer leaves its loop with exactly its demand (ms.c 18-35).
THEOREM ServedExactly == Spec => []ExactlyServed
<1>1. ASSUME IInv PROVE ExactlyServed
  BY <1>1 DEF IInv, ExactlyServed, Balance, NonNegative, TypeOK, Threads
<1>2. QED  BY InvHolds, <1>1, PTL
=============================================================================
