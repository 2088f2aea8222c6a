----------------------------- MODULE MutexStore -----------------------------
(***************************************************************************)
(* mutex_store.  Customers draw goods from stores until their demand is    *)
(* met, a loader restocks; each store has a mutex.  A customer computes    *)
(* how much it draws before it has the mutex and again once it has it, and *)
(* "st_val[st_id] -= stf_num" is a read followed by a write.               *)
(***************************************************************************)
EXTENDS Integers, FiniteSets

CONSTANTS
  Stores, Customers,
  Loader,        \* the loader thread
  Stock,         \* initial contents of a store       (800..1200)
  Demand,        \* initial demand of a customer      (2800..3200)
  Draw,          \* amounts get_rand_int may return   (0..512)
  StoreCap,      \* bound: the loader does not fill a store beyond this
  Nobody         \* owner of a free mutex

ASSUME AmountAssumption ==
  Stock \subseteq Nat /\ Demand \subseteq Nat /\ Draw \subseteq Nat /\ StoreCap \in Nat
ASSUME StoreAssumption == Stores # {}
ASSUME ThreadAssumption ==
  Loader \notin Customers /\ Nobody \notin Customers \cup {Loader}

Threads == Customers \cup {Loader}

VARIABLES
  st_val, cst_val,   \* the shared arrays
  st_mtx,            \* owner of each store's mutex
  pc,                \* where each thread is
  st_id, stf_num,    \* locals of each thread
  tmp,               \* the value of st_val[st_id] a thread has read
  ledger,            \* what each store should hold: every transfer booked once
  sold,              \* what each customer has drawn in all
  demand             \* what each customer wanted at the start

vars == <<st_val, cst_val, st_mtx, pc, st_id, stf_num, tmp, ledger, sold, demand>>

\* get_rand_int(lo, hi) draws from Draw; st_id from Stores.
Init ==
  /\ st_val \in [Stores -> Stock]
  /\ demand \in [Customers -> Demand]
  /\ cst_val = demand
  /\ st_mtx = [s \in Stores |-> Nobody]
  /\ pc = [t \in Threads |-> "choose"]
  /\ st_id \in [Threads -> {CHOOSE s \in Stores : TRUE}]
  /\ stf_num = [t \in Threads |-> 0]
  /\ tmp = [t \in Threads |-> 0]
  /\ ledger = st_val
  /\ sold = [c \in Customers |-> 0]

\* What can be drawn: the second operand of both "?:" of cst_func.
AtMost(n, available) == IF available - n >= 0 THEN n ELSE available

TypeOK ==
  /\ st_val \in [Stores -> Int]
  /\ cst_val \in [Customers -> Int]
  /\ st_mtx \in [Stores -> Threads \cup {Nobody}]
  /\ pc \in [Threads -> {"choose", "lock", "read", "write", "unlock", "done"}]
  /\ st_id \in [Threads -> Stores]
  /\ stf_num \in [Threads -> Int]
  /\ tmp \in [Threads -> Int]
  /\ ledger \in [Stores -> Int]
  /\ sold \in [Customers -> Int]
  /\ demand \in [Customers -> Demand]

-----------------------------------------------------------------------------
(* Both kinds of threads *)

\* Mutant of Lock: the mutex is not taken.
LockNothing(t) ==
  /\ pc[t] = "lock"
  /\ pc' = [pc EXCEPT ![t] = "read"]
  /\ UNCHANGED <<st_val, cst_val, st_mtx, st_id, stf_num, tmp, ledger, sold, demand>>

Lock(t) ==
  /\ pc[t] = "lock"
  /\ st_mtx[st_id[t]] = Nobody
  /\ st_mtx' = [st_mtx EXCEPT ![st_id[t]] = t]
  /\ pc' = [pc EXCEPT ![t] = "read"]
  /\ UNCHANGED <<st_val, cst_val, st_id, stf_num, tmp, ledger, sold, demand>>

Unlock(t) == st_mtx' = [st_mtx EXCEPT ![st_id[t]] = Nobody]

-----------------------------------------------------------------------------
(* Customers: cst_func *)

\* Mutant of CstChoose: the draw is not clamped to the demand.
CstChooseTooMuch(c, s, n) ==
  /\ pc[c] = "choose" /\ cst_val[c] > 0
  /\ st_id' = [st_id EXCEPT ![c] = s]
  /\ stf_num' = [stf_num EXCEPT ![c] = n]
  /\ pc' = [pc EXCEPT ![c] = "lock"]
  /\ UNCHANGED <<st_val, cst_val, st_mtx, tmp, ledger, sold, demand>>

\* The loop test and the draw, clamped to the customer's own demand.
CstChoose(c, s, n) ==
  /\ pc[c] = "choose" /\ cst_val[c] > 0
  /\ st_id' = [st_id EXCEPT ![c] = s]
  /\ stf_num' = [stf_num EXCEPT ![c] = AtMost(n, cst_val[c])]
  /\ pc' = [pc EXCEPT ![c] = "lock"]
  /\ UNCHANGED <<st_val, cst_val, st_mtx, tmp, ledger, sold, demand>>

CstDone(c) ==
  /\ pc[c] = "choose" /\ cst_val[c] <= 0
  /\ pc' = [pc EXCEPT ![c] = "done"]
  /\ UNCHANGED <<st_val, cst_val, st_mtx, st_id, stf_num, tmp, ledger, sold, demand>>

\* Mutant of CstClamp: the clamp to the store's contents is left out.
CstReadOnly(c) ==
  /\ pc[c] = "read"
  /\ tmp' = [tmp EXCEPT ![c] = st_val[st_id[c]]]
  /\ pc' = [pc EXCEPT ![c] = "write"]
  /\ UNCHANGED <<st_val, cst_val, st_mtx, st_id, stf_num, ledger, sold, demand>>

\* st_val[st_id] is read once: nothing between the clamp and the "-=" makes the
\* compiler read it again.
CstClamp(c) ==
  /\ pc[c] = "read"
  /\ tmp' = [tmp EXCEPT ![c] = st_val[st_id[c]]]
  /\ stf_num' = [stf_num EXCEPT ![c] = AtMost(@, st_val[st_id[c]])]
  /\ pc' = [pc EXCEPT ![c] = "write"]
  /\ UNCHANGED <<st_val, cst_val, st_mtx, st_id, ledger, sold, demand>>

CstTake(c) ==
  /\ pc[c] = "write"
  /\ st_val' = [st_val EXCEPT ![st_id[c]] = tmp[c] - stf_num[c]]
  /\ ledger' = [ledger EXCEPT ![st_id[c]] = @ - stf_num[c]]
  /\ sold' = [sold EXCEPT ![c] = @ + stf_num[c]]
  /\ pc' = [pc EXCEPT ![c] = "unlock"]
  /\ UNCHANGED <<cst_val, st_mtx, st_id, stf_num, tmp, demand>>

\* cst_val[cid] is written by its own customer only.
CstPay(c) ==
  /\ pc[c] = "unlock"
  /\ cst_val' = [cst_val EXCEPT ![c] = @ - stf_num[c]]
  /\ Unlock(c)
  /\ pc' = [pc EXCEPT ![c] = "choose"]
  /\ UNCHANGED <<st_val, st_id, stf_num, tmp, ledger, sold, demand>>

-----------------------------------------------------------------------------
(* The loader: ldr_func *)

LdrChoose(s, n) ==
  /\ pc[Loader] = "choose"
  /\ st_val[s] + n <= StoreCap
  /\ st_id' = [st_id EXCEPT ![Loader] = s]
  /\ stf_num' = [stf_num EXCEPT ![Loader] = n]
  /\ pc' = [pc EXCEPT ![Loader] = "lock"]
  /\ UNCHANGED <<st_val, cst_val, st_mtx, tmp, ledger, sold, demand>>

LdrRead ==
  /\ pc[Loader] = "read"
  /\ tmp' = [tmp EXCEPT ![Loader] = st_val[st_id[Loader]]]
  /\ pc' = [pc EXCEPT ![Loader] = "write"]
  /\ UNCHANGED <<st_val, cst_val, st_mtx, st_id, stf_num, ledger, sold, demand>>

LdrAdd ==
  /\ pc[Loader] = "write"
  /\ st_val' = [st_val EXCEPT ![st_id[Loader]] = tmp[Loader] + stf_num[Loader]]
  /\ ledger' = [ledger EXCEPT ![st_id[Loader]] = @ + stf_num[Loader]]
  /\ pc' = [pc EXCEPT ![Loader] = "unlock"]
  /\ UNCHANGED <<cst_val, st_mtx, st_id, stf_num, tmp, sold, demand>>

\* Mutant of LdrUnlock: the mutex is not released.
LdrKeepsLock ==
  /\ pc[Loader] = "unlock"
  /\ pc' = [pc EXCEPT ![Loader] = "choose"]
  /\ UNCHANGED <<st_val, cst_val, st_mtx, st_id, stf_num, tmp, ledger, sold, demand>>

LdrUnlock ==
  /\ pc[Loader] = "unlock"
  /\ Unlock(Loader)
  /\ pc' = [pc EXCEPT ![Loader] = "choose"]
  /\ UNCHANGED <<st_val, cst_val, st_id, stf_num, tmp, ledger, sold, demand>>

\* main joins every customer, cancels the loader and exits: the loader stops
\* wherever it is, with or without a mutex.
MainExit ==
  /\ \A c \in Customers : pc[c] = "done"
  /\ pc[Loader] # "done"
  /\ pc' = [pc EXCEPT ![Loader] = "done"]
  /\ UNCHANGED <<st_val, cst_val, st_mtx, st_id, stf_num, tmp, ledger, sold, demand>>

\* After exit nothing moves; the step keeps that state from being a deadlock.
Exited ==
  /\ pc[Loader] = "done"
  /\ UNCHANGED vars

-----------------------------------------------------------------------------
CstInside(c) == CstClamp(c) \/ CstTake(c) \/ CstPay(c)
LdrInside == LdrRead \/ LdrAdd \/ LdrUnlock

Next ==
  \/ \E c \in Customers :
       \/ \E s \in Stores, n \in Draw : CstChoose(c, s, n)
       \/ CstDone(c) \/ CstInside(c)
  \/ \E s \in Stores, n \in Draw : LdrChoose(s, n)
  \/ LdrInside
  \/ \E t \in Threads : Lock(t)
  \/ MainExit
  \/ Exited

Spec == Init /\ [][Next]_vars

\* Every thread is scheduled; a mutex that is released again and again is
\* eventually acquired by a thread that waits for it (the holders sleep two to
\* four seconds between two acquisitions); and a thread that draws random
\* numbers forever draws every store and amount again and again.
Fairness ==
  /\ \A c \in Customers :
       /\ WF_vars(CstInside(c)) /\ WF_vars(CstDone(c))
       /\ \A s \in Stores, n \in Draw : SF_vars(CstChoose(c, s, n))
  /\ WF_vars(LdrInside) /\ WF_vars(MainExit)
  /\ \A s \in Stores, n \in Draw : SF_vars(LdrChoose(s, n))
  /\ \A t \in Threads : SF_vars(Lock(t))

FairSpec == Spec /\ Fairness

-----------------------------------------------------------------------------
(* Properties *)

\* Neither a store nor a customer's remaining demand ever goes below zero,
\* although the amount is first computed outside the mutex (ms.c 21-27).
NonNegative ==
  /\ \A s \in Stores : st_val[s] >= 0
  /\ \A c \in Customers : cst_val[c] >= 0

\* No update of a store is lost: every amount drawn or loaded is reflected in
\* st_val, in whatever order the threads reach the store (ms.c 23-31, 45-50).
NoLostUpdate == \A s \in Stores : st_val[s] = ledger[s]

\* A customer that leaves has drawn exactly what it wanted (ms.c 18-35).
ExactlyServed == \A c \in Customers : pc[c] = "done" => sold[c] = demand[c]

\* The program ends: every customer is served and main cancels the loader
\* (main.c 57-62).
Terminates == <>(pc[Loader] = "done")
=============================================================================
