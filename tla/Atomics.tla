------------------------------ MODULE Atomics -------------------------------
(***************************************************************************)
(* The A extension of src/exec_a.c at work: threads that count up words of *)
(* memory with LR/SC retry loops and with AMOs, on one hart, under a       *)
(* kernel that switches between them at any instruction.                   *)
(*                                                                         *)
(* The code keeps one reservation, a virtual address.  LR sets it, an SC   *)
(* that succeeds drops it, and nothing else touches it: not a failed SC,   *)
(* not a store or AMO to the word, not a trap, not a change of address     *)
(* space.  Whether SC is atomic is thus up to what the kernel does between *)
(* two threads, the constant ClearBy: "pair", an LR and an SC to a word of *)
(* its own; or "sc", the SC alone, which Linux executes on its way back    *)
(* from every trap, since by the ISA an SC that fails drops the            *)
(* reservation too.                                                        *)
(***************************************************************************)
EXTENDS Integers, FiniteSets

CONSTANTS Threads,
          Va,        \* Va[t]: the virtual address of the word that t counts up
          Word,      \* Word[t]: the word of memory behind it in t's address space
          Scratch,   \* virtual address of a word of the kernel
          ClearBy,   \* "pair" or "sc"
          MaxIncr    \* increments that each thread makes

ASSUME AtomicsAssumption ==
    /\ IsFiniteSet(Threads) /\ Va \in [Threads -> Nat] /\ DOMAIN Word = Threads
    /\ Scratch \in Nat /\ ClearBy \in {"pair", "sc"} /\ MaxIncr \in Nat

Words == {Word[t] : t \in Threads}
NoReservation == -1   \* (u64)-1, which no aligned access names

VARIABLES words, s_reservation,
          cur,               \* the thread that runs
          pc, seen, done     \* of each thread: next instruction, value loaded, increments made

vars == <<words, s_reservation, cur, pc, seen, done>>

Init == /\ words = [w \in Words |-> 0]
        /\ s_reservation = NoReservation
        /\ cur \in Threads
        /\ pc = [t \in Threads |-> "lr"]
        /\ seen = [t \in Threads |-> 0] /\ done = [t \in Threads |-> 0]

-----------------------------------------------------------------------------
(* Mutants: SC does not look at the reservation; it never finds its own.   *)
ScSucceeds_Always(va, reservation) == TRUE
ScSucceeds_Never(va, reservation)  == FALSE

ScSucceeds(va, reservation) == va = reservation

AfterSc(va, reservation) == IF ScSucceeds(va, reservation) THEN NoReservation ELSE reservation

(* t is at its instruction at, and has increments left to make.            *)
Runs(t, at) == cur = t /\ pc[t] = at /\ done[t] < MaxIncr

Increment(t, old) ==
    /\ words' = [words EXCEPT ![Word[t]] = old + 1]
    /\ done' = [done EXCEPT ![t] = @ + 1]

execute_lr(t) ==
    /\ Runs(t, "lr")
    /\ s_reservation' = Va[t]
    /\ seen' = [seen EXCEPT ![t] = words[Word[t]]]
    /\ pc' = [pc EXCEPT ![t] = "sc"]
    /\ UNCHANGED <<words, cur, done>>

(* SC of the value loaded plus one; the loop goes back to LR either way.   *)
execute_sc(t) ==
    /\ Runs(t, "sc")
    /\ s_reservation' = AfterSc(Va[t], s_reservation)
    /\ IF ScSucceeds(Va[t], s_reservation) THEN Increment(t, seen[t])
                                           ELSE UNCHANGED <<words, done>>
    /\ pc' = [pc EXCEPT ![t] = "lr"]
    /\ UNCHANGED <<cur, seen>>

(* The same increment as one AMOADD.                                       *)
execute_amoadd(t) ==
    /\ Runs(t, "lr")
    /\ Increment(t, words[Word[t]])
    /\ UNCHANGED <<s_reservation, cur, pc, seen>>

-----------------------------------------------------------------------------
(* A thread may branch away between LR and SC, as a compare-and-swap does  *)
(* when the comparison fails; the reservation stays.                       *)
Branch(t) ==
    /\ Runs(t, "sc")
    /\ pc' = [pc EXCEPT ![t] = "lr"]
    /\ UNCHANGED <<words, s_reservation, cur, seen, done>>

(* A trap at any point (an interrupt, or a page fault of LR, SC or AMO,    *)
(* which then change nothing), the kernel, and the return to thread t.     *)
Switch(t) ==
    /\ cur' = t
    /\ s_reservation' = AfterSc(Scratch, IF ClearBy = "pair" THEN Scratch ELSE s_reservation)
    /\ UNCHANGED <<words, pc, seen, done>>

Next == \E t \in Threads :
            execute_lr(t) \/ execute_sc(t) \/ execute_amoadd(t) \/ Branch(t) \/ Switch(t)

(* The kernel runs every thread again and again, for time slices that are  *)
(* now and then long enough for LR and SC to execute without a switch      *)
(* between them; no thread is obliged to use an AMO.                       *)
Fairness == \A t \in Threads :
               /\ SF_vars(Switch(t)) /\ SF_vars(execute_lr(t)) /\ SF_vars(execute_sc(t))
               /\ SF_vars(execute_sc(t) /\ Va[t] = s_reservation)

Spec == Init /\ [][Next]_vars /\ Fairness

-----------------------------------------------------------------------------
(* Counters, reservation and program points in range.                      *)
TypeOK ==
    /\ words \in [Words -> Nat]
    /\ s_reservation \in Nat \cup {NoReservation}
    /\ cur \in Threads
    /\ pc \in [Threads -> {"lr", "sc"}]
    /\ seen \in [Threads -> Nat] /\ done \in [Threads -> Nat]

(* SC is atomic with the LR before it: it stores only over the value that  *)
(* the LR of the same thread loaded.  Words only grow, so nobody else has  *)
(* written the word in between, by SC or by AMO, under the same virtual    *)
(* address or another one.                                                 *)
ScAtomic ==
    [][\A t \in Threads : pc[t] = "sc" /\ done'[t] # done[t] => seen[t] = words[Word[t]]]_vars

(* Why it holds under "pair": a reservation that the running thread could  *)
(* use for its SC was made by its own LR, with no other thread since.      *)
ReservationIsFresh ==
    pc[cur] = "sc" /\ s_reservation = Va[cur] => seen[cur] = words[Word[cur]]

(* Every word is the number of increments made to it: no update is lost.   *)
NoLostUpdate ==
    \A w \in Words :
        words[w] = Cardinality({ti \in Threads \X (1 .. MaxIncr) :
                                    Word[ti[1]] = w /\ ti[2] <= done[ti[1]]})

(* Every retry loop gets through, although each switch drops reservations. *)
EveryoneFinishes == \A t \in Threads : <>(done[t] = MaxIncr)
=============================================================================
