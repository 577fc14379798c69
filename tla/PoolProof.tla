----------------------------- MODULE PoolProof -----------------------------
(***************************************************************************)
(* Proofs about the thread pool and about what it hands its caller: the    *)
(* output and exit code of each child and the promise of PoolSpec; for     *)
(* every number of threads and works, every capacity of the pipes, every   *)
(* set of programs and every set of failing system calls.                  *)
(***************************************************************************)
EXTENDS Pool, TLAPS

\* A thread compares and swaps only an index it read, that is below work_count
\* and that next_to_work has not yet passed backwards; what it owns is claimed.
ClaimBounds ==
  \A t \in Threads :
    /\ pc[t] = "claim" => local[t] < WorkCount /\ local[t] <= next
    /\ pc[t] \in Owning => local[t] < next

Typed == TypeOK /\ ClaimBounds

-----------------------------------------------------------------------------
\* A work index an owning thread holds is the index of a work.
LEMMA OwnedIsWork ==
  ASSUME Typed, NEW t \in Threads, pc[t] \in Owning
  PROVE  local[t] \in Works
BY WorkCountIsNat DEF Typed, TypeOK, ClaimBounds, Works

\* The program of a child whose chdir fails is a program.
LEMMA NoDirectoryTyped == NoDirectory \in Program
BY DEF NoDirectory, Program, Output, Streams

\* The initial state has the types of TypeOK.
LEMMA InitTyped == Init => Typed
<1> SUFFICES ASSUME Init PROVE Typed
  OBVIOUS
<1>1. TypeOK
  BY ThreadCountIsNat, WorkCountIsNat, NoDirectoryTyped
     DEF Init, TypeOK, Threads, Works, Locations, ExitCodes, Output, Procs, NoThread
<1>2. ClaimBounds
  BY DEF Init, ClaimBounds, Owning
<1> QED BY <1>1, <1>2 DEF Typed

\* Steps of the main thread keep the types.
LEMMA MainTyped == Typed /\ Main => Typed'
<1> SUFFICES ASSUME Typed, Main PROVE Typed'
  OBVIOUS
<1> USE ThreadCountIsNat, WorkCountIsNat
        DEF Typed, TypeOK, ClaimBounds, Locations, Owning, Threads,
            control, claims, calls, codes, process
<1>1. CASE InitLock
  BY <1>1 DEF InitLock
<1>2. CASE CreateThread
  <2>0. at \in Threads /\ at' \in 0..ThreadCount
    BY <1>2 DEF CreateThread
  <2>1. valid' \in SUBSET Threads
    BY <1>2, <2>0 DEF CreateThread
  <2>2. pc' \in [Threads -> Locations]
    BY <1>2, <2>0 DEF CreateThread
  <2>3. ASSUME NEW t \in Threads, pc'[t] = "claim" \/ pc'[t] \in Owning
        PROVE  pc'[t] = pc[t]
    BY <1>2, <2>0, <2>3 DEF CreateThread
  <2>4. UNCHANGED <<main, claims, calls, codes, process>>
    BY <1>2 DEF CreateThread
  <2>5. TypeOK'
    BY <2>0, <2>1, <2>2, <2>4
  <2>6. ClaimBounds'
    BY <2>3, <2>4
  <2> QED BY <2>5, <2>6
<1>3. CASE StartJoining
  BY <1>3 DEF StartJoining
<1>4. CASE JoinThread
  BY <1>4 DEF JoinThread
<1>5. CASE Return
  BY <1>5 DEF Return
<1> QED BY <1>1, <1>2, <1>3, <1>4, <1>5 DEF Main

\* Steps of a thread keep the types.
LEMMA ThreadTyped == ASSUME NEW t \in Threads PROVE Typed /\ Thread(t) => Typed'
<1> SUFFICES ASSUME Typed, Thread(t) PROVE Typed'
  OBVIOUS
<1> USE WorkCountIsNat, NoDirectoryTyped, ProgramsAreTyped
        DEF Typed, TypeOK, ClaimBounds, Locations, Owning, Works, Move,
            control, claims, calls, codes, process
<1>1. CASE ReadNext(t)
  BY <1>1 DEF ReadNext
<1>2. CASE Claim(t)
  <2>1. CASE next = local[t] /\ next' = local[t] + 1 /\ Move(t, "claim", "begin")
    <3>1. next' \in 0..WorkCount /\ next' = next + 1
      BY <2>1
    <3>2. UNCHANGED <<control, local, calls, codes, process>>
      BY <1>2 DEF Claim
    <3>3. TypeOK'
      BY <2>1, <3>1, <3>2
    <3>4. ClaimBounds'
      BY <2>1, <3>1, <3>2
    <3> QED BY <3>3, <3>4
  <2>2. CASE next # local[t] /\ Move(t, "claim", "read") /\ UNCHANGED next
    BY <1>2, <2>2 DEF Claim
  <2> QED BY <1>2, <2>1, <2>2 DEF Claim
<1>3. CASE StoreCode(t)
  BY <1>3 DEF StoreCode
<1>4. CASE EnterBegin(t)
  <2>1. began' \in [Works -> Nat]
    BY <1>4 DEF EnterBegin, ExitCodes, Procs, WithoutHand
  <2> QED BY <1>4, <2>1 DEF EnterBegin
<1>5. CASE LeaveBegin(t)
  <2>1. result' \in [Threads -> ExitCodes] /\ lock' \in Threads \cup {NoThread}
    BY <1>5 DEF LeaveBegin, ExitCodes, Procs, WithoutHand
  <2> QED BY <1>5, <2>1 DEF LeaveBegin
<1>6. CASE EnterEnd(t)
  <2>1. ended' \in [Works -> Nat] /\ lock' \in Threads \cup {NoThread}
    BY <1>6 DEF EnterEnd
  <2> QED BY <1>6, <2>1 DEF EnterEnd
<1>7. CASE LeaveEnd(t)
  <2>1. lock' \in Threads \cup {NoThread}
    BY <1>7 DEF LeaveEnd
  <2> QED BY <1>7, <2>1 DEF LeaveEnd
<1>8. CASE OpenPipes(t)
  <2>1. ends' \in [Works -> SUBSET Procs]
    BY <1>8 DEF OpenPipes, ExitCodes, Procs, WithoutHand
  <2> QED BY <1>8, <2>1 DEF OpenPipes
<1>9. CASE PipeFails(t)
  BY <1>9 DEF PipeFails
<1>10. CASE Fork(t)
  <2>1. local[t] \in Works
    BY <1>10 DEF Fork
  <2>2. plan' \in [Works -> Program]
    BY <1>10 DEF Fork
  <2>3. ends' \in [Works -> SUBSET Procs]
    BY <1>10, <2>1 DEF Fork, Inherited, Procs
  <2>4. child' \in [Works -> {"none", "running", "zombie", "reaped"}]
    BY <1>10 DEF Fork
  <2> QED BY <1>10, <2>2, <2>3, <2>4 DEF Fork
<1>11. CASE ForkFails(t)
  <2>1. ends' \in [Works -> SUBSET Procs]
    BY <1>11 DEF ForkFails, ExitCodes, Procs, WithoutHand
  <2> QED BY <1>11, <2>1 DEF ForkFails
<1>12. CASE CloseEnds(t)
  <2>1. ends' \in [Works -> SUBSET Procs]
    BY <1>12 DEF CloseEnds, ExitCodes, Procs, WithoutHand
  <2> QED BY <1>12, <2>1 DEF CloseEnds
<1>13. CASE Drained(t)
  BY <1>13 DEF Drained
<1>14. CASE SelectFails(t)
  BY <1>14 DEF SelectFails
<1>15. CASE Wait(t)
  <2>1. local[t] \in Works
    BY <1>15 DEF Wait
  <2>2. Status(local[t]) \in ExitCodes
    BY <2>1 DEF Status, Program, ExitCodes
  <2>3. result' \in [Threads -> ExitCodes]
    BY <1>15, <2>2 DEF Wait
  <2>4. child' \in [Works -> {"none", "running", "zombie", "reaped"}]
    BY <1>15 DEF Wait
  <2> QED BY <1>15, <2>3, <2>4 DEF Wait
<1>16. CASE WaitFails(t)
  BY <1>16 DEF WaitFails
<1>17. ASSUME NEW s \in Streams, ReadStream(t, s) PROVE Typed'
  <2> DEFINE w == local[t]
  <2>1. CASE /\ UNCHANGED more
             /\ \E n \in 1..Buffered(w, s) : captured' = [captured EXCEPT ![w][s] = @ + n]
    <3>1. PICK n \in 1..Buffered(w, s) : captured' = [captured EXCEPT ![w][s] = @ + n]
      BY <2>1
    <3>2. w \in Works
      BY <1>17 DEF ReadStream
    <3>3. Buffered(w, s) \in Int
      BY <3>2 DEF Buffered, Output
    <3>4. captured[w] \in Output
      BY <3>2
    <3>5. [captured[w] EXCEPT ![s] = @ + n] \in Output
      <4>1. captured[w][s] \in Nat /\ n \in Nat
        BY <3>3, <3>4 DEF Output
      <4>2. captured[w][s] + n \in Nat
        BY <4>1
      <4> QED BY <3>4, <4>2 DEF Output
    <3>6. captured' = [captured EXCEPT ![w] = [captured[w] EXCEPT ![s] = @ + n]]
      BY <3>1
    <3>7. captured' \in [Works -> Output]
      BY <3>5, <3>6
    <3> QED BY <1>17, <2>1, <3>7 DEF ReadStream
  <2>2. CASE UNCHANGED captured /\ more' = [more EXCEPT ![w][s] = FALSE]
    <3>1. more' \in [Works -> [Streams -> BOOLEAN]]
      BY <2>2
    <3> QED BY <1>17, <2>2, <3>1 DEF ReadStream
  <2> QED BY <1>17, <2>1, <2>2 DEF ReadStream
<1>18. ASSUME NEW s \in Streams, ReadFails(t, s) PROVE Typed'
  <2>1. more' \in [Works -> [Streams -> BOOLEAN]]
    BY <1>18 DEF ReadFails
  <2>2. lost' \in [Works -> SUBSET Streams]
    BY <1>18 DEF ReadFails
  <2> QED BY <1>18, <2>1, <2>2 DEF ReadFails
<1> QED BY <1>1, <1>2, <1>3, <1>4, <1>5, <1>6, <1>7, <1>8, <1>9, <1>10, <1>11, <1>12, <1>13, <1>14, <1>15, <1>16, <1>17, <1>18 DEF Thread

\* Steps of a child keep the types.
LEMMA ChildTyped == ASSUME NEW w \in Works PROVE Typed /\ Child(w) => Typed'
<1> SUFFICES ASSUME Typed, Child(w) PROVE Typed'
  OBVIOUS
<1> USE DEF Typed, TypeOK, ClaimBounds, control, claims, calls, codes
<1>1. CASE ChildExits(w)
  <2>1. child' \in [Works -> {"none", "running", "zombie", "reaped"}]
    BY <1>1 DEF ChildExits
  <2>2. ends' \in [Works -> SUBSET Procs]
    BY <1>1 DEF ChildExits
  <2> QED BY <1>1, <2>1, <2>2 DEF ChildExits
<1>2. ASSUME NEW s \in Streams, ChildWrites(w, s) PROVE Typed'
  <2>1. written[w] \in Output /\ written[w][s] + 1 \in Nat
    BY DEF Output
  <2>2. [written[w] EXCEPT ![s] = @ + 1] \in Output
    BY <2>1 DEF Output
  <2>3. written' = [written EXCEPT ![w] = [written[w] EXCEPT ![s] = @ + 1]]
    BY <1>2 DEF ChildWrites
  <2>4. written' \in [Works -> Output]
    BY <2>2, <2>3
  <2> QED BY <1>2, <2>4 DEF ChildWrites
<1> QED BY <1>1, <1>2 DEF Child

\* A stuttering step keeps the types.
LEMMA StutterTyped == Typed /\ UNCHANGED vars => Typed'
BY DEF Typed, TypeOK, ClaimBounds, vars, control, claims, calls, codes, process

\* Every state of the pool is well typed, and a thread never works on an index
\* beyond the last work: the loop of linux_thread_proc tests the index it read
\* and claims exactly that one.
THEOREM TypeCorrect == Spec => []TypeOK
<1>1. Typed /\ [Next]_vars => Typed'
  BY MainTyped, ThreadTyped, ChildTyped, StutterTyped DEF Next, Returned
<1>2. Typed => TypeOK
  BY DEF Typed
<1> QED BY InitTyped, <1>1, <1>2, PTL DEF Spec

\* The same for the bounds on what threads claim.
LEMMA TypedAlways == Spec => []Typed
<1>1. Typed /\ [Next]_vars => Typed'
  BY MainTyped, ThreadTyped, ChildTyped, StutterTyped DEF Next, Returned
<1> QED BY InitTyped, <1>1, PTL DEF Spec

-----------------------------------------------------------------------------
(* Mutual exclusion: of owners of a work, and of the callbacks.             *)

\* Every step of linux_exec_process leaves the claims alone and moves only its
\* own thread, to the next location of the same work or back to the loop.
LEMMA OwnerFrame ==
  ASSUME Typed, NEW t \in Threads, Thread(t), ~ReadNext(t), ~Claim(t)
  PROVE  /\ UNCHANGED <<control, next, local>>
         /\ pc[t] \in Owning
         /\ \E to \in Owning \cup {"read"} : pc' = [pc EXCEPT ![t] = to]
<1> DEFINE Goal == /\ UNCHANGED <<control, next, local>>
                   /\ pc[t] \in Owning
                   /\ \E to \in Owning \cup {"read"} : pc' = [pc EXCEPT ![t] = to]
<1> USE DEF Typed, TypeOK, Owning, Move, claims
<1>1. CASE StoreCode(t)
  BY <1>1 DEF StoreCode
<1>2. CASE EnterBegin(t)
  BY <1>2 DEF EnterBegin
<1>3. CASE LeaveBegin(t)
  BY <1>3 DEF LeaveBegin
<1>4. CASE EnterEnd(t)
  BY <1>4 DEF EnterEnd
<1>5. CASE LeaveEnd(t)
  BY <1>5 DEF LeaveEnd
<1>6. CASE OpenPipes(t)
  BY <1>6 DEF OpenPipes
<1>7. CASE PipeFails(t)
  BY <1>7 DEF PipeFails
<1>8. CASE Fork(t)
  BY <1>8 DEF Fork
<1>9. CASE ForkFails(t)
  BY <1>9 DEF ForkFails
<1>10. CASE CloseEnds(t)
  BY <1>10 DEF CloseEnds
<1>11. CASE Drained(t)
  BY <1>11 DEF Drained
<1>12. CASE SelectFails(t)
  BY <1>12 DEF SelectFails
<1>13. CASE Wait(t)
  BY <1>13 DEF Wait
<1>14. CASE WaitFails(t)
  BY <1>14 DEF WaitFails
<1>15. ASSUME NEW s \in Streams, ReadStream(t, s) PROVE Goal
  <2>1. pc' = [pc EXCEPT ![t] = "drain"]
    BY <1>15 DEF ReadStream
  <2> QED BY <1>15, <2>1 DEF ReadStream
<1>16. ASSUME NEW s \in Streams, ReadFails(t, s) PROVE Goal
  <2>1. pc' = [pc EXCEPT ![t] = "drain"]
    BY <1>16 DEF ReadFails
  <2> QED BY <1>16, <2>1 DEF ReadFails
<1> QED BY <1>1, <1>2, <1>3, <1>4, <1>5, <1>6, <1>7, <1>8, <1>9, <1>10, <1>11, <1>12, <1>13, <1>14, <1>15, <1>16 DEF Thread

\* Locations of a work whose index is claimed change hands only at the swap.
LEMMA OwnedOnceStep == Typed /\ OwnedOnce /\ [Next]_vars => OwnedOnce'
<1> SUFFICES ASSUME Typed, OwnedOnce, [Next]_vars PROVE OwnedOnce'
  OBVIOUS
<1> USE DEF OwnedOnce, Owning, control, claims, calls, codes, process
<1>1. CASE Main
  BY <1>1 DEF Main, InitLock, CreateThread, StartJoining, JoinThread, Return, Typed, TypeOK
<1>2. ASSUME NEW t \in Threads, Thread(t) PROVE OwnedOnce'
  <2> USE DEF Typed, TypeOK, Move
  <2>1. CASE ReadNext(t)
    BY <2>1 DEF ReadNext
  <2>2. CASE Claim(t)
    BY <2>2 DEF Claim
  <2>3. CASE ~ReadNext(t) /\ ~Claim(t)
    BY <1>2, <2>3, OwnerFrame
  <2> QED BY <2>1, <2>2, <2>3
<1>3. ASSUME NEW w \in Works, Child(w) PROVE OwnedOnce'
  BY <1>3 DEF Child, ChildExits, ChildWrites
<1>4. CASE UNCHANGED vars
  BY <1>4 DEF vars
<1> QED BY <1>1, <1>2, <1>3, <1>4 DEF Next, Returned

\* No work is handed out twice, however many threads race for next_to_work in
\* linux_thread_proc.
THEOREM EveryWorkOwnedOnce == Spec => []OwnedOnce
<1>1. Init => OwnedOnce
  BY DEF Init, OwnedOnce, Owning
<1> QED BY <1>1, OwnedOnceStep, TypedAlways, PTL DEF Spec

\* A thread runs once it is created; while threads are being created those from
\* the loop index on are not.
Started ==
  /\ \A t \in Threads : pc[t] = "off" <=> t \notin valid
  /\ main = "init" => at = 0 /\ valid = {}
  /\ main = "create" => \A t \in valid : t < at

\* Only pthread_create starts a thread, and no step turns a running one off.
LEMMA StartedStep == Typed /\ Started /\ [Next]_vars => Started'
<1> SUFFICES ASSUME Typed, Started, [Next]_vars PROVE Started'
  OBVIOUS
<1> USE DEF Started, Typed, TypeOK, control
<1>1. CASE Main
  <2>1. CASE CreateThread
    <3>1. at \in Threads
      BY <2>1, ThreadCountIsNat DEF CreateThread, Threads
    <3>2. \A t \in Threads : t \in Int
      BY DEF Threads
    <3>3. \A t \in Threads : pc'[t] = "off" <=> t \notin valid'
      BY <2>1, <3>1 DEF CreateThread
    <3>4. \A t \in valid' : t < at'
      <4>1. at \in Int /\ at' = at + 1 /\ valid' \subseteq valid \cup {at}
        BY <2>1, <3>1, <3>2 DEF CreateThread
      <4>2. \A t \in valid : t \in Int /\ t < at
        BY <2>1, <3>2 DEF CreateThread
      <4> QED BY <4>1, <4>2
    <3> QED BY <2>1, <3>3, <3>4 DEF CreateThread
  <2>2. CASE InitLock
    BY <2>2 DEF InitLock
  <2>3. CASE StartJoining \/ JoinThread \/ Return
    BY <2>3 DEF StartJoining, JoinThread, Return
  <2> QED BY <1>1, <2>1, <2>2, <2>3 DEF Main
<1>2. ASSUME NEW t \in Threads, Thread(t) PROVE Started'
  <2>1. CASE ReadNext(t)
    BY <2>1 DEF ReadNext, Move
  <2>2. CASE Claim(t)
    BY <2>2 DEF Claim, Move
  <2>3. CASE ~ReadNext(t) /\ ~Claim(t)
    BY <1>2, <2>3, OwnerFrame DEF Owning
  <2> QED BY <2>1, <2>2, <2>3
<1>3. ASSUME NEW w \in Works, Child(w) PROVE Started'
  BY <1>3 DEF Child, ChildExits, ChildWrites
<1>4. CASE UNCHANGED vars
  BY <1>4 DEF vars
<1> QED BY <1>1, <1>2, <1>3, <1>4 DEF Next, Returned

\* The set of valid threads is right in every reachable state.
LEMMA StartedAlways == Spec => []Started
<1>1. Init => Started
  BY DEF Init, Started
<1> QED BY <1>1, StartedStep, TypedAlways, PTL DEF Spec

\* callback_lock is held by exactly the thread that is inside a callback.
LockHeld == \A t \in Threads : pc[t] \in InCallback <=> lock = t

\* A thread inside a callback holds callback_lock: no step of another thread can
\* enter one or take the lock away.
LEMMA LockHeldStep == Typed /\ Started /\ LockHeld /\ [Next]_vars => LockHeld'
<1> SUFFICES ASSUME Typed, Started, LockHeld, [Next]_vars PROVE LockHeld'
  OBVIOUS
<1> USE DEF LockHeld, InCallback, Typed, TypeOK, Move, control, claims, calls, codes, process
<1>1. CASE Main
  <2>1. CASE CreateThread
    <3>1. lock' = lock /\ (pc' = pc \/ pc' = [pc EXCEPT ![at] = "read"])
      BY <2>1 DEF CreateThread
    <3>2. at \in Threads => pc[at] = "off"
      BY <2>1 DEF CreateThread, Started
    <3>3. \A t \in Threads : pc'[t] \in InCallback <=> pc[t] \in InCallback
      BY <3>1, <3>2
    <3> QED BY <3>1, <3>3
  <2>2. CASE InitLock
    BY <2>2 DEF InitLock
  <2>3. CASE StartJoining
    BY <2>3 DEF StartJoining
  <2>4. CASE JoinThread
    BY <2>4 DEF JoinThread
  <2>5. CASE Return
    BY <2>5 DEF Return
  <2> QED BY <1>1, <2>1, <2>2, <2>3, <2>4, <2>5 DEF Main
<1>2. ASSUME NEW t \in Threads, Thread(t) PROVE LockHeld'
  <2>0. NoThread \notin Threads
    BY ThreadCountIsNat DEF NoThread, Threads
  <2>1. CASE ReadNext(t)
    BY <2>1 DEF ReadNext
  <2>2. CASE Claim(t)
    BY <2>2 DEF Claim
  <2>3. CASE EnterBegin(t) \/ EnterEnd(t)
    BY <2>0, <2>3 DEF EnterBegin, EnterEnd
  <2>4. CASE LeaveBegin(t) \/ LeaveEnd(t)
    BY <2>0, <2>4 DEF LeaveBegin, LeaveEnd
  <2>5. CASE StoreCode(t) \/ OpenPipes(t) \/ PipeFails(t) \/ Fork(t) \/ ForkFails(t)
    BY <2>5 DEF StoreCode, OpenPipes, PipeFails, Fork, ForkFails
  <2>6. CASE CloseEnds(t) \/ Drained(t) \/ SelectFails(t) \/ Wait(t) \/ WaitFails(t)
    BY <2>6 DEF CloseEnds, Drained, SelectFails, Wait, WaitFails
  <2>7. ASSUME NEW s \in Streams, ReadStream(t, s) PROVE LockHeld'
    BY <2>7 DEF ReadStream
  <2>8. ASSUME NEW s \in Streams, ReadFails(t, s) PROVE LockHeld'
    BY <2>8 DEF ReadFails
  <2> QED BY <1>2, <2>1, <2>2, <2>3, <2>4, <2>5, <2>6, <2>7, <2>8 DEF Thread
<1>3. ASSUME NEW w \in Works, Child(w) PROVE LockHeld'
  BY <1>3 DEF Child, ChildExits, ChildWrites
<1>4. CASE UNCHANGED vars
  BY <1>4 DEF vars
<1> QED BY <1>1, <1>2, <1>3, <1>4 DEF Next, Returned

\* The two callbacks never run at the same time on two threads.
THEOREM CallbacksAreExclusive == Spec => []CallbacksExclude
<1>1. Init => LockHeld
  BY ThreadCountIsNat DEF Init, LockHeld, InCallback, NoThread, Threads
<1>2. LockHeld => CallbacksExclude
  BY DEF LockHeld, CallbacksExclude
<1> QED BY <1>1, <1>2, LockHeldStep, TypedAlways, StartedAlways, PTL DEF Spec

-----------------------------------------------------------------------------
(* The return of wait_for_completion: who is joined, and what was called.  *)

\* No index is claimed without a thread; a thread leaves its loop only when all
\* are claimed; the joining loop passes a thread only when it has left.
Joins ==
  /\ valid = {} => next = 0
  /\ \A t \in Threads : pc[t] = "exit" => next = WorkCount
  /\ main = "join" => \A t \in valid : t < at => pc[t] = "exit"
  /\ main = "returned" => \A t \in valid : pc[t] = "exit"

\* A joined thread has left its loop and stays out of it.
LEMMA JoinsStep == Typed /\ Started /\ Joins /\ [Next]_vars => Joins'
<1> SUFFICES ASSUME Typed, Started, Joins, [Next]_vars PROVE Joins'
  OBVIOUS
<1> USE DEF Joins, Typed, TypeOK, Started, control, claims
<1>1. CASE Main
  <2>0. \A t \in Threads : t \in 0..ThreadCount - 1
    BY DEF Threads
  <2>1. CASE InitLock
    BY <2>1 DEF InitLock
  <2>2. CASE CreateThread
    BY <2>2 DEF CreateThread
  <2>3. CASE StartJoining
    BY <2>0, <2>3 DEF StartJoining
  <2>4. CASE JoinThread
    <3>0. at \in Int /\ \A t \in valid : t \in Threads /\ t \in Int
      BY <2>0 DEF Threads
    <3>1. \A i, j \in Int : i < j + 1 => i < j \/ i = j
      OBVIOUS
    <3>2. \A t \in valid : t < at + 1 => t < at \/ t = at
      BY <3>0, <3>1
    <3> QED BY <2>4, <3>2 DEF JoinThread
  <2>5. CASE Return
    BY <2>0, <2>5, ThreadCountIsNat DEF Return
  <2> QED BY <1>1, <2>1, <2>2, <2>3, <2>4, <2>5 DEF Main
<1>2. ASSUME NEW t \in Threads, Thread(t) PROVE Joins'
  <2>1. CASE ReadNext(t)
    BY <2>1 DEF ReadNext, Move
  <2>2. CASE Claim(t)
    <3>1. t \in valid /\ pc[t] = "claim" /\ local[t] < WorkCount
      BY <2>2 DEF Claim, Move, ClaimBounds
    <3>2. \A u \in Threads : pc[u] = "exit" => next' = next
      BY <2>2, <3>1 DEF Claim
    <3> QED BY <2>2, <3>1, <3>2 DEF Claim, Move
  <2>3. CASE ~ReadNext(t) /\ ~Claim(t)
    BY <1>2, <2>3, OwnerFrame DEF Owning
  <2> QED BY <2>1, <2>2, <2>3
<1>3. ASSUME NEW w \in Works, Child(w) PROVE Joins'
  BY <1>3 DEF Child, ChildExits, ChildWrites
<1>4. CASE UNCHANGED vars
  BY <1>4 DEF vars
<1> QED BY <1>1, <1>2, <1>3, <1>4 DEF Next, Returned

\* The joined threads have exited in every reachable state.
LEMMA JoinsAlways == Spec => []Joins
<1>1. Init => Joins
  BY DEF Init, Joins
<1> QED BY <1>1, JoinsStep, TypedAlways, StartedAlways, PTL DEF Spec

Owns(t, w) == pc[t] \in Owning /\ local[t] = w

\* How often the callbacks of a work were called follows from where its owner
\* stands: an unclaimed work had none, one without an owner is finished.
CallsOf(w) ==
  /\ w >= next => began[w] = 0 /\ ended[w] = 0
  /\ w < next /\ (\A t \in Threads : ~Owns(t, w)) => began[w] = 1 /\ ended[w] = 1
  /\ \A t \in Threads : Owns(t, w) =>
       /\ began[w] = IF pc[t] = "begin" THEN 0 ELSE 1
       /\ ended[w] = IF pc[t] \in {"endCall", "store"} THEN 1 ELSE 0

Called == \A w \in Works : CallsOf(w)

\* The counts of the two callbacks follow the claim of a work and its owner.
LEMMA CalledStep == Typed /\ Started /\ OwnedOnce /\ Called /\ [Next]_vars => Called'
<1> SUFFICES ASSUME Typed, Started, OwnedOnce, Called, [Next]_vars PROVE Called'
  OBVIOUS
<1> USE DEF Called, CallsOf, Owns, Owning, Typed, TypeOK, control, claims, calls
<1>1. CASE Main
  <2>1. CASE CreateThread
    BY <2>1 DEF CreateThread, Started
  <2>2. CASE InitLock
    BY <2>2 DEF InitLock
  <2>3. CASE StartJoining
    BY <2>3 DEF StartJoining
  <2>4. CASE JoinThread
    BY <2>4 DEF JoinThread
  <2>5. CASE Return
    BY <2>5 DEF Return
  <2> QED BY <1>1, <2>1, <2>2, <2>3, <2>4, <2>5 DEF Main
<1>2. ASSUME NEW t \in Threads, Thread(t) PROVE Called'
  <2> USE DEF Move
  <2>1. CASE ReadNext(t)
    BY <2>1 DEF ReadNext
  <2>2. CASE Claim(t)
    <3>1. CASE next # local[t]
      <4>1. UNCHANGED <<next, local, began, ended>>
        BY <2>2, <3>1 DEF Claim
      <4>2. \A u \in Threads : pc[u] \in Owning \/ pc'[u] \in Owning => pc'[u] = pc[u]
        BY <2>2, <3>1 DEF Claim
      <4>3. \A u \in Threads, w \in Works : Owns(u, w)' <=> Owns(u, w)
        BY <4>1, <4>2
      <4> QED BY <4>1, <4>2, <4>3
    <3>2. CASE next = local[t]
      <4>1. next' = next + 1 /\ pc' = [pc EXCEPT ![t] = "begin"] /\ UNCHANGED <<local, began, ended>>
        BY <2>2, <3>2 DEF Claim
      <4>2. pc[t] = "claim" /\ pc'[t] = "begin" /\ local'[t] = next
        BY <2>2, <3>2 DEF Claim
      <4>3. \A u \in Threads : u # t => pc'[u] = pc[u] /\ local'[u] = local[u]
        BY <4>1
      <4>4. \A u \in Threads : Owns(u, next) => FALSE
        BY DEF ClaimBounds
      <4>5. \A w \in Works : w \in Nat /\ (w < next' => w < next \/ w = next) /\ (w >= next' => w >= next)
        BY <4>1 DEF Works
      <4>6. ASSUME NEW w \in Works PROVE CallsOf(w)'
        <5>1. CASE w = next
          BY <4>1, <4>2, <4>3, <4>4, <4>5, <5>1
        <5>2. CASE w # next
          BY <4>1, <4>2, <4>3, <4>5, <5>2
        <5> QED BY <5>1, <5>2
      <4> QED BY <4>6
    <3> QED BY <3>1, <3>2
  <2>3. CASE StoreCode(t)
    BY <2>3 DEF StoreCode, OwnedOnce
  <2>4. CASE EnterBegin(t)
    BY <2>4 DEF EnterBegin, OwnedOnce
  <2>5. CASE EnterEnd(t)
    <3>1. local[t] \in Works /\ Owns(t, local[t]) /\ ended[local[t]] = 0
      BY <2>5, OwnedIsWork DEF EnterEnd
    <3>2. ended' = [ended EXCEPT ![local[t]] = 1]
      BY <2>5, <3>1 DEF EnterEnd
    <3>3. \A u \in Threads : u # t => ~Owns(u, local[t])
      BY <2>5 DEF EnterEnd, OwnedOnce
    <3>4. pc' = [pc EXCEPT ![t] = "endCall"] /\ UNCHANGED <<next, local, began>>
      BY <2>5 DEF EnterEnd
    <3>5. \A u \in Threads, w \in Works : Owns(u, w)' <=> Owns(u, w)
      BY <2>5, <3>4 DEF EnterEnd
    <3>6. \A w \in Works : w >= next => w # local[t]
      BY <2>5 DEF EnterEnd, ClaimBounds
    <3>7. ASSUME NEW w \in Works PROVE CallsOf(w)'
      <4>1. CASE w = local[t]
        BY <2>5, <3>1, <3>2, <3>3, <3>4, <3>5, <4>1 DEF EnterEnd
      <4>2. CASE w # local[t]
        BY <3>2, <3>4, <3>5, <4>2
      <4> QED BY <4>1, <4>2
    <3> QED BY <3>7
  <2>6. CASE LeaveBegin(t) \/ LeaveEnd(t)
    <3>1. CASE LeaveBegin(t)
      BY <3>1 DEF LeaveBegin
    <3>2. CASE LeaveEnd(t)
      BY <3>2 DEF LeaveEnd
    <3> QED BY <2>6, <3>1, <3>2
  <2>7. ASSUME NEW to \in {"fork", "close", "drain", "wait", "end"},
               pc' = [pc EXCEPT ![t] = to],
               pc[t] \in {"pipe", "fork", "close", "drain", "wait"},
               UNCHANGED <<next, local, began, ended>>
        PROVE  Called'
    BY <2>7
  <2>8. CASE OpenPipes(t) \/ PipeFails(t) \/ Fork(t) \/ ForkFails(t) \/ CloseEnds(t)
    BY <2>7, <2>8 DEF OpenPipes, PipeFails, Fork, ForkFails, CloseEnds
  <2>9. CASE Drained(t) \/ SelectFails(t) \/ Wait(t) \/ WaitFails(t)
    BY <2>7, <2>9 DEF Drained, SelectFails, Wait, WaitFails
  <2>10. ASSUME NEW s \in Streams, ReadStream(t, s) PROVE Called'
    BY <2>10 DEF ReadStream
  <2>11. ASSUME NEW s \in Streams, ReadFails(t, s) PROVE Called'
    BY <2>11 DEF ReadFails
  <2> QED BY <1>2, <2>1, <2>2, <2>3, <2>4, <2>5, <2>6, <2>7, <2>8, <2>9, <2>10, <2>11 DEF Thread
<1>3. ASSUME NEW w \in Works, Child(w) PROVE Called'
  BY <1>3 DEF Child, ChildExits, ChildWrites
<1>4. CASE UNCHANGED vars
  BY <1>4 DEF vars
<1> QED BY <1>1, <1>2, <1>3, <1>4 DEF Next, Returned

\* The counts are right in every reachable state.
LEMMA CalledAlways == Spec => []Called
<1>1. Init => Called
  BY WorkCountIsNat DEF Init, Called, CallsOf, Owns, Owning, Works
<1> QED BY <1>1, CalledStep, TypedAlways, StartedAlways, EveryWorkOwnedOnce, PTL DEF Spec

\* When grade_homework reads the exit codes, every repository has been through
\* both callbacks exactly once and no thread is left, unless none was created.
THEOREM ReturnsWhenComplete == Spec => []ReturnComplete
<1>1. Typed /\ Started /\ Joins /\ Called => ReturnComplete
  <2> SUFFICES ASSUME Typed, Started, Joins, Called, main = "returned" PROVE ReturnComplete
    BY DEF ReturnComplete
  <2>1. \A t \in Threads : pc[t] \in {"off", "exit"}
    BY DEF Started, Joins
  <2>2. \A w \in Works, t \in Threads : ~Owns(t, w)
    BY <2>1 DEF Owns, Owning
  <2>3. CASE valid = {}
    <3>1. \A w \in Works : w >= next
      BY <2>3 DEF Joins, Works
    <3> QED BY <2>1, <2>3, <3>1 DEF ReturnComplete, Called, CallsOf
  <2>4. CASE valid # {}
    <3>1. PICK t \in Threads : t \in valid
      BY <2>4 DEF Typed, TypeOK
    <3>2. next = WorkCount
      BY <3>1 DEF Joins
    <3>3. \A w \in Works : w < next
      BY <3>2, WorkCountIsNat DEF Works
    <3> QED BY <2>1, <2>2, <3>3 DEF ReturnComplete, Called, CallsOf
  <2> QED BY <2>3, <2>4
<1> QED BY <1>1, TypedAlways, StartedAlways, JoinsAlways, CalledAlways, PTL

-----------------------------------------------------------------------------
(* What the pool hands its caller: the output of each child, its exit      *)
(* code, and the promise of PoolSpec.                                      *)

\* What the caller is to read for a work: its own child's status, or -1.
Code(w) == IF child[w] = "reaped" THEN Status(w) ELSE -1

\* Where the owner of a work stands tells how far its child is and which code
\* its thread holds; a work without an owner has that code stored.
ChildOf(w) ==
  /\ w >= next => child[w] = "none" /\ exit_code[w] = 0
  /\ w < next /\ (\A t \in Threads : ~Owns(t, w)) =>
       child[w] # "running" /\ exit_code[w] = Code(w)
  /\ \A t \in Threads : Owns(t, w) =>
       /\ pc[t] \in {"begin", "beginCall", "pipe", "fork"} => child[w] = "none"
       /\ pc[t] \in {"close", "drain", "wait"} => child[w] \in {"running", "zombie"}
       /\ pc[t] \in {"pipe", "fork", "close", "drain", "wait"} => result[t] = -1
       /\ pc[t] \in {"end", "endCall", "store"} => child[w] # "running" /\ result[t] = Code(w)
       /\ pc[t] = "fork" => Hand \in ends[w]

\* A running child holds its own write ends, so the end of a stream is seen
\* only when the child is gone, and then all it wrote has been captured; a
\* stream on which a read failed is left out.
PipesOf(w) ==
  /\ child[w] = "running" => w \in ends[w]
  /\ child[w] \in {"zombie", "reaped"} => written[w] = plan[w].prints
  /\ \A s \in Streams : ~more[w][s] /\ s \notin lost[w] =>
       /\ child[w] \in {"zombie", "reaped"}
       /\ captured[w][s] = plan[w].prints[s]

Children == \A w \in Works : ChildOf(w)
Pipes    == \A w \in Works : PipesOf(w)

-----------------------------------------------------------------------------
\* A thread at work on one index leaves every other work as it is, and may only
\* add its child to the holders of the others' write ends.
LEMMA OtherWorks ==
  ASSUME Typed, NEW t \in Threads, Thread(t), NEW w \in Works, w # local[t]
  PROVE  /\ child'[w] = child[w] /\ plan'[w] = plan[w] /\ written'[w] = written[w]
         /\ captured'[w] = captured[w] /\ more'[w] = more[w] /\ lost'[w] = lost[w]
         /\ exit_code'[w] = exit_code[w] /\ ends[w] \subseteq ends'[w]
<1> DEFINE Same == /\ child'[w] = child[w] /\ plan'[w] = plan[w] /\ written'[w] = written[w]
                   /\ captured'[w] = captured[w] /\ more'[w] = more[w] /\ lost'[w] = lost[w]
                   /\ exit_code'[w] = exit_code[w] /\ ends[w] \subseteq ends'[w]
<1> USE DEF Typed, TypeOK, codes, process
<1>1. CASE ReadNext(t) \/ Claim(t) \/ StoreCode(t)
  BY <1>1 DEF ReadNext, Claim, StoreCode
<1>2. CASE EnterBegin(t) \/ LeaveBegin(t) \/ EnterEnd(t) \/ LeaveEnd(t)
  BY <1>2 DEF EnterBegin, LeaveBegin, EnterEnd, LeaveEnd
<1>3. CASE OpenPipes(t) \/ PipeFails(t)
  BY <1>3 DEF OpenPipes, PipeFails
<1>4. CASE Fork(t)
  BY <1>4 DEF Fork, Inherited
<1>5. CASE ForkFails(t) \/ CloseEnds(t)
  BY <1>5 DEF ForkFails, CloseEnds, WithoutHand
<1>6. CASE Drained(t) \/ SelectFails(t) \/ Wait(t) \/ WaitFails(t)
  BY <1>6 DEF Drained, SelectFails, Wait, WaitFails
<1>7. ASSUME NEW s \in Streams, ReadStream(t, s) PROVE Same
  BY <1>7 DEF ReadStream
<1>8. ASSUME NEW s \in Streams, ReadFails(t, s) PROVE Same
  BY <1>8 DEF ReadFails
<1> QED BY <1>1, <1>2, <1>3, <1>4, <1>5, <1>6, <1>7, <1>8 DEF Thread

\* The invariant of a work survives the steps of a thread that does not own it.
LEMMA OtherChildren ==
  ASSUME Typed, NEW t \in Threads, Thread(t), ~ReadNext(t), ~Claim(t),
         NEW w \in Works, w # local[t], ChildOf(w)
  PROVE  ChildOf(w)'
<1>0. UNCHANGED <<next, local>> /\ \A u \in Threads \ {t} : pc'[u] = pc[u]
  BY OwnerFrame DEF Typed, TypeOK
<1>1. \A u \in Threads : Owns(u, w)' <=> Owns(u, w)
  BY <1>0 DEF Owns
<1>2. \A u \in Threads : Owns(u, w) => pc'[u] = pc[u]
  BY <1>0 DEF Owns
<1>3. \A u \in Threads : Owns(u, w) => result'[u] = result[u]
  <2>1. result' = result \/ \E c : result' = [result EXCEPT ![t] = c]
    <3>1. CASE LeaveBegin(t) \/ Wait(t)
      BY <3>1 DEF LeaveBegin, Wait
    <3>2. CASE ~LeaveBegin(t) /\ ~Wait(t)
      BY <3>2 DEF Thread, StoreCode, EnterBegin, EnterEnd, LeaveEnd, OpenPipes, PipeFails,
                  Fork, ForkFails, CloseEnds, ReadStream, ReadFails, Drained, SelectFails, WaitFails, codes
    <3> QED BY <3>1, <3>2
  <2> QED BY <2>1 DEF Owns, Typed, TypeOK
<1>4. /\ child'[w] = child[w] /\ plan'[w] = plan[w]
      /\ exit_code'[w] = exit_code[w] /\ ends[w] \subseteq ends'[w]
  BY OtherWorks
<1>5. Code(w)' = Code(w)
  BY <1>4 DEF Code, Status
<1> QED BY <1>0, <1>1, <1>2, <1>3, <1>4, <1>5 DEF ChildOf

\* Steps of the owner keep the invariant of its work.
LEMMA OwnChild ==
  ASSUME Typed, OwnedOnce, NEW t \in Threads, Thread(t), ~ReadNext(t), ~Claim(t),
         ChildOf(local[t])
  PROVE  ChildOf(local[t])'
<1> DEFINE w == local[t]
<1>0. UNCHANGED <<next, local>> /\ pc[t] \in Owning /\ w < next /\ w \in Works
  BY OwnerFrame, OwnedIsWork DEF Typed, ClaimBounds
<1>1. \A u \in Threads : Owns(u, w) => u = t
  BY <1>0 DEF OwnedOnce, Owns
<1>2. \A u \in Threads : Owns(u, w)' => u = t
  <2>1. \A u \in Threads \ {t} : pc'[u] = pc[u]
    BY OwnerFrame DEF Typed, TypeOK
  <2> QED BY <1>0, <1>1, <2>1 DEF Owns
<1>3. w' = w
  BY <1>0
<1>4. Owns(t, w)
  BY <1>0 DEF Owns
<1> HIDE DEF w
<1>5. ~(w >= next') /\ ~(w >= next)
  BY <1>0, WorkCountIsNat DEF Typed, TypeOK, Works
<1> USE DEF ChildOf, Move, Typed, TypeOK, codes, process
<1>6. SUFFICES /\ ~Owns(t, w)' => (child[w] # "running" /\ exit_code[w] = Code(w))'
               /\ Owns(t, w)' =>
                    /\ pc'[t] \in {"begin", "beginCall", "pipe", "fork"} => child'[w] = "none"
                    /\ pc'[t] \in {"close", "drain", "wait"} => child'[w] \in {"running", "zombie"}
                    /\ pc'[t] \in {"pipe", "fork", "close", "drain", "wait"} => result'[t] = -1
                    /\ pc'[t] \in {"end", "endCall", "store"} => child'[w] # "running" /\ result'[t] = Code(w)'
                    /\ pc'[t] = "fork" => Hand \in ends'[w]
  BY <1>2, <1>3, <1>5 DEF w
<1> USE <1>0, <1>4 DEF Owns, Owning, w
<1>7. CASE StoreCode(t)
  <2>1. UNCHANGED <<child, plan>>
    BY <1>7 DEF StoreCode
  <2>2. Code(w)' = Code(w)
    BY <2>1, <1>3 DEF Code, Status
  <2> QED BY <1>7, <2>2 DEF StoreCode
<1>8. CASE EnterBegin(t)
  BY <1>8 DEF EnterBegin
<1>9. CASE LeaveBegin(t)
  BY <1>9 DEF LeaveBegin
<1>10. CASE EnterEnd(t)
  <2>1. UNCHANGED <<child, plan>>
    BY <1>10 DEF EnterEnd
  <2>2. Code(w)' = Code(w)
    BY <2>1, <1>3 DEF Code, Status
  <2> QED BY <1>10, <2>2 DEF EnterEnd
<1>11. CASE LeaveEnd(t)
  <2>1. UNCHANGED <<child, plan>>
    BY <1>11 DEF LeaveEnd
  <2>2. Code(w)' = Code(w)
    BY <2>1, <1>3 DEF Code, Status
  <2> QED BY <1>11, <2>2 DEF LeaveEnd
<1>12. CASE OpenPipes(t)
  BY <1>12 DEF OpenPipes
<1>13. CASE PipeFails(t)
  <2>1. UNCHANGED <<child, plan>>
    BY <1>13 DEF PipeFails
  <2>2. Code(w)' = Code(w)
    BY <2>1, <1>3 DEF Code, Status
  <2>3. child[w] = "none" /\ Code(w) = -1
    BY <1>13 DEF PipeFails, Code
  <2> QED BY <1>13, <2>1, <2>2, <2>3 DEF PipeFails
<1>14. CASE Fork(t)
  BY <1>14 DEF Fork, Inherited
<1>15. CASE ForkFails(t)
  <2>1. UNCHANGED <<child, plan>>
    BY <1>15 DEF ForkFails
  <2>2. Code(w)' = Code(w)
    BY <2>1, <1>3 DEF Code, Status
  <2>3. child[w] = "none" /\ Code(w) = -1
    BY <1>15 DEF ForkFails, Code
  <2> QED BY <1>15, <2>1, <2>2, <2>3 DEF ForkFails, WithoutHand
<1>16. CASE CloseEnds(t)
  BY <1>16 DEF CloseEnds, WithoutHand
<1>17. CASE Drained(t)
  BY <1>17 DEF Drained
<1>18. CASE SelectFails(t)
  BY <1>18 DEF SelectFails
<1>19. CASE Wait(t)
  BY <1>19 DEF Wait, Status, Code
<1>20. CASE WaitFails(t)
  BY <1>20 DEF WaitFails, Code
<1>21. CASE \E s \in Streams : ReadStream(t, s) \/ ReadFails(t, s)
  BY <1>21 DEF ReadStream, ReadFails
<1> QED BY <1>7, <1>8, <1>9, <1>10, <1>11, <1>12, <1>13, <1>14, <1>15, <1>16, <1>17, <1>18, <1>19, <1>20, <1>21 DEF Thread

\* Every step keeps what is known of a child while its owner moves on: from the
\* fork in linux_exec_process to the store of its exit code.
LEMMA ChildrenStep ==
  Typed /\ Started /\ OwnedOnce /\ Children /\ [Next]_vars => Children'
<1> SUFFICES ASSUME Typed, Started, OwnedOnce, Children, [Next]_vars, NEW w \in Works
             PROVE  ChildOf(w)'
  BY DEF Children
<1>0. ChildOf(w)
  BY DEF Children
<1> USE DEF Typed, TypeOK
<1>1. CASE Main
  <2>1. \A u \in Threads : Owns(u, w)' <=> Owns(u, w)
    <3>1. CASE CreateThread
      BY <3>1 DEF CreateThread, Started, Owns, Owning, claims
    <3>2. CASE ~CreateThread
      BY <1>1, <3>2 DEF Main, InitLock, StartJoining, JoinThread, Return, Owns, claims
    <3> QED BY <3>1, <3>2
  <2>2. \A u \in Threads : Owns(u, w) => pc'[u] = pc[u]
    <3>1. CASE CreateThread
      BY <3>1 DEF CreateThread, Started, Owns, Owning
    <3>2. CASE ~CreateThread
      BY <1>1, <3>2 DEF Main, InitLock, StartJoining, JoinThread, Return
    <3> QED BY <3>1, <3>2
  <2>3. UNCHANGED <<claims, codes, process>>
    BY <1>1 DEF Main, InitLock, CreateThread, StartJoining, JoinThread, Return
  <2> QED BY <1>0, <2>1, <2>2, <2>3 DEF ChildOf, Code, Status, claims, codes, process
<1>2. ASSUME NEW t \in Threads, Thread(t) PROVE ChildOf(w)'
  <2>1. CASE ReadNext(t)
    <3>1. \A u \in Threads : Owns(u, w)' <=> Owns(u, w)
      BY <2>1 DEF ReadNext, Move, Owns, Owning
    <3>2. \A u \in Threads : Owns(u, w) => pc'[u] = pc[u]
      BY <2>1 DEF ReadNext, Move, Owns, Owning
    <3>3. UNCHANGED <<next, codes, process>>
      BY <2>1 DEF ReadNext
    <3> QED BY <1>0, <3>1, <3>2, <3>3 DEF ChildOf, Code, Status, codes, process
  <2>2. CASE Claim(t) /\ (next # local[t] \/ w # local[t])
    <3>1. \A u \in Threads : Owns(u, w)' <=> Owns(u, w)
      BY <2>2 DEF Claim, Move, Owns, Owning
    <3>2. \A u \in Threads : Owns(u, w) => pc'[u] = pc[u]
      BY <2>2 DEF Claim, Move, Owns, Owning
    <3>3. UNCHANGED <<codes, process>>
      BY <2>2 DEF Claim
    <3>4. (w >= next' => w >= next) /\ (w < next' => w < next)
      BY <2>2 DEF Claim, Works
    <3> QED BY <1>0, <3>1, <3>2, <3>3, <3>4 DEF ChildOf, Code, Status, codes, process
  <2>3. CASE Claim(t) /\ next = local[t] /\ w = local[t]
    <3>1. pc' = [pc EXCEPT ![t] = "begin"] /\ next' = w + 1 /\ local' = local
      BY <2>3 DEF Claim, Move
    <3>2. child'[w] = "none" /\ w < next' /\ ~(w >= next')
      BY <1>0, <2>3, <3>1 DEF Claim, ChildOf, process, Works
    <3>3. \A u \in Threads : ~Owns(u, w)
      BY <2>3 DEF Owns, ClaimBounds
    <3>4. \A u \in Threads : Owns(u, w)' => u = t
      BY <3>1, <3>3 DEF Owns
    <3>5. Owns(t, w)' /\ pc'[t] = "begin"
      BY <2>3, <3>1 DEF Owns, Owning
    <3> QED BY <3>2, <3>4, <3>5 DEF ChildOf
  <2>4. CASE ~ReadNext(t) /\ ~Claim(t) /\ w # local[t]
    BY <1>0, <1>2, <2>4, OtherChildren
  <2>5. CASE ~ReadNext(t) /\ ~Claim(t) /\ w = local[t]
    <3>1. local' = local
      BY <1>2, <2>5, OwnerFrame
    <3> QED BY <1>0, <1>2, <2>5, <3>1, OwnChild
  <2> QED BY <2>1, <2>2, <2>3, <2>4, <2>5
<1>3. ASSUME NEW v \in Works, Child(v) PROVE ChildOf(w)'
  <2>1. UNCHANGED <<pc, claims, codes, plan>>
    BY <1>3 DEF Child, ChildExits, ChildWrites
  <2>2. CASE ChildExits(v)
    <3>1. child'[w] = child[w] \/ (child[w] = "running" /\ child'[w] = "zombie")
      BY <2>2 DEF ChildExits
    <3>2. Hand \in ends[w] => Hand \in ends'[w]
      BY <2>2 DEF ChildExits, Hand, Works
    <3> QED BY <1>0, <2>1, <3>1, <3>2 DEF ChildOf, Code, Status, Owns, Owning, claims, codes
  <2>3. CASE ~ChildExits(v)
    <3>1. UNCHANGED <<child, ends>>
      BY <1>3, <2>3 DEF Child, ChildWrites
    <3> QED BY <1>0, <2>1, <3>1 DEF ChildOf, Code, Status, Owns, claims, codes
  <2> QED BY <2>2, <2>3
<1>4. CASE UNCHANGED vars
  BY <1>0, <1>4 DEF vars, ChildOf, Code, Status, Owns, claims, codes, process
<1> QED BY <1>1, <1>2, <1>3, <1>4 DEF Next, Returned

\* It holds in every reachable state.
LEMMA ChildrenAlways == Spec => []Children
<1>1. Init => Children
  BY WorkCountIsNat DEF Init, Children, ChildOf, Owns, Owning, Works
<1> QED BY <1>1, ChildrenStep, TypedAlways, StartedAlways, EveryWorkOwnedOnce, PTL DEF Spec

\* The exit code read after the return is the status of the work's own child.
THEOREM CodesAreStatuses == Spec => []CodesMatch
<1>1. Typed /\ Started /\ Joins /\ Called /\ Children => CodesMatch
  <2> SUFFICES ASSUME Typed, Started, Joins, Called, Children, main = "returned",
                      NEW w \in Works, ended[w] > 0
               PROVE  child[w] # "running" /\ exit_code[w] = Code(w)
    BY DEF CodesMatch, Code
  <2>1. \A t \in Threads : ~Owns(t, w)
    BY DEF Started, Joins, Owns, Owning
  <2>2. w < next
    BY DEF Called, CallsOf, Works, Typed, TypeOK
  <2> QED BY <2>1, <2>2 DEF Children, ChildOf
<1> QED BY <1>1, TypedAlways, StartedAlways, JoinsAlways, CalledAlways, ChildrenAlways, PTL

\* Only a prepared work ever runs a program of its own.
Plans == \A w \in Works \ Prepared : plan[w] = NoDirectory

\* A child of a work without a checkout can only be the one whose chdir fails.
LEMMA PlansStep == Typed /\ Plans /\ [Next]_vars => Plans'
<1> SUFFICES ASSUME Typed, Plans, [Next]_vars PROVE Plans'
  OBVIOUS
<1>1. CASE UNCHANGED plan
  BY <1>1 DEF Plans
<1>2. ASSUME NEW t \in Threads, Fork(t) PROVE Plans'
  BY <1>2 DEF Plans, Fork, Typed, TypeOK
<1>3. CASE Main
  BY <1>1, <1>3 DEF Main, InitLock, CreateThread, StartJoining, JoinThread, Return, process
<1>4. ASSUME NEW t \in Threads, Thread(t), ~Fork(t) PROVE Plans'
  BY <1>1, <1>4 DEF Thread, ReadNext, Claim, StoreCode, EnterBegin, LeaveBegin, EnterEnd,
     LeaveEnd, OpenPipes, PipeFails, ForkFails, CloseEnds, ReadStream, ReadFails, Drained, SelectFails,
     Wait, WaitFails, process
<1>5. ASSUME NEW w \in Works, Child(w) PROVE Plans'
  BY <1>1, <1>5 DEF Child, ChildExits, ChildWrites
<1>6. CASE UNCHANGED vars
  BY <1>1, <1>6 DEF vars, process
<1> QED BY <1>2, <1>3, <1>4, <1>5, <1>6 DEF Next, Returned

\* A repository that could not be checked out is never scored as a success.
THEOREM UnpreparedNeverSucceed == Spec => []UnpreparedFails
<1>1. Init => Plans
  BY DEF Init, Plans
<1>2. Typed /\ Called /\ Children /\ Plans => UnpreparedFails
  <2> SUFFICES ASSUME Typed, Called, Children, Plans, NEW w \in Works \ Prepared,
                      ended[w] > 0, \A t \in Threads : pc[t] \in Owning => local[t] # w
               PROVE  exit_code[w] # 0
    BY DEF UnpreparedFails
  <2>1. \A t \in Threads : ~Owns(t, w)
    BY DEF Owns
  <2>2. w < next
    BY DEF Called, CallsOf, Works, Typed, TypeOK
  <2>3. exit_code[w] = Code(w)
    BY <2>1, <2>2 DEF Children, ChildOf
  <2>4. Code(w) = -1 \/ Code(w) = 255
    BY DEF Code, Status, Plans, NoDirectory
  <2> QED BY <2>3, <2>4
<1> QED BY <1>1, <1>2, PlansStep, TypedAlways, CalledAlways, ChildrenAlways, PTL DEF Spec

-----------------------------------------------------------------------------
(* Output.                                                                 *)

\* Every step keeps the pipes consistent: read at most what was written, written
\* at most what is printed, and the end of a stream seen only after its child ended.
LEMMA PipesStep ==
  Typed /\ OwnedOnce /\ Children /\ Pipes /\ [Next]_vars => Pipes'
<1> SUFFICES ASSUME Typed, OwnedOnce, Children, Pipes, [Next]_vars, NEW w \in Works
             PROVE  PipesOf(w)'
  BY DEF Pipes
<1>0. PipesOf(w) /\ ChildOf(w)
  BY DEF Pipes, Children
<1> USE DEF Typed, TypeOK
<1>1. CASE UNCHANGED process
  BY <1>0, <1>1 DEF PipesOf, process
<1>2. ASSUME NEW t \in Threads, Thread(t), w # local[t] PROVE PipesOf(w)'
  BY <1>0, <1>2, OtherWorks DEF PipesOf
<1>3. ASSUME NEW t \in Threads, Thread(t), w = local[t] PROVE PipesOf(w)'
  <2>1. CASE OpenPipes(t)
    <3>1. child[w] = "none" /\ UNCHANGED <<child, plan, written, captured, more, lost>>
      BY <1>0, <1>3, <2>1 DEF OpenPipes, Move, ChildOf, Owns, Owning
    <3> QED BY <1>0, <3>1 DEF PipesOf
  <2>2. CASE Fork(t)
    <3>1. Owns(t, w) /\ child[w] = "none" /\ Hand \in ends[w]
      BY <1>0, <1>3, <2>2 DEF Fork, Move, ChildOf, Owns, Owning
    <3>2. child'[w] = "running" /\ w \in ends'[w] /\ more' = more /\ lost' = lost
      BY <1>3, <2>2, <3>1 DEF Fork, Inherited
    <3> QED BY <1>0, <3>1, <3>2 DEF PipesOf
  <2>3. CASE ForkFails(t) \/ CloseEnds(t)
    <3>1. UNCHANGED <<child, plan, written, captured, more, lost>> /\ ends' = WithoutHand(w)
      BY <1>3, <2>3 DEF ForkFails, CloseEnds
    <3>2. w \in ends[w] => w \in ends'[w]
      BY <3>1 DEF WithoutHand, Hand, Works
    <3> QED BY <1>0, <3>1, <3>2 DEF PipesOf
  <2>4. ASSUME NEW s \in Streams, ReadStream(t, s) PROVE PipesOf(w)'
    <3>2. UNCHANGED <<child, plan, written, ends, lost>> /\ more[w][s]
      BY <1>3, <2>4 DEF ReadStream
    <3>3. CASE UNCHANGED more
      <4>1. \A r \in Streams : ~more[w][r] => captured'[w][r] = captured[w][r]
        <5>1. CASE UNCHANGED captured
          BY <5>1
        <5>2. CASE ~UNCHANGED captured
          <6>1. PICK n \in 1..Buffered(w, s) : captured' = [captured EXCEPT ![w][s] = @ + n]
            BY <1>3, <2>4, <5>2 DEF ReadStream
          <6>2. captured'[w] = [captured[w] EXCEPT ![s] = @ + n]
            BY <6>1
          <6>3. captured[w] \in Output
            OBVIOUS
          <6> QED BY <3>2, <6>2, <6>3 DEF Output
        <5> QED BY <5>1, <5>2
      <4> QED BY <1>0, <3>2, <3>3, <4>1 DEF PipesOf
    <3>4. CASE ~UNCHANGED more
      <4>1. captured' = captured /\ Buffered(w, s) = 0 /\ ends[w] = {}
        BY <1>3, <2>4, <3>4 DEF ReadStream
      <4>2. more' = [more EXCEPT ![w][s] = FALSE]
        BY <1>3, <2>4, <3>4 DEF ReadStream
      <4>3. captured[w][s] = written[w][s]
        <5>1. captured[w] \in Output /\ written[w] \in Output
          OBVIOUS
        <5>2. captured[w][s] \in Nat /\ written[w][s] \in Nat
          BY <5>1 DEF Output
        <5>3. written[w][s] - captured[w][s] = 0
          BY <4>1 DEF Buffered
        <5>4. \A i, j \in Nat : i - j = 0 => j = i
          OBVIOUS
        <5> QED BY <5>2, <5>3, <5>4
      <4>4. pc[t] = "drain" /\ Owns(t, w)
        BY <1>3, <2>4 DEF ReadStream, Owns, Owning
      <4>5. child[w] = "zombie"
        BY <1>0, <4>1, <4>4 DEF ChildOf, PipesOf
      <4>6. \A r \in Streams : ~more'[w][r] => ~more[w][r] \/ r = s
        BY <4>2
      <4> QED BY <1>0, <3>2, <4>1, <4>3, <4>5, <4>6 DEF PipesOf
    <3> QED BY <3>3, <3>4
  <2>5. CASE Wait(t)
    <3>1. /\ UNCHANGED <<plan, written, captured, more>>
          /\ child[w] = "zombie" /\ child'[w] = "reaped" /\ lost' = lost
      BY <1>3, <2>5 DEF Wait
    <3> QED BY <1>0, <3>1 DEF PipesOf
  <2>6. CASE ReadNext(t) \/ Claim(t) \/ StoreCode(t)
    BY <1>1, <2>6 DEF ReadNext, Claim, StoreCode
  <2>7. CASE EnterBegin(t) \/ LeaveBegin(t) \/ EnterEnd(t) \/ LeaveEnd(t)
    BY <1>1, <2>7 DEF EnterBegin, LeaveBegin, EnterEnd, LeaveEnd
  <2>8. CASE PipeFails(t) \/ Drained(t) \/ SelectFails(t) \/ WaitFails(t)
    BY <1>1, <2>8 DEF PipeFails, Drained, SelectFails, WaitFails
  <2>9. ASSUME NEW s \in Streams, ReadFails(t, s) PROVE PipesOf(w)'
    <3>1. UNCHANGED <<child, plan, written, captured, ends>>
      BY <2>9 DEF ReadFails
    <3>2. \A r \in Streams : ~more'[w][r] /\ r \notin lost'[w] => ~more[w][r] /\ r \notin lost[w]
      BY <1>3, <2>9 DEF ReadFails
    <3> QED BY <1>0, <3>1, <3>2 DEF PipesOf
  <2> QED BY <1>3, <2>1, <2>2, <2>3, <2>4, <2>5, <2>6, <2>7, <2>8, <2>9 DEF Thread
<1>4. ASSUME NEW v \in Works, ChildExits(v) PROVE PipesOf(w)'
  <2>1. UNCHANGED <<plan, written, captured, more, lost>>
    BY <1>4 DEF ChildExits
  <2>2. CASE w = v
    <3>1. child'[w] = "zombie" /\ child[w] = "running" /\ written[w] = plan[w].prints
      BY <1>4, <2>2 DEF ChildExits
    <3> QED BY <1>0, <2>1, <3>1 DEF PipesOf
  <2>3. CASE w # v
    <3>1. child'[w] = child[w] /\ (w \in ends[w] => w \in ends'[w])
      BY <1>4, <2>3 DEF ChildExits
    <3> QED BY <1>0, <2>1, <3>1 DEF PipesOf
  <2> QED BY <2>2, <2>3
<1>5. ASSUME NEW v \in Works, NEW s \in Streams, ChildWrites(v, s) PROVE PipesOf(w)'
  <2>1. UNCHANGED <<child, plan, captured, ends, more, lost>>
    BY <1>5 DEF ChildWrites
  <2>2. child[w] # "running" => written'[w] = written[w]
    BY <1>5 DEF ChildWrites
  <2> QED BY <1>0, <2>1, <2>2 DEF PipesOf
<1>6. CASE Main
  BY <1>1, <1>6 DEF Main, InitLock, CreateThread, StartJoining, JoinThread, Return
<1>7. CASE UNCHANGED vars
  BY <1>1, <1>7 DEF vars
<1> QED BY <1>2, <1>3, <1>4, <1>5, <1>6, <1>7 DEF Next, Returned, Child

\* The pipes are consistent in every reachable state.
LEMMA PipesAlways == Spec => []Pipes
<1>1. Init => Pipes
  BY DEF Init, Pipes, PipesOf
<1> QED BY <1>1, PipesStep, TypedAlways, EveryWorkOwnedOnce, ChildrenAlways, PTL DEF Spec

\* Whichever system calls fail: a stream the thread read to its end has all the
\* child printed on it in the buffer, whoever else had inherited its write end and
\* whatever became of the other stream. Only a stream whose own read failed, which
\* linux_exec_process cannot tell from one that ended, is left out.
THEOREM OutputIsComplete == Spec => []OutputComplete
<1>1. Typed /\ Pipes => OutputComplete
  <2> SUFFICES ASSUME Typed, Pipes, NEW t \in Threads,
                      pc[t] \in {"wait", "end", "endCall", "store"},
                      NEW s \in Streams, ~more[local[t]][s], s \notin lost[local[t]]
               PROVE  captured[local[t]][s] = plan[local[t]].prints[s]
    BY DEF OutputComplete
  <2>1. local[t] \in Works
    BY OwnedIsWork DEF Owning
  <2> QED BY <2>1 DEF Pipes, PipesOf
<1> QED BY <1>1, TypedAlways, PipesAlways, PTL

-----------------------------------------------------------------------------
(* The pool implements PoolSpec.                                           *)

StageMap == [w \in Works |-> Stage(w)]

\* Stage by stage: who owns a work decides what the abstract call sees of it.
LEMMA StageCases ==
  ASSUME Typed, NEW w \in Works
  PROVE  /\ w >= next => Stage(w) = "pending"
         /\ w < next /\ (\E t \in Threads : Owns(t, w)) => Stage(w) = "running"
         /\ w < next /\ (\A t \in Threads : ~Owns(t, w)) => Stage(w) = "done"
BY DEF Stage, Owns, Typed, TypeOK, Works

\* A step that leaves claims and ownership alone leaves every stage alone.
LEMMA SameStages ==
  ASSUME next' = next, \A t \in Threads, w \in Works : Owns(t, w)' <=> Owns(t, w)
  PROVE  StageMap' = StageMap
<1>1. ASSUME NEW w \in Works PROVE Stage(w)' = Stage(w)
  BY <1>1 DEF Stage, Owns
<1> QED BY <1>1 DEF StageMap

\* The pool starts where the promise starts: every work pending with code 0.
LEMMA PromiseInit == Init => Promise!Init
<1> SUFFICES ASSUME Init PROVE Promise!Init
  OBVIOUS
<1>1. \A w \in Works : Stage(w) = "pending"
  BY DEF Init, Stage, Works
<1> QED BY <1>1 DEF Init, Promise!Init, Promise!Works, Works

\* A successful compare-and-swap takes the first pending work.
LEMMA ClaimTakes ==
  ASSUME Typed, Joins, Started, NEW t \in Threads, Claim(t), next = local[t]
  PROVE  Promise!Take(next)
<1>1. next \in Works /\ next' = next + 1 /\ pc[t] = "claim"
  <2>1. pc[t] = "claim" /\ next' = next + 1
    BY DEF Claim, Move
  <2>2. next < WorkCount /\ next \in Nat
    BY <2>1, WorkCountIsNat DEF Typed, TypeOK, ClaimBounds
  <2> QED BY <2>1, <2>2, WorkCountIsNat DEF Works
<1>2. main # "returned" /\ main' = main /\ exit_code' = exit_code
  BY <1>1 DEF Joins, Started, Claim, control, codes
<1>3. \A w \in Works : w <= next => (Stage(w) = "pending" <=> w = next)
  BY <1>1 DEF Stage, Works, Typed, TypeOK
<1>4. ASSUME NEW w \in Works PROVE Stage(w)' = IF w = next THEN "running" ELSE Stage(w)
  <2>1. CASE w = next
    <3>1. pc'[t] = "begin" /\ local'[t] = w /\ w < next'
      BY <1>1, <2>1 DEF Claim, Move, Typed, TypeOK
    <3> QED BY <2>1, <3>1, <1>1 DEF Stage, Owning, Works
  <2>2. CASE w # next
    <3>1. \A u \in Threads : Owns(u, w)' <=> Owns(u, w)
      BY <1>1, <2>2 DEF Claim, Move, Owns, Owning, Typed, TypeOK
    <3>2. next' <= w <=> next <= w
      BY <1>1, <2>2 DEF Works
    <3> QED BY <2>2, <3>1, <3>2 DEF Stage, Owns
  <2> QED BY <2>1, <2>2
<1>5. StageMap' = [StageMap EXCEPT ![next] = "running"]
  BY <1>1, <1>4 DEF StageMap
<1>6. StageMap[next] = "pending" /\ \A v \in Works : v < next => StageMap[v] # "pending"
  BY <1>1, <1>3 DEF StageMap, Works
<1> QED BY <1>2, <1>5, <1>6 DEF Promise!Take, Promise!Works, StageMap, Works

\* Storing the exit code finishes the work.
LEMMA StoreFinishes ==
  ASSUME Typed, OwnedOnce, Joins, Started, NEW t \in Threads, StoreCode(t)
  PROVE  Promise!Finish(local[t])
<1> DEFINE w == local[t]
<1>1. w \in Works /\ w < next /\ pc[t] = "store" /\ Owns(t, w)
  BY OwnedIsWork DEF StoreCode, Move, Owns, Owning, Typed, ClaimBounds
<1>2. main # "returned" /\ UNCHANGED <<main, next, local>>
  BY <1>1 DEF Joins, Started, StoreCode, control, claims
<1>3. exit_code' = [exit_code EXCEPT ![w] = result[t]] /\ result[t] \in ExitCodes
  BY DEF StoreCode, Typed, TypeOK
<1>4. ASSUME NEW v \in Works PROVE Stage(v)' = IF v = w THEN "done" ELSE Stage(v)
  <2>1. \A u \in Threads : Owns(u, v)' <=> Owns(u, v) /\ u # t
    BY <1>1, <1>2 DEF StoreCode, Move, Owns, Owning, Typed, TypeOK
  <2>2. v = w => \A u \in Threads : Owns(u, v) => u = t
    BY <1>1 DEF OwnedOnce, Owns
  <2>3. v # w => ~Owns(t, v)
    BY DEF Owns
  <2>4. CASE v = w
    BY <1>1, <1>2, <2>1, <2>2, <2>4 DEF Stage, Owns, Works, Typed, TypeOK
  <2>5. CASE v # w
    BY <1>2, <2>1, <2>3, <2>5 DEF Stage, Owns
  <2> QED BY <2>4, <2>5
<1>5. StageMap' = [StageMap EXCEPT ![w] = "done"]
  BY <1>1, <1>4 DEF StageMap
<1>6. StageMap[w] = "running"
  BY <1>1, StageCases DEF StageMap
<1> QED BY <1>2, <1>3, <1>5, <1>6 DEF Promise!Finish, StageMap

\* The call returns when every work is done, or with none begun.
LEMMA ReturnReturns ==
  ASSUME Typed, Started, Joins, main # "returned", main' = "returned", Main
  PROVE  Promise!Return
<1>1. (InitLock \/ Return) /\ UNCHANGED <<valid, pc, claims, codes>>
  BY DEF Main, InitLock, CreateThread, StartJoining, JoinThread, Return
<1>2. StageMap' = StageMap
  <2>1. next' = next /\ \A t \in Threads, w \in Works : Owns(t, w)' <=> Owns(t, w)
    BY <1>1 DEF claims, Owns
  <2> QED BY <2>1, SameStages
<1>3. exit_code' = exit_code
  BY <1>1 DEF codes
<1>4. CASE valid = {}
  <2>1. \A w \in Works : Stage(w) = "pending"
    BY <1>4 DEF Joins, Stage, Works
  <2> QED BY <1>2, <1>3, <2>1 DEF Promise!Return, Promise!Works, StageMap, Works
<1>5. CASE valid # {}
  <2>1. Return
    BY <1>1, <1>5 DEF Started, InitLock
  <2>2. \A t \in valid : t < at
    BY <2>1, ThreadCountIsNat DEF Return, Typed, TypeOK, Threads
  <2>3. \A t \in valid : pc[t] = "exit"
    BY <2>1, <2>2 DEF Return, Joins
  <2>4. next = WorkCount
    <3>1. PICK t \in Threads : t \in valid
      BY <1>5 DEF Typed, TypeOK
    <3> QED BY <2>3, <3>1 DEF Joins
  <2>5. \A t \in Threads, w \in Works : ~Owns(t, w)
    BY <2>3 DEF Started, Owns, Owning
  <2>6. \A w \in Works : Stage(w) = "done"
    BY <2>4, <2>5, WorkCountIsNat DEF Stage, Owns, Works
  <2> QED BY <1>2, <1>3, <2>6 DEF Promise!Return, Promise!Works, StageMap, Works
<1> QED BY <1>4, <1>5

\* Every step of the pool takes a work, finishes one, returns, or is invisible to
\* the caller.
LEMMA PromiseStep ==
  Typed /\ Started /\ OwnedOnce /\ Joins /\ [Next]_vars => [Promise!Next]_(Promise!vars)
<1> SUFFICES ASSUME Typed, Started, OwnedOnce, Joins, [Next]_vars
             PROVE  Promise!Next \/ UNCHANGED Promise!vars
  OBVIOUS
<1>0. ASSUME UNCHANGED <<main, next, exit_code>>,
             \A t \in Threads, w \in Works : Owns(t, w)' <=> Owns(t, w)
      PROVE  UNCHANGED Promise!vars
  BY <1>0, SameStages DEF Promise!vars, StageMap
<1>1. CASE Main
  <2>1. CASE main # "returned" /\ main' = "returned"
    BY <1>1, <2>1, ReturnReturns DEF Promise!Next
  <2>2. CASE ~(main # "returned" /\ main' = "returned")
    <3>1. (main = "returned") <=> (main' = "returned")
      BY <1>1, <2>2 DEF Main, InitLock, CreateThread, StartJoining, JoinThread, Return
    <3>2. UNCHANGED <<next, local, exit_code>>
      BY <1>1 DEF Main, InitLock, CreateThread, StartJoining, JoinThread, Return, claims, codes
    <3>3. \A t \in Threads, w \in Works : Owns(t, w)' <=> Owns(t, w)
      <4>1. CASE CreateThread
        BY <4>1 DEF CreateThread, Started, Owns, Owning, claims, Typed, TypeOK
      <4>2. CASE ~CreateThread
        BY <1>1, <4>2 DEF Main, InitLock, StartJoining, JoinThread, Return, Owns, claims
      <4> QED BY <4>1, <4>2
    <3> QED BY <3>1, <3>2, <3>3, SameStages DEF Promise!vars, StageMap
  <2> QED BY <2>1, <2>2
<1>2. ASSUME NEW t \in Threads, Thread(t) PROVE Promise!Next \/ UNCHANGED Promise!vars
  <2>1. CASE Claim(t) /\ next = local[t]
    <3>1. next \in Promise!Works
      <4>1. next < WorkCount /\ next \in Nat
        BY <2>1, WorkCountIsNat DEF Claim, Move, Typed, TypeOK, ClaimBounds
      <4> QED BY <4>1, WorkCountIsNat DEF Promise!Works
    <3> QED BY <2>1, <3>1, ClaimTakes DEF Promise!Next
  <2>2. CASE StoreCode(t)
    <3>1. local[t] \in Promise!Works
      BY <2>2, OwnedIsWork DEF StoreCode, Move, Owning, Promise!Works, Works
    <3> QED BY <2>2, <3>1, StoreFinishes DEF Promise!Next
  <2>3. CASE ReadNext(t) \/ (Claim(t) /\ next # local[t])
    <3>1. UNCHANGED <<main, next, exit_code>>
      BY <2>3 DEF ReadNext, Claim, control, codes
    <3>2. \A u \in Threads, w \in Works : Owns(u, w)' <=> Owns(u, w)
      BY <2>3 DEF ReadNext, Claim, Move, Owns, Owning, Typed, TypeOK
    <3> QED BY <1>0, <3>1, <3>2
  <2>4. CASE ~ReadNext(t) /\ ~Claim(t) /\ ~StoreCode(t)
    <3>1. UNCHANGED <<control, next, local>> /\ pc[t] \in Owning
      BY <1>2, <2>4, OwnerFrame
    <3>2. exit_code' = exit_code
      BY <1>2, <2>4 DEF Thread, EnterBegin, LeaveBegin, EnterEnd, LeaveEnd, OpenPipes,
         PipeFails, Fork, ForkFails, CloseEnds, ReadStream, ReadFails, Drained, SelectFails, Wait,
         WaitFails, codes
    <3>3. pc'[t] \in Owning
      BY <1>2, <2>4 DEF Thread, EnterBegin, LeaveBegin, EnterEnd, LeaveEnd, OpenPipes,
         PipeFails, Fork, ForkFails, CloseEnds, ReadStream, ReadFails, Drained, SelectFails, Wait,
         WaitFails, Move, Owning, Typed, TypeOK
    <3>4. \A u \in Threads \ {t} : pc'[u] = pc[u]
      BY <1>2, <2>4, OwnerFrame DEF Typed, TypeOK
    <3>5. \A u \in Threads, w \in Works : Owns(u, w)' <=> Owns(u, w)
      BY <3>1, <3>3, <3>4 DEF Owns
    <3> QED BY <1>0, <3>1, <3>2, <3>5 DEF control
  <2> QED BY <2>1, <2>2, <2>3, <2>4
<1>3. ASSUME NEW v \in Works, Child(v) PROVE UNCHANGED Promise!vars
  BY <1>0, <1>3 DEF Child, ChildExits, ChildWrites, control, claims, codes, Owns
<1>4. CASE UNCHANGED vars
  BY <1>0, <1>4 DEF vars, control, claims, codes, Owns
<1> QED BY <1>1, <1>2, <1>3, <1>4 DEF Next, Returned

\* The thread pool implements the abstract call: works are taken in index order,
\* finished once, and all of them before the call returns.
THEOREM PoolKeepsPromise == Spec => PromiseSafety
<1> QED BY PromiseInit, PromiseStep, TypedAlways, StartedAlways, EveryWorkOwnedOnce, JoinsAlways, PTL
        DEF Spec, PromiseSafety, Promise!Spec

=============================================================================
