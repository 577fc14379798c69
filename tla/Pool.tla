-------------------------------- MODULE Pool --------------------------------
(***************************************************************************)
(* The Linux thread pool that runs the grade commands:                     *)
(* linux_wait_for_completion creates the threads and joins them, every     *)
(* thread claims works by compare-and-swap on next_to_work and runs each   *)
(* one in a child process whose stdout and stderr it drains through pipes. *)
(* One action is one step another thread can observe.                      *)
(*                                                                         *)
(* A byte of output is a unit of a counter; what is printed, the log files *)
(* and the wording of the callbacks are abstracted away.                   *)
(***************************************************************************)
EXTENDS Integers, FiniteSets

CONSTANTS
  ThreadCount,  \* thread_count, the configured grade_thread
  WorkCount,    \* work_count, the number of student repositories
  PipeCap,      \* bytes a pipe holds before a write blocks
  Programs,     \* what a grade command may do: output per stream and status
  Prepared,     \* works whose checkout succeeded, so that work_dir is set
  Faults        \* system calls that may fail in this instance

Threads  == 0..ThreadCount - 1
Works    == 0..WorkCount - 1
Streams  == {"out", "err"}
Hand     == -1                  \* the process id of hand itself
Procs    == {Hand} \cup Works   \* a child is named after its work
NoThread == -1

ExitCodes == -1..255
Output    == [Streams -> Nat]
Program   == [prints : Output, status : 0..255, killed : BOOLEAN]

\* Mutant: the child that cannot enter its directory exits with success.
NoDirectory_ExitsZero == [prints |-> [s \in Streams |-> 0], status |-> 0, killed |-> FALSE]

\* A child whose chdir fails leaves through exit(-1) without running /bin/sh.
NoDirectory == [prints |-> [s \in Streams |-> 0], status |-> 255, killed |-> FALSE]

ASSUME ThreadCountIsNat == ThreadCount \in Nat
ASSUME WorkCountIsNat   == WorkCount \in Nat
ASSUME PipeCapIsPos     == PipeCap \in Nat \ {0}
ASSUME ProgramsAreTyped == Programs \subseteq Program
ASSUME PreparedAreWorks == Prepared \subseteq Works
ASSUME FaultsAreCalls   == Faults \subseteq {"mutex", "thread", "pipe", "fork", "select", "read", "wait"}

-----------------------------------------------------------------------------
VARIABLES
  main,       \* where linux_wait_for_completion stands
  at,         \* its loop index i, in the creating and in the joining loop
  valid,      \* threads with thread_is_valid[i] set
  pc,         \* where each thread stands
  next,       \* the shared next_to_work
  local,      \* each thread's own copy of next_to_work
  lock,       \* holder of callback_lock
  result,     \* each thread's local exit_code
  exit_code,  \* works[i].exit_code, zeroed by the caller
  began,      \* calls of on_progression so far, per work
  ended,      \* calls of on_completion so far, per work
  child,      \* state of each work's child process
  plan,       \* what each child is going to do
  written,    \* bytes each child has written, per stream
  captured,   \* bytes read from each child, per stream
  ends,       \* processes that hold the write ends of each work's pipes
  more,       \* more_stdout and more_stderr
  lost        \* history: the streams of each work on which a read failed

control == <<main, at, valid>>
claims  == <<next, local>>
calls   == <<lock, began, ended>>
codes   == <<result, exit_code>>
process == <<child, plan, written, captured, ends, more, lost>>
vars    == <<control, pc, claims, calls, codes, process>>

Locations == {"off", "read", "claim", "begin", "beginCall", "pipe", "fork", "close",
              "drain", "wait", "end", "endCall", "store", "exit"}

TypeOK ==
  /\ main \in {"init", "create", "join", "returned"}
  /\ at \in 0..ThreadCount
  /\ valid \in SUBSET Threads
  /\ pc \in [Threads -> Locations]
  /\ next \in 0..WorkCount
  /\ local \in [Threads -> 0..WorkCount]
  /\ lock \in Threads \cup {NoThread}
  /\ result \in [Threads -> ExitCodes]
  /\ exit_code \in [Works -> ExitCodes]
  /\ began \in [Works -> Nat]
  /\ ended \in [Works -> Nat]
  /\ child \in [Works -> {"none", "running", "zombie", "reaped"}]
  /\ plan \in [Works -> Program]
  /\ written \in [Works -> Output]
  /\ captured \in [Works -> Output]
  /\ ends \in [Works -> SUBSET Procs]
  /\ more \in [Works -> [Streams -> BOOLEAN]]
  /\ lost \in [Works -> SUBSET Streams]

Init ==
  /\ main = "init" /\ at = 0 /\ valid = {}
  /\ pc = [t \in Threads |-> "off"]
  /\ next = 0
  /\ local = [t \in Threads |-> 0]
  /\ lock = NoThread
  /\ result = [t \in Threads |-> -1]
  /\ exit_code = [w \in Works |-> 0]
  /\ began = [w \in Works |-> 0]
  /\ ended = [w \in Works |-> 0]
  /\ child = [w \in Works |-> "none"]
  /\ plan = [w \in Works |-> NoDirectory]
  /\ written = [w \in Works |-> [s \in Streams |-> 0]]
  /\ captured = [w \in Works |-> [s \in Streams |-> 0]]
  /\ ends = [w \in Works |-> {}]
  /\ more = [w \in Works |-> [s \in Streams |-> TRUE]]
  /\ lost = [w \in Works |-> {}]

-----------------------------------------------------------------------------
(* linux_wait_for_completion, on the main thread.                          *)

InitLock ==
  /\ main = "init"
  /\ \/ main' = "create"
     \/ "mutex" \in Faults /\ main' = "returned"
  /\ UNCHANGED <<at, valid, pc, claims, calls, codes, process>>

CreateThread ==
  /\ main = "create"
  /\ at < ThreadCount
  /\ \/ /\ valid' = valid \cup {at}
        /\ pc' = [pc EXCEPT ![at] = "read"]
     \/ /\ "thread" \in Faults
        /\ UNCHANGED <<valid, pc>>
  /\ at' = at + 1
  /\ UNCHANGED <<main, claims, calls, codes, process>>

StartJoining ==
  /\ main = "create"
  /\ at = ThreadCount
  /\ main' = "join"
  /\ at' = 0
  /\ UNCHANGED <<valid, pc, claims, calls, codes, process>>

\* Mutant: the threads are detached instead of joined.
JoinThread_Detached ==
  /\ main = "join"
  /\ at < ThreadCount
  /\ at' = at + 1
  /\ UNCHANGED <<main, valid, pc, claims, calls, codes, process>>

\* pthread_join of the next valid thread; an invalid one is skipped.
JoinThread ==
  /\ main = "join"
  /\ at < ThreadCount
  /\ at \in valid => pc[at] = "exit"
  /\ at' = at + 1
  /\ UNCHANGED <<main, valid, pc, claims, calls, codes, process>>

Return ==
  /\ main = "join"
  /\ at = ThreadCount
  /\ main' = "returned"
  /\ UNCHANGED <<at, valid, pc, claims, calls, codes, process>>

-----------------------------------------------------------------------------
(* linux_thread_proc.                                                      *)

Move(t, from, to) ==
  /\ pc[t] = from
  /\ pc' = [pc EXCEPT ![t] = to]

\* Mutant: the loop has no end condition.
ReadNext_Endless(t) ==
  /\ Move(t, "read", "claim")
  /\ local' = [local EXCEPT ![t] = next]
  /\ UNCHANGED <<control, next, calls, codes, process>>

\* Mutant: the loop ends one work early.
ReadNext_OneShort(t) ==
  /\ Move(t, "read", IF next + 1 < WorkCount THEN "claim" ELSE "exit")
  /\ local' = [local EXCEPT ![t] = next]
  /\ UNCHANGED <<control, next, calls, codes, process>>

ReadNext(t) ==
  /\ Move(t, "read", IF next # WorkCount THEN "claim" ELSE "exit")
  /\ local' = [local EXCEPT ![t] = next]
  /\ UNCHANGED <<control, next, calls, codes, process>>

\* Mutant: a plain increment instead of the compare-and-swap.
Claim_Increment(t) ==
  /\ next' = local[t] + 1
  /\ Move(t, "claim", "begin")
  /\ UNCHANGED <<control, local, calls, codes, process>>

\* Mutant: a failed compare-and-swap is retried without reading next_to_work again.
Claim_StaleRetry(t) ==
  /\ \/ /\ next = local[t]
        /\ next' = local[t] + 1
        /\ Move(t, "claim", "begin")
     \/ /\ next # local[t]
        /\ Move(t, "claim", "claim")
        /\ UNCHANGED next
  /\ UNCHANGED <<control, local, calls, codes, process>>

\* __sync_bool_compare_and_swap(next_to_work, local, local + 1)
Claim(t) ==
  /\ \/ /\ next = local[t]
        /\ next' = local[t] + 1
        /\ Move(t, "claim", "begin")
     \/ /\ next # local[t]
        /\ Move(t, "claim", "read")
        /\ UNCHANGED next
  /\ UNCHANGED <<control, local, calls, codes, process>>

StoreCode(t) ==
  /\ Move(t, "store", "read")
  /\ exit_code' = [exit_code EXCEPT ![local[t]] = result[t]]
  /\ UNCHANGED <<control, claims, calls, result, process>>

-----------------------------------------------------------------------------
(* linux_exec_process: the two callbacks, under callback_lock.             *)

\* Mutant: on_progression is called without callback_lock.
EnterBegin_Unlocked(t) ==
  /\ Move(t, "begin", "beginCall")
  /\ lock' = t
  /\ began' = [began EXCEPT ![local[t]] = @ + 1]
  /\ UNCHANGED <<control, claims, ended, codes, process>>

EnterBegin(t) ==
  /\ lock = NoThread
  /\ Move(t, "begin", "beginCall")
  /\ lock' = t
  /\ began' = [began EXCEPT ![local[t]] = @ + 1]
  /\ UNCHANGED <<control, claims, ended, codes, process>>

\* Mutant: exit_code starts as 0 instead of -1.
LeaveBegin_ZeroCode(t) ==
  /\ Move(t, "beginCall", "pipe")
  /\ lock' = NoThread
  /\ result' = [result EXCEPT ![t] = 0]
  /\ UNCHANGED <<control, claims, began, ended, exit_code, process>>

LeaveBegin(t) ==
  /\ Move(t, "beginCall", "pipe")
  /\ lock' = NoThread
  /\ result' = [result EXCEPT ![t] = -1]
  /\ UNCHANGED <<control, claims, began, ended, exit_code, process>>

EnterEnd(t) ==
  /\ lock = NoThread
  /\ Move(t, "end", "endCall")
  /\ lock' = t
  /\ ended' = [ended EXCEPT ![local[t]] = @ + 1]
  /\ UNCHANGED <<control, claims, began, codes, process>>

\* Mutant: the lock is not released after on_completion.
LeaveEnd_KeepsLock(t) ==
  /\ Move(t, "endCall", "store")
  /\ UNCHANGED <<control, claims, calls, codes, process>>

LeaveEnd(t) ==
  /\ Move(t, "endCall", "store")
  /\ lock' = NoThread
  /\ UNCHANGED <<control, claims, began, ended, codes, process>>

-----------------------------------------------------------------------------
(* linux_exec_process: the child and its pipes.                            *)

OpenPipes(t) ==
  /\ Move(t, "pipe", "fork")
  /\ ends' = [ends EXCEPT ![local[t]] = {Hand}]
  /\ UNCHANGED <<control, claims, calls, codes, child, plan, written, captured, more, lost>>

\* "Unable to create pipe": whatever was created is closed again.
PipeFails(t) ==
  /\ "pipe" \in Faults
  /\ Move(t, "pipe", "end")
  /\ UNCHANGED <<control, claims, calls, codes, process>>

\* The pipes are not close-on-exec: the child inherits the write end of every
\* pipe hand has open at that moment, those of the other threads' works too.
Inherited(w) ==
  [v \in Works |-> IF Hand \in ends[v] THEN ends[v] \cup {w} ELSE ends[v]]

Fork(t) ==
  /\ Move(t, "fork", "close")
  /\ \E p \in {NoDirectory} \cup (IF local[t] \in Prepared THEN Programs ELSE {}) :
       plan' = [plan EXCEPT ![local[t]] = p]
  /\ child' = [child EXCEPT ![local[t]] = "running"]
  /\ ends' = Inherited(local[t])
  /\ UNCHANGED <<control, claims, calls, codes, written, captured, more, lost>>

WithoutHand(w) == [ends EXCEPT ![w] = @ \ {Hand}]

\* "Unable to fork": both pipes are closed and nothing is read.
ForkFails(t) ==
  /\ "fork" \in Faults
  /\ Move(t, "fork", "end")
  /\ ends' = WithoutHand(local[t])
  /\ UNCHANGED <<control, claims, calls, codes, child, plan, written, captured, more, lost>>

CloseEnds(t) ==
  /\ Move(t, "close", "drain")
  /\ ends' = WithoutHand(local[t])
  /\ UNCHANGED <<control, claims, calls, codes, child, plan, written, captured, more, lost>>

Buffered(w, s) == written[w][s] - captured[w][s]

\* Mutant: an empty pipe is taken for a closed one.
ReadStream_EmptyIsEnd(t, s) ==
  LET w == local[t] IN
  /\ pc[t] = "drain"
  /\ more[w][s]
  /\ \/ \E n \in 1..Buffered(w, s) :
          /\ captured' = [captured EXCEPT ![w][s] = @ + n]
          /\ UNCHANGED more
     \/ /\ Buffered(w, s) = 0
        /\ more' = [more EXCEPT ![w][s] = FALSE]
        /\ UNCHANGED captured
  /\ UNCHANGED <<control, pc, claims, calls, codes, child, plan, written, ends, lost>>

\* select found the stream readable and one read takes some of what is there,
\* or finds the end of the file because no process holds the write end.
ReadStream(t, s) ==
  LET w == local[t] IN
  /\ pc[t] = "drain"
  /\ more[w][s]
  /\ \/ \E n \in 1..Buffered(w, s) :
          /\ captured' = [captured EXCEPT ![w][s] = @ + n]
          /\ UNCHANGED more
     \/ /\ Buffered(w, s) = 0
        /\ ends[w] = {}
        /\ more' = [more EXCEPT ![w][s] = FALSE]
        /\ UNCHANGED captured
  /\ UNCHANGED <<control, pc, claims, calls, codes, child, plan, written, ends, lost>>

\* read returns -1 on a stream select reported: the code takes it for the end of
\* the stream, whatever is still in the pipe and whoever still writes to it.
ReadFails(t, s) ==
  LET w == local[t] IN
  /\ "read" \in Faults
  /\ pc[t] = "drain"
  /\ more[w][s]
  /\ Buffered(w, s) > 0 \/ ends[w] = {}
  /\ more' = [more EXCEPT ![w][s] = FALSE]
  /\ lost' = [lost EXCEPT ![w] = @ \cup {s}]
  /\ UNCHANGED <<control, pc, claims, calls, codes, child, plan, written, captured, ends>>

Drained(t) ==
  /\ Move(t, "drain", "wait")
  /\ \A s \in Streams : ~more[local[t]][s]
  /\ UNCHANGED <<control, claims, calls, codes, process>>

\* select returns -1: the loop is left with output still unread.
SelectFails(t) ==
  /\ "select" \in Faults
  /\ Move(t, "drain", "wait")
  /\ \E s \in Streams : more[local[t]][s]
  /\ UNCHANGED <<control, claims, calls, codes, process>>

Status(w) == IF plan[w].killed THEN -1 ELSE plan[w].status

\* waitpid, then WEXITSTATUS when WIFEXITED, -1 for a child killed by a signal.
Wait(t) ==
  LET w == local[t] IN
  /\ Move(t, "wait", "end")
  /\ child[w] = "zombie"
  /\ child' = [child EXCEPT ![w] = "reaped"]
  /\ result' = [result EXCEPT ![t] = Status(w)]
  /\ UNCHANGED <<control, claims, calls, exit_code, plan, written, captured, ends, more, lost>>

\* waitpid reports an error once the child is gone: exit_code keeps its -1.
WaitFails(t) ==
  /\ "wait" \in Faults
  /\ Move(t, "wait", "end")
  /\ child[local[t]] = "zombie"
  /\ UNCHANGED <<control, claims, calls, codes, process>>

-----------------------------------------------------------------------------
(* The child: a process outside hand, seen through its pipes and status.   *)

ChildWrites(w, s) ==
  /\ child[w] = "running"
  /\ written[w][s] < plan[w].prints[s]
  /\ Buffered(w, s) < PipeCap
  /\ written' = [written EXCEPT ![w][s] = @ + 1]
  /\ UNCHANGED <<control, pc, claims, calls, codes, child, plan, captured, ends, more, lost>>

ChildExits(w) ==
  /\ child[w] = "running"
  /\ written[w] = plan[w].prints
  /\ child' = [child EXCEPT ![w] = "zombie"]
  /\ ends' = [v \in Works |-> ends[v] \ {w}]
  /\ UNCHANGED <<control, pc, claims, calls, codes, plan, written, captured, more, lost>>

-----------------------------------------------------------------------------
Main == InitLock \/ CreateThread \/ StartJoining \/ JoinThread \/ Return

Thread(t) ==
  \/ ReadNext(t)   \/ Claim(t)     \/ StoreCode(t)
  \/ EnterBegin(t) \/ LeaveBegin(t) \/ EnterEnd(t) \/ LeaveEnd(t)
  \/ OpenPipes(t)  \/ PipeFails(t) \/ Fork(t) \/ ForkFails(t) \/ CloseEnds(t)
  \/ \E s \in Streams : ReadStream(t, s) \/ ReadFails(t, s)
  \/ Drained(t)    \/ SelectFails(t) \/ Wait(t) \/ WaitFails(t)

Child(w) == ChildExits(w) \/ \E s \in Streams : ChildWrites(w, s)

\* The call has returned; a deadlock anywhere else is a hang of the program.
Returned == main = "returned" /\ UNCHANGED vars

Next ==
  \/ Main
  \/ \E t \in Threads : Thread(t)
  \/ \E w \in Works : Child(w)
  \/ Returned

Spec == Init /\ [][Next]_vars

\* Every thread is scheduled and every grade command runs on and ends by itself:
\* the pool has no timeout, so nothing is promised about one that does not.
FairSpec ==
  /\ Spec
  /\ WF_vars(Main)
  /\ \A t \in Threads : WF_vars(Thread(t))
  /\ \A w \in Works : WF_vars(Child(w))

-----------------------------------------------------------------------------
(* Properties.                                                             *)

\* The locations in which a thread owns the work local[t].
Owning == {"begin", "beginCall", "pipe", "fork", "close", "drain", "wait",
           "end", "endCall", "store"}

\* A work is owned by at most one thread and only while it is claimed: the
\* compare-and-swap of linux_thread_proc hands every index out once.
OwnedOnce ==
  \A t \in Threads : pc[t] \in Owning =>
    /\ local[t] < next
    /\ \A u \in Threads \ {t} : pc[u] \in Owning => local[u] # local[t]

\* on_progression and on_completion write to the terminal without a lock of
\* their own: two threads are never inside them together.
InCallback == {"beginCall", "endCall"}
CallbacksExclude ==
  \A t, u \in Threads : pc[t] \in InCallback /\ pc[u] \in InCallback => t = u

\* When wait_for_completion returns, grade_homework reads works[i].exit_code:
\* then no thread is still at work, and either every work went through both
\* callbacks exactly once, or none was begun because no thread ever existed.
ReturnComplete ==
  main = "returned" =>
    /\ \A t \in Threads : pc[t] \in {"off", "exit"}
    /\ \/ \A w \in Works : began[w] = 1 /\ ended[w] = 1
       \/ valid = {} /\ \A w \in Works : began[w] = 0 /\ ended[w] = 0

\* Output handed to on_completion and to the log files is, stream by stream, all
\* the child wrote, also when its write end lives on in another thread's child
\* and when the other stream was given up: only a stream that is left before its
\* end, by a failing select or by a failing read of this very stream, falls short.
OutputComplete ==
  \A t \in Threads :
    pc[t] \in {"wait", "end", "endCall", "store"} /\ child[local[t]] # "none" =>
      \A s \in Streams : ~more[local[t]][s] /\ s \notin lost[local[t]]
        => captured[local[t]][s] = plan[local[t]].prints[s]

\* A work with no checkout is never taken for a graded one: once it has run,
\* its exit code is not 0, so no report is produced for it.
UnpreparedFails ==
  \A w \in Works \ Prepared :
    ended[w] > 0 /\ (\A t \in Threads : pc[t] \in Owning => local[t] # w)
      => exit_code[w] # 0

\* The code the caller reads for a work is its own child's status, and -1 for a
\* child that was killed, never started, or could not be waited for: the store
\* after the second callback goes to the claimed index and precedes the join.
CodesMatch ==
  main = "returned" =>
    \A w \in Works : ended[w] > 0 =>
      /\ child[w] # "running"
      /\ exit_code[w] = IF child[w] = "reaped" THEN Status(w) ELSE -1

\* The only way the pool can hang (grade commands that do not end aside): a child
\* has more to print on a stream whose pipe is full and its thread reads that
\* stream no more, because a select failed and the thread is in waitpid, or
\* because a read of that stream failed and was taken for its end.
HangsOnlyUnread ==
  \/ ENABLED Next
  \/ \E t \in Threads, s \in Streams :
       LET w == local[t] IN
       /\ pc[t] = "wait" \/ (pc[t] = "drain" /\ s \in lost[w])
       /\ child[w] = "running"
       /\ written[w][s] < plan[w].prints[s]
       /\ Buffered(w, s) = PipeCap

-----------------------------------------------------------------------------
(* The pool implements the promise of PoolSpec.                            *)

Stage(w) ==
  IF next <= w THEN "pending"
  ELSE IF \E t \in Threads : pc[t] \in Owning /\ local[t] = w THEN "running"
  ELSE "done"

Promise == INSTANCE PoolSpec WITH
  Codes    <- ExitCodes,
  stage    <- [w \in Works |-> Stage(w)],
  code     <- exit_code,
  returned <- (main = "returned")

\* Whatever the interleaving of threads and children, callers see works taken
\* in index order, finished once each, and all finished before the return.
PromiseSafety == Promise!Spec
\* Under the fairness above every call of wait_for_completion also returns: both
\* pipes are drained in turn, which leaves no child blocked on a full one.
PromiseKept == Promise!FairSpec
=============================================================================
