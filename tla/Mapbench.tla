------------------------------ MODULE Mapbench ------------------------------
(***************************************************************************)
(* The synchronisation of the mapbench benchmark (src/bin/mapbench.cc).   *)
(* A timer thread sets `stop` after the run's duration; nthread worker    *)
(* threads pass a pthread barrier and then loop until they see it.        *)
(*                                                                         *)
(*  - GLOBAL and GLOBAL_FIXED: each thread maps its part of a shared       *)
(*    region, waits on gbarrier, faults pages of every part, and waits     *)
(*    again.  gbarrier is a spinning barrier on the atomics `left` and     *)
(*    `round`; a waiter also leaves once `stop` is set.                    *)
(*  - PIPELINE: thread c produces into channel c+1 (mmap, then ++head) and *)
(*    consumes channel c (munmap, then ++tail); a channel holds at most    *)
(*    pipeline_width mapped regions, region = step % pipeline_width.       *)
(*                                                                         *)
(*  - LOCAL: each thread maps, faults and unmaps a region of its own.     *)
(*                                                                         *)
(* Every access to an atomic is its own step.  The page contents, the      *)
(* timing and the statistics are left out.                                 *)
(***************************************************************************)
EXTENDS Integers, FiniteSets

CONSTANTS
  N,          \* nthread
  Width,      \* pipeline_width
  MaxIter,    \* bound on the iterations of a GLOBAL thread
  MaxSteps    \* bound on a channel's head

Cpus     == 0..N-1
Modes    == {"local", "pipeline", "global", "global_fixed"}
Regions  == 0..Width-1
Unmapped == -1

VARIABLES
  mode,       \* the bench_mode argv selected
  stop,       \* the volatile stop flag
  pc,         \* per thread: its place in thr()
  which,      \* per thread: which of the two gbarrier.wait() calls it is in
  cur,        \* per thread: curround, read on entry to gbarrier.wait()
  left,       \* gbarrier.left
  round,      \* gbarrier.round
  iter,       \* per thread: myiters
  mapIter,    \* per thread: the iteration its part is mapped for
  head,       \* per channel: channels[ch].head
  tail,       \* per channel: channels[ch].tail
  target,     \* per thread: the local `target` of the current loop
  mapped,     \* per channel: the regions currently mapped
  clobbered   \* a MAP_FIXED mapping replaced a region not yet consumed

vars == <<mode, stop, pc, which, cur, left, round, iter, mapIter, head,
          tail, target, mapped, clobbered>>
barrierVars  == <<which, cur, left, round, iter, mapIter>>
pipelineVars == <<head, tail, target, mapped, clobbered>>

InChan(c)  == c
OutChan(c) == (c + 1) % N

\* timer_thread: sleep(duration); stop = true.
Timer ==
  /\ ~stop
  /\ stop' = TRUE
  /\ UNCHANGED <<mode, pc, barrierVars, pipelineVars>>

\* pthread_barrier_wait(&bar): every worker has been created.
StartBarrier ==
  /\ \A c \in Cpus : pc[c] = "start"
  /\ pc' = [c \in Cpus |-> "top"]
  /\ UNCHANGED <<mode, stop, barrierVars, pipelineVars>>

-----------------------------------------------------------------------------
(* LOCAL.                                                                  *)

\* while (!stop): leave, or mmap this thread's own region with MAP_FIXED.
LocalTop(c) ==
  /\ mode = "local" /\ pc[c] = "top"
  /\ IF stop
       THEN pc' = [pc EXCEPT ![c] = "done"] /\ UNCHANGED mapIter
       ELSE /\ iter[c] < MaxIter
            /\ mapIter' = [mapIter EXCEPT ![c] = iter[c]]
            /\ pc' = [pc EXCEPT ![c] = "lunmap"]
  /\ UNCHANGED <<mode, stop, which, cur, left, round, iter, pipelineVars>>

\* Fault in its pages, munmap the region, ++myiters.
LocalUnmap(c) ==
  /\ pc[c] = "lunmap"
  /\ mapIter' = [mapIter EXCEPT ![c] = Unmapped]
  /\ iter' = [iter EXCEPT ![c] = @ + 1]
  /\ pc' = [pc EXCEPT ![c] = "top"]
  /\ UNCHANGED <<mode, stop, which, cur, left, round, pipelineVars>>

-----------------------------------------------------------------------------
(* GLOBAL and GLOBAL_FIXED.                                                *)

\* while (!stop): leave, or mmap this thread's part (MAP_FIXED replaces
\* the previous mapping) and enter the first gbarrier.wait().
GlobalTop(c) ==
  /\ mode \in {"global", "global_fixed"} /\ pc[c] = "top"
  /\ IF stop
       THEN pc' = [pc EXCEPT ![c] = "done"] /\ UNCHANGED <<which, mapIter>>
       ELSE /\ iter[c] < MaxIter
            /\ mapIter' = [mapIter EXCEPT ![c] = iter[c]]
            /\ which' = [which EXCEPT ![c] = 1]
            /\ pc' = [pc EXCEPT ![c] = "wread"]
  /\ UNCHANGED <<mode, stop, cur, left, round, iter, pipelineVars>>

\* gbarrier.wait(): uint64_t curround = round;
WaitRead(c) ==
  /\ pc[c] = "wread"
  /\ cur' = [cur EXCEPT ![c] = round]
  /\ pc' = [pc EXCEPT ![c] = "wdec"]
  /\ UNCHANGED <<mode, stop, which, left, round, iter, mapIter, pipelineVars>>

\* if (--left): spin; else the last arrival resets the barrier.
WaitDec(c) ==
  /\ pc[c] = "wdec"
  /\ left' = left - 1
  /\ pc' = [pc EXCEPT ![c] = IF left - 1 # 0 THEN "wspin" ELSE "wreset"]
  /\ UNCHANGED <<mode, stop, which, cur, round, iter, mapIter, pipelineVars>>

\* Mutation: the barrier is reset to one more than nthread.
ResetLeftOneMore == N + 1

\* left = nthread;
ResetLeft == N

WaitReset(c) ==
  /\ pc[c] = "wreset"
  /\ left' = ResetLeft
  /\ pc' = [pc EXCEPT ![c] = "wbump"]
  /\ UNCHANGED <<mode, stop, which, cur, round, iter, mapIter, pipelineVars>>

\* Where thr() goes on after the first or the second gbarrier.wait().
AfterWait(c) == IF which[c] = 1 THEN "check1" ELSE "after2"

\* ++round;  -- releases the spinning waiters.
WaitBump(c) ==
  /\ pc[c] = "wbump"
  /\ round' = round + 1
  /\ pc' = [pc EXCEPT ![c] = AfterWait(c)]
  /\ UNCHANGED <<mode, stop, which, cur, left, iter, mapIter, pipelineVars>>

\* Mutation: the spin loop does not look at stop.
SpinDoneIgnoringStop(c) == round # cur[c]

\* while (round == curround && !stop) ;  -- its exit condition.
SpinDone(c) == round # cur[c] \/ stop

WaitSpin(c) ==
  /\ pc[c] = "wspin" /\ SpinDone(c)
  /\ pc' = [pc EXCEPT ![c] = AfterWait(c)]
  /\ UNCHANGED <<mode, stop, barrierVars, pipelineVars>>

\* Mutation: no stop check after the first wait.
LeaveAfterWait1Never(c) == FALSE

\* if (stop) break;  -- a waiter released by stop, not by the barrier.
LeaveAfterWait1(c) == stop

\* After the first wait: leave, or fault in pages of every thread's part.
Check1(c) ==
  /\ pc[c] = "check1"
  /\ pc' = [pc EXCEPT ![c] = IF LeaveAfterWait1(c) THEN "done" ELSE "fault"]
  /\ UNCHANGED <<mode, stop, barrierVars, pipelineVars>>

\* The page faults, then the second gbarrier.wait().
Fault(c) ==
  /\ pc[c] = "fault"
  /\ which' = [which EXCEPT ![c] = 2]
  /\ pc' = [pc EXCEPT ![c] = "wread"]
  /\ UNCHANGED <<mode, stop, cur, left, round, iter, mapIter, pipelineVars>>

\* After the second wait.  GLOBAL: ++myiters.  GLOBAL_FIXED: if (stop)
\* break; then munmap this thread's part and ++myiters.
After2(c) ==
  /\ pc[c] = "after2"
  /\ IF mode = "global_fixed" /\ stop
       THEN pc' = [pc EXCEPT ![c] = "done"] /\ UNCHANGED <<iter, mapIter>>
       ELSE /\ iter' = [iter EXCEPT ![c] = @ + 1]
            /\ mapIter' = IF mode = "global_fixed"
                            THEN [mapIter EXCEPT ![c] = Unmapped]
                            ELSE mapIter
            /\ pc' = [pc EXCEPT ![c] = "top"]
  /\ UNCHANGED <<mode, stop, which, cur, left, round, pipelineVars>>

-----------------------------------------------------------------------------
(* PIPELINE.                                                               *)

\* Mutation: the fill target counts from the producer's own head.
FillTargetFromHead(c) == head[OutChan(c)] + Width

\* uint64_t target = channels[outchan].tail + pipeline_width;
FillTarget(c) == tail[OutChan(c)] + Width

\* pipeline_get_region(channel, step): the channel's block of regions,
\* and in it the region step % pipeline_width.
Region(step) == step % Width

\* while (!stop): leave, or start filling the outgoing channel.
PipeTop(c) ==
  /\ mode = "pipeline" /\ pc[c] = "top"
  /\ IF stop
       THEN pc' = [pc EXCEPT ![c] = "done"] /\ UNCHANGED target
       ELSE /\ target' = [target EXCEPT ![c] = FillTarget(c)]
            /\ pc' = [pc EXCEPT ![c] = "fill"]
  /\ UNCHANGED <<mode, stop, barrierVars, head, tail, mapped, clobbered>>

\* for (; head < target; ...) mmap(pipeline_get_region(outchan, head))
\* with MAP_FIXED; at the end of the loop, read the incoming head.
Fill(c) ==
  LET ch == OutChan(c)
      r  == Region(head[ch])
  IN
  /\ pc[c] = "fill"
  /\ IF head[ch] < target[c] /\ head[ch] < MaxSteps
       THEN /\ mapped' = [mapped EXCEPT ![ch] = @ \cup {r}]
            /\ clobbered' = (clobbered \/ r \in mapped[ch])
            /\ pc' = [pc EXCEPT ![c] = "headinc"]
            /\ UNCHANGED target
       ELSE /\ target' = [target EXCEPT ![c] = head[InChan(c)]]
            /\ pc' = [pc EXCEPT ![c] = "drain"]
            /\ UNCHANGED <<mapped, clobbered>>
  /\ UNCHANGED <<mode, stop, barrierVars, head, tail>>

\* ++channels[outchan].head
HeadInc(c) ==
  /\ pc[c] = "headinc"
  /\ head' = [head EXCEPT ![OutChan(c)] = @ + 1]
  /\ pc' = [pc EXCEPT ![c] = "fill"]
  /\ UNCHANGED <<mode, stop, barrierVars, tail, target, mapped, clobbered>>

\* for (; tail < target; ...) munmap(pipeline_get_region(inchan, tail)).
Drain(c) ==
  LET ch == InChan(c) IN
  /\ pc[c] = "drain"
  /\ IF tail[ch] < target[c]
       THEN /\ mapped' = [mapped EXCEPT ![ch] = @ \ {Region(tail[ch])}]
            /\ pc' = [pc EXCEPT ![c] = "tailinc"]
       ELSE /\ pc' = [pc EXCEPT ![c] = "top"]
            /\ UNCHANGED mapped
  /\ UNCHANGED <<mode, stop, barrierVars, head, tail, target, clobbered>>

\* ++channels[inchan].tail
TailInc(c) ==
  /\ pc[c] = "tailinc"
  /\ tail' = [tail EXCEPT ![InChan(c)] = @ + 1]
  /\ pc' = [pc EXCEPT ![c] = "drain"]
  /\ UNCHANGED <<mode, stop, barrierVars, head, target, mapped, clobbered>>

-----------------------------------------------------------------------------

\* main(): the mode from argv, gbarrier.left = nthread, the channels and
\* gbarrier in static storage (zero).
Init ==
  /\ mode \in Modes
  /\ stop = FALSE
  /\ pc = [c \in Cpus |-> "start"]
  /\ which = [c \in Cpus |-> 1]
  /\ cur = [c \in Cpus |-> 0]
  /\ left = N
  /\ round = 0
  /\ iter = [c \in Cpus |-> 0]
  /\ mapIter = [c \in Cpus |-> Unmapped]
  /\ head = [ch \in Cpus |-> 0]
  /\ tail = [ch \in Cpus |-> 0]
  /\ target = [c \in Cpus |-> 0]
  /\ mapped = [ch \in Cpus |-> {}]
  /\ clobbered = FALSE

Worker(c) ==
  \/ LocalTop(c) \/ LocalUnmap(c)
  \/ GlobalTop(c) \/ WaitRead(c) \/ WaitDec(c) \/ WaitReset(c)
  \/ WaitBump(c) \/ WaitSpin(c) \/ Check1(c) \/ Fault(c) \/ After2(c)
  \/ PipeTop(c) \/ Fill(c) \/ HeadInc(c) \/ Drain(c) \/ TailInc(c)

Next == Timer \/ StartBarrier \/ \E c \in Cpus : Worker(c)

Spec == Init /\ [][Next]_vars

\* The timer's sleep ends, and every worker keeps running (each is
\* pinned to its own CPU by setaffinity).
Fairness ==
  /\ WF_vars(Timer) /\ WF_vars(StartBarrier)
  /\ \A c \in Cpus : WF_vars(Worker(c))

FairSpec == Spec /\ Fairness

-----------------------------------------------------------------------------
(* Properties                                                              *)

TypeOK ==
  /\ mode \in Modes /\ stop \in BOOLEAN
  /\ which \in [Cpus -> {1, 2}] /\ cur \in [Cpus -> Nat]
  /\ left \in 0..N /\ round \in Nat
  /\ iter \in [Cpus -> 0..MaxIter]
  /\ mapIter \in [Cpus -> {Unmapped} \cup 0..MaxIter]
  /\ head \in [Cpus -> Nat] /\ tail \in [Cpus -> Nat]
  /\ target \in [Cpus -> Nat]
  /\ mapped \in [Cpus -> SUBSET Regions] /\ clobbered \in BOOLEAN

\* gbarrier separates the phases: while a thread faults in pages in its
\* iteration i, every thread's part is mapped for iteration i -- no part
\* is still missing (before the first wait) and none has been remapped
\* or unmapped for the next iteration (before the second), whatever the
\* order of the reads of round, the decrements of left and stop.
BarrierSeparatesPhases ==
  \A c \in Cpus : pc[c] = "fault" => \A d \in Cpus : mapIter[d] = iter[c]

\* A PIPELINE channel holds between 0 and pipeline_width steps, every
\* step between tail and head has its region mapped (but the one its
\* consumer has just unmapped and not yet counted), and no mmap with
\* MAP_FIXED has replaced a region its consumer had not unmapped yet.
ChannelWindow ==
  /\ ~clobbered
  /\ \A ch \in Cpus :
       /\ tail[ch] <= head[ch] /\ head[ch] <= tail[ch] + Width
       /\ \A s \in tail[ch]..(head[ch] - 1) :
            Region(s) \in mapped[ch] \/ (s = tail[ch] /\ pc[ch] = "tailinc")

\* Once the timer fires, every worker leaves thr(), so main() can join
\* them: no thread spins forever in gbarrier.wait() or a channel loop.
WorkersFinish ==
  stop ~> \A c \in Cpus : pc[c] = "done"

=============================================================================
