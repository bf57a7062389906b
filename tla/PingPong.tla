------------------------------ MODULE PingPong ------------------------------
(***************************************************************************)
(* The pipeline that gqe_join.cpp and gqe_aggr.cpp (host/database/src) build  *)
(* in four places: the partition phases of tables O and L (Joiner::join_sol2, *)
(* and aggr_sol2, which does the same), the pipelined aggregation (aggr_sol1) *)
(* and the aggregation of partitions (aggr_sol2).  A section is copied into   *)
(* a pinned host buffer by a thread, transferred to the device, worked on by  *)
(* a kernel, transferred back, and its result taken out by another thread.    *)
(* All buffers exist twice, for the even and for the odd sections.  In all    *)
(* but table O there are two threads of each kind as well.                    *)
(*                                                                          *)
(* The main thread enqueues everything at once; only events order the       *)
(* commands and the threads.  A buffer holds a section, or Torn while it is   *)
(* written.  What the threads make of a result is left to the modules that   *)
(* extend this one: they take a result over in any number of steps while      *)
(* outThread is "work".                                                       *)
(*                                                                          *)
(* The threads' std::queues have no lock.  With the four elements at most    *)
(* that a queue gets here libstdc++ never moves its elements, and the end of  *)
(* the queue is written last, so that push, front and pop are atomic.        *)
(***************************************************************************)
EXTENDS Integers, Sequences

CONSTANT Sections  (* table_o_sec_num, table_l_sec_num, sec_num, partition_num *)

ASSUME SectionsAssumption == Sections \in Nat \ {0}

Secs == 0..(Sections - 1)
Torn == -1
Commands == {"h2d", "krn", "d2h"}

VARIABLES
  lanes,                 (* threads on either side: 1 for O, else 2         *)
  sec, step,             (* where the main thread is                        *)
  run,                   (* the flags of the threads                        *)
  inQueue, outQueue,     (* each lane's std::queues, of sections            *)
  inThread, outThread,   (* where each lane's threads are                   *)
  memcpy_in, memcpy_out, (* sections whose user events are complete         *)
  queued, running, complete,  (* commands and their sections                *)
  host_in, host_out,     (* the pinned host buffers                         *)
  dev_in, dev_out        (* the device's side of them                       *)

main == <<sec, step, run>>
inside == <<inQueue, inThread, memcpy_in>>
outside == <<outQueue, outThread, memcpy_out>>
commands == <<queued, running, complete>>
buffers == <<host_in, host_out, dev_in, dev_out>>
pipe == <<lanes, main, inside, outside, commands, buffers>>

Lanes == 0..(lanes - 1)
Lane(s) == s % lanes
kid(s) == s % 2
Done(c, s) == <<c, s>> \in complete

PipeInit ==
  /\ lanes \in {1, 2}
  /\ sec = 0 /\ step = "memcpy_in" /\ run = TRUE
  /\ inQueue = [k \in Lanes |-> <<>>]
  /\ outQueue = [k \in Lanes |-> <<>>]
  /\ inThread = [k \in Lanes |-> "idle"]
  /\ outThread = [k \in Lanes |-> "idle"]
  /\ memcpy_in = {} /\ memcpy_out = {}
  /\ queued = {} /\ running = {} /\ complete = {}
  /\ host_in = [b \in {0, 1} |-> Torn]
  /\ host_out = [b \in {0, 1} |-> Torn]
  /\ dev_in = [b \in {0, 1} |-> Torn]
  /\ dev_out = [b \in {0, 1} |-> Torn]

-----------------------------------------------------------------------------
(* The main thread *)

(* Each section gets its work for the copy in, three commands, and its work  *)
(* for the copy out.                                                         *)
PushIn ==
  /\ step = "memcpy_in"
  /\ inQueue' = [inQueue EXCEPT ![Lane(sec)] = Append(@, sec)]
  /\ step' = "h2d"
  /\ UNCHANGED <<lanes, sec, run, inThread, memcpy_in, outside, commands, buffers>>

AfterCommand == [h2d |-> "krn", krn |-> "d2h", d2h |-> "memcpy_out"]
Enqueue ==
  /\ step \in Commands
  /\ queued' = queued \cup {<<step, sec>>}
  /\ step' = AfterCommand[step]
  /\ UNCHANGED <<lanes, sec, run, inside, outside, running, complete, buffers>>

PushOut ==
  /\ step = "memcpy_out"
  /\ outQueue' = [outQueue EXCEPT ![Lane(sec)] = Append(@, sec)]
  /\ sec' = IF sec + 1 < Sections THEN sec + 1 ELSE sec
  /\ step' = IF sec + 1 < Sections THEN "memcpy_in" ELSE "wait"
  /\ UNCHANGED <<lanes, run, inside, outThread, memcpy_out, commands, buffers>>

(* Of all events only those of the last two copies are waited for; mutated,  *)
(* only that of the last one.                                                *)
LastCopyOnly == {Sections - 1}
LastCopies == {Sections - 1, Sections - 2} \cap Secs
WaitForEvents ==
  /\ step = "wait" /\ LastCopies \subseteq memcpy_out
  /\ step' = "stop"
  /\ UNCHANGED <<lanes, sec, run, inside, outside, commands, buffers>>

StopThreads ==
  /\ step = "stop"
  /\ run' = FALSE
  /\ step' = "join"
  /\ UNCHANGED <<lanes, sec, inside, outside, commands, buffers>>

JoinThreads ==
  /\ step = "join"
  /\ \A k \in Lanes : inThread[k] = "end" /\ outThread[k] = "end"
  /\ step' = "done"
  /\ UNCHANGED <<lanes, sec, run, inside, outside, commands, buffers>>

-----------------------------------------------------------------------------
(* A thread whose queue is empty goes round its two loops: it may find work, *)
(* or the flag cleared, whatever the queue holds by then.                    *)

InEnd(k) ==
  /\ inThread[k] = "idle" /\ ~run
  /\ inThread' = [inThread EXCEPT ![k] = "end"]
  /\ UNCHANGED <<lanes, main, inQueue, memcpy_in, outside, commands, buffers>>

OutEnd(k) ==
  /\ outThread[k] = "idle" /\ ~run
  /\ outThread' = [outThread EXCEPT ![k] = "end"]
  /\ UNCHANGED <<lanes, main, inside, outQueue, memcpy_out, commands, buffers>>

AfterPop(queue) == IF Tail(queue) = <<>> THEN "idle" ELSE "front"

-----------------------------------------------------------------------------
(* The thread that copies sections in *)

(* It waits for the transfer that read the buffer last; mutated, it does not. *)
MayOverwriteAtOnce(s) == TRUE
MayOverwrite(s) == s > 1 => Done("h2d", s - 2)
InWait(k) ==
  /\ inThread[k] \in {"idle", "front"} /\ inQueue[k] # <<>>
  /\ MayOverwrite(Head(inQueue[k]))
  /\ host_in' = [host_in EXCEPT ![kid(Head(inQueue[k]))] = Torn]
  /\ inThread' = [inThread EXCEPT ![k] = "copy"]
  /\ UNCHANGED <<lanes, main, inQueue, memcpy_in, outside, commands, host_out, dev_in, dev_out>>

InCopy(k) ==
  /\ inThread[k] = "copy"
  /\ host_in' = [host_in EXCEPT ![kid(Head(inQueue[k]))] = Head(inQueue[k])]
  /\ inThread' = [inThread EXCEPT ![k] = "event"]
  /\ UNCHANGED <<lanes, main, inQueue, memcpy_in, outside, commands, host_out, dev_in, dev_out>>

(* The user event is completed by hand; mutated, it never is.                *)
InEventForgotten(k) ==
  /\ inThread[k] = "event"
  /\ inThread' = [inThread EXCEPT ![k] = "pop"]
  /\ UNCHANGED <<lanes, main, inQueue, memcpy_in, outside, commands, buffers>>
InEvent(k) ==
  /\ inThread[k] = "event"
  /\ memcpy_in' = memcpy_in \cup {Head(inQueue[k])}
  /\ inThread' = [inThread EXCEPT ![k] = "pop"]
  /\ UNCHANGED <<lanes, main, inQueue, outside, commands, buffers>>

InPop(k) ==
  /\ inThread[k] = "pop"
  /\ inQueue' = [inQueue EXCEPT ![k] = Tail(@)]
  /\ inThread' = [inThread EXCEPT ![k] = AfterPop(inQueue[k])]
  /\ UNCHANGED <<lanes, main, memcpy_in, outside, commands, buffers>>

-----------------------------------------------------------------------------
(* The thread that takes results out *)

section(k) == Head(outQueue[k])

OutWait(k) ==
  /\ outThread[k] \in {"idle", "front"} /\ outQueue[k] # <<>>
  /\ Done("d2h", section(k))
  /\ outThread' = [outThread EXCEPT ![k] = "work"]
  /\ UNCHANGED <<lanes, main, inside, outQueue, memcpy_out, commands, buffers>>

(* It has taken the result over. *)
OutDone(k) ==
  /\ outThread[k] = "work"
  /\ outThread' = [outThread EXCEPT ![k] = "event"]
  /\ UNCHANGED <<lanes, main, inside, outQueue, memcpy_out, commands, buffers>>

(* It ends the process: the result is too large. *)
OutExit(k) ==
  /\ outThread[k] = "work"
  /\ step' = "exit"
  /\ UNCHANGED <<lanes, sec, run, inside, outside, commands, buffers>>

(* The user event is completed by hand. *)
OutEvent(k) ==
  /\ outThread[k] = "event"
  /\ memcpy_out' = memcpy_out \cup {section(k)}
  /\ outThread' = [outThread EXCEPT ![k] = "pop"]
  /\ UNCHANGED <<lanes, main, inside, outQueue, commands, buffers>>

OutPop(k) ==
  /\ outThread[k] = "pop"
  /\ outQueue' = [outQueue EXCEPT ![k] = Tail(@)]
  /\ outThread' = [outThread EXCEPT ![k] = AfterPop(outQueue[k])]
  /\ UNCHANGED <<lanes, main, inside, memcpy_out, commands, buffers>>

-----------------------------------------------------------------------------
(* The out-of-order command queue and the device *)

(* The events that each command waits for. *)
Dependencies(c, s) ==
  /\ c = "h2d" => s \in memcpy_in /\ (s > 1 => Done("krn", s - 2))
  /\ c = "krn" => Done("h2d", s) /\ (s > 0 => Done("krn", s - 1)) /\ (s > 1 => Done("d2h", s - 2))
  /\ c = "d2h" => Done("krn", s) /\ (s > 1 => s - 2 \in memcpy_out)

(* A command starts to write its target. *)
Start(c, s) ==
  /\ <<c, s>> \in queued /\ Dependencies(c, s)
  /\ queued' = queued \ {<<c, s>>} /\ running' = running \cup {<<c, s>>}
  /\ dev_in' = IF c = "h2d" THEN [dev_in EXCEPT ![kid(s)] = Torn] ELSE dev_in
  /\ dev_out' = IF c = "krn" THEN [dev_out EXCEPT ![kid(s)] = Torn] ELSE dev_out
  /\ host_out' = IF c = "d2h" THEN [host_out EXCEPT ![kid(s)] = Torn] ELSE host_out
  /\ UNCHANGED <<lanes, main, inside, outside, complete, host_in>>

Finish(c, s) ==
  /\ <<c, s>> \in running
  /\ running' = running \ {<<c, s>>} /\ complete' = complete \cup {<<c, s>>}
  /\ UNCHANGED <<lanes, main, inside, outside, queued, host_in>>

Transfer(s) ==
  /\ Finish("h2d", s)
  /\ dev_in' = [dev_in EXCEPT ![kid(s)] = host_in[kid(s)]]
  /\ UNCHANGED <<host_out, dev_out>>

Kernel(s) ==
  /\ Finish("krn", s)
  /\ dev_out' = [dev_out EXCEPT ![kid(s)] = dev_in[kid(s)]]
  /\ UNCHANGED <<host_out, dev_in>>

TransferBack(s) ==
  /\ Finish("d2h", s)
  /\ host_out' = [host_out EXCEPT ![kid(s)] = dev_out[kid(s)]]
  /\ UNCHANGED <<dev_in, dev_out>>

-----------------------------------------------------------------------------
MainThread ==
  PushIn \/ Enqueue \/ PushOut \/ WaitForEvents \/ StopThreads \/ JoinThreads
InThread(k) == InEnd(k) \/ InWait(k) \/ InCopy(k) \/ InEvent(k) \/ InPop(k)
OutLoop(k) == OutEnd(k) \/ OutEvent(k) \/ OutPop(k)

Running == step \notin {"done", "exit"}

PipeNext ==
  /\ Running
  /\ \/ MainThread
     \/ \E k \in Lanes :
          \/ InThread(k)
          \/ OutLoop(k) \/ OutWait(k) \/ OutDone(k) \/ OutExit(k)
     \/ \E s \in Secs :
          \/ Transfer(s) \/ Kernel(s) \/ TransferBack(s)
          \/ \E c \in Commands : Start(c, s)

PipeSpec == PipeInit /\ [][PipeNext]_pipe

-----------------------------------------------------------------------------
(* Properties *)

PipeTypeOK ==
  /\ lanes \in {1, 2}
  /\ sec \in Secs
  /\ step \in Commands \cup {"memcpy_in", "memcpy_out", "wait", "stop", "join", "done", "exit"}
  /\ run \in BOOLEAN
  /\ inQueue \in [Lanes -> Seq(Secs)] /\ outQueue \in [Lanes -> Seq(Secs)]
  /\ inThread \in [Lanes -> {"idle", "front", "copy", "event", "pop", "end"}]
  /\ outThread \in [Lanes -> {"idle", "front", "work", "event", "pop", "end"}]
  /\ memcpy_in \subseteq Secs /\ memcpy_out \subseteq Secs
  /\ queued \subseteq Commands \X Secs
  /\ running \subseteq Commands \X Secs
  /\ complete \subseteq Commands \X Secs
  /\ host_in \in [{0, 1} -> Secs \cup {Torn}]
  /\ host_out \in [{0, 1} -> Secs \cup {Torn}]
  /\ dev_in \in [{0, 1} -> Secs \cup {Torn}]
  /\ dev_out \in [{0, 1} -> Secs \cup {Torn}]

(* No buffer is overwritten while somebody needs it: a section that has been *)
(* copied in stays until its transfer is over, what a command reads is the   *)
(* section it works on, in full, and a result that has come back stays until *)
(* it has been taken out.  Of all this only events take care.                *)
BuffersKept ==
  \A s \in Secs :
    /\ s \in memcpy_in /\ ~Done("h2d", s) => host_in[kid(s)] = s
    /\ <<"krn", s>> \in running => dev_in[kid(s)] = s
    /\ <<"d2h", s>> \in running => dev_out[kid(s)] = s
    /\ Done("d2h", s) /\ s \notin memcpy_out => host_out[kid(s)] = s

(* Although the main thread waits for two events and then clears the flags,  *)
(* no thread leaves work behind, and nothing still runs when the buffers are *)
(* released.                                                                  *)
NoWorkLeft ==
  step = "done" =>
    /\ \A k \in Lanes : inQueue[k] = <<>> /\ outQueue[k] = <<>>
    /\ memcpy_in = Secs /\ memcpy_out = Secs
    /\ \A c \in Commands, s \in Secs : Done(c, s)
=============================================================================
