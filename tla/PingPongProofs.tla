--------------------------- MODULE PingPongProofs ---------------------------
(***************************************************************************)
(* The proof that the pipeline of PingPong keeps every buffer as long as it  *)
(* is needed and leaves no work behind, for any number of sections and with   *)
(* one or two threads on either side.                                         *)
(*                                                                          *)
(* The inductive invariant says what each event stands for.  A command has    *)
(* waited for events of its own section and of the section two before, or     *)
(* one before; so by induction along the sections, which the invariant has    *)
(* in it as "all that came before", a command that has started tells of all    *)
(* earlier commands on the same buffer.  The threads take the sections from    *)
(* their queues in the order in which they were pushed.                       *)
(***************************************************************************)
EXTENDS PingPong, FiniteSetTheorems, TLAPS

Queued(c, s) == <<c, s>> \in queued
Executing(c, s) == <<c, s>> \in running
Started(c, s) == Executing(c, s) \/ Done(c, s)

(* The sections before s that use the same buffers. *)
Earlier(s) == {r \in Secs : r < s /\ kid(r) = kid(s)}

(* What the main thread has enqueued for each section. *)
Before(work) ==
  IF work = "memcpy_in" THEN {"memcpy_in"}
  ELSE IF work = "h2d" THEN {"memcpy_in", "h2d"}
  ELSE IF work = "krn" THEN {"memcpy_in", "h2d", "krn"}
  ELSE IF work = "d2h" THEN {"memcpy_in", "h2d", "krn", "d2h"}
  ELSE {"memcpy_in", "h2d", "krn", "d2h", "memcpy_out"}
Pushed(work, s) == s < sec \/ (s = sec /\ step \notin Before(work))

PushedIn ==
  step # "exit" =>
    /\ \A s \in memcpy_in : Pushed("memcpy_in", s)
    /\ \A k \in Lanes : \A i \in 1..Len(inQueue[k]) : Pushed("memcpy_in", inQueue[k][i])
PushedCommands ==
  step # "exit" =>
    \A c \in Commands, s \in Secs : Queued(c, s) \/ Started(c, s) => Pushed(c, s)
PushedOut ==
  step # "exit" =>
    /\ \A s \in memcpy_out : Pushed("memcpy_out", s)
    /\ \A k \in Lanes : \A i \in 1..Len(outQueue[k]) : Pushed("memcpy_out", outQueue[k][i])

Once ==
  \A c \in Commands, s \in Secs :
    /\ Queued(c, s) => ~Started(c, s)
    /\ Executing(c, s) => ~Done(c, s)

(* What is over when a command has started. *)
WaitedH2d ==
  \A s \in Secs : Started("h2d", s) =>
    s \in memcpy_in /\ \A r \in Earlier(s) : Done("krn", r)
WaitedKrn ==
  \A s \in Secs : Started("krn", s) =>
    /\ Done("h2d", s)
    /\ \A r \in Secs : r < s => Done("krn", r)
    /\ \A r \in Earlier(s) : Done("d2h", r)
WaitedD2h ==
  \A s \in Secs : Started("d2h", s) =>
    Done("krn", s) /\ \A r \in Earlier(s) : r \in memcpy_out
WaitedOut == \A s \in memcpy_out : Done("d2h", s)

(* The queues of the threads that copy in, and what those threads are at. *)
InOrder ==
  \A k \in Lanes :
    /\ \A i \in 1..Len(inQueue[k]) : Lane(inQueue[k][i]) = k
    /\ \A i, j \in 1..Len(inQueue[k]) : i < j => inQueue[k][i] < inQueue[k][j]
    /\ \A s \in memcpy_in : Lane(s) = k =>
         \A i \in 1..Len(inQueue[k]) :
           s < inQueue[k][i] \/ (i = 1 /\ s = inQueue[k][1] /\ inThread[k] = "pop")
InBusy ==
  \A k \in Lanes :
    /\ inThread[k] \in {"copy", "event", "pop"} => inQueue[k] # <<>>
    /\ inThread[k] \in {"copy", "event"} => MayOverwrite(inQueue[k][1])
    /\ inThread[k] = "event" => host_in[kid(inQueue[k][1])] = inQueue[k][1]

OutOrder ==
  \A k \in Lanes :
    /\ \A i \in 1..Len(outQueue[k]) : Lane(outQueue[k][i]) = k
    /\ \A i, j \in 1..Len(outQueue[k]) : i < j => outQueue[k][i] < outQueue[k][j]
    /\ \A i \in 1..Len(outQueue[k]) :
         outQueue[k][i] \in memcpy_out => i = 1 /\ outThread[k] = "pop"
OutBusy ==
  \A k \in Lanes :
    /\ outThread[k] \in {"work", "event", "pop"} => outQueue[k] # <<>>
    /\ outThread[k] \in {"work", "event"} => Done("d2h", outQueue[k][1])

(* Each buffer has what was put there last until its reader is done. *)
HostInKept == \A s \in Secs : s \in memcpy_in /\ ~Done("h2d", s) => host_in[kid(s)] = s
DevInKept == \A s \in Secs : Done("h2d", s) /\ ~Done("krn", s) => dev_in[kid(s)] = s
DevOutKept == \A s \in Secs : Done("krn", s) /\ ~Done("d2h", s) => dev_out[kid(s)] = s
HostOutKept == \A s \in Secs : Done("d2h", s) /\ s \notin memcpy_out => host_out[kid(s)] = s

(* When the flags are cleared all is over. *)
Over ==
  /\ step \in {"stop", "join", "done"} => memcpy_out = Secs
  /\ ~run => step \in {"join", "done", "exit"}
  /\ \A k \in Lanes :
       /\ inThread[k] = "end" => ~run /\ inQueue[k] = <<>>
       /\ outThread[k] = "end" => ~run /\ outQueue[k] = <<>>
       /\ step = "done" => inThread[k] = "end" /\ outThread[k] = "end"

Events == PushedIn /\ PushedCommands /\ PushedOut /\ Once
Waited == WaitedH2d /\ WaitedKrn /\ WaitedD2h /\ WaitedOut
Queues == InOrder /\ InBusy /\ OutOrder /\ OutBusy
Buffers == HostInKept /\ DevInKept /\ DevOutKept /\ HostOutKept

IInv == PipeTypeOK /\ Events /\ Waited /\ Queues /\ Buffers /\ Over
-----------------------------------------------------------------------------
(* The sections that share buffers *)

(* Those of even number share one set of buffers, those of odd number the     *)
(* other, and all of a set go through the same threads.                       *)
LEMMA SameLane ==
  ASSUME lanes \in {1, 2}, NEW r \in Secs, NEW s \in Secs, kid(r) = kid(s)
  PROVE  Lane(r) = Lane(s)
<1>1. CASE lanes = 1
  BY <1>1 DEF Lane, Secs
<1>2. CASE lanes = 2
  BY <1>2 DEF Lane, kid
<1> QED BY <1>1, <1>2

LEMMA LaneType ==
  ASSUME lanes \in {1, 2}, NEW s \in Secs
  PROVE  Lane(s) \in Lanes
<1>1. CASE lanes = 1
  BY <1>1 DEF Lane, Lanes, Secs
<1>2. CASE lanes = 2
  BY <1>2 DEF Lane, Lanes, Secs
<1> QED BY <1>1, <1>2

LEMMA KidType ==
  ASSUME NEW s \in Secs
  PROVE  kid(s) \in {0, 1}
BY SectionsAssumption DEF kid, Secs

(* The last of the earlier sections is the one two before. *)
LEMMA TwoBefore ==
  ASSUME NEW s \in Secs, NEW r \in Earlier(s)
  PROVE  s > 1 /\ s - 2 \in Secs /\ kid(s - 2) = kid(s) /\ (r = s - 2 \/ r \in Earlier(s - 2))
<1>1. r < s /\ r % 2 = s % 2 /\ r \in Secs /\ r \in Nat /\ s \in Nat
  BY SectionsAssumption DEF Earlier, kid, Secs
<1>2. r <= s - 2
  BY <1>1
<1>3. s - 2 \in Secs /\ (s - 2) % 2 = s % 2
  BY <1>1, <1>2, SectionsAssumption DEF Secs
<1> QED BY <1>1, <1>2, <1>3 DEF Earlier, kid

(* Two sections that share buffers are the same, or one is the earlier one.   *)
LEMMA Sharing ==
  ASSUME NEW r \in Secs, NEW s \in Secs, kid(r) = kid(s), r # s
  PROVE  r \in Earlier(s) \/ s \in Earlier(r)
BY SectionsAssumption DEF Earlier, Secs

(* Queues by their elements. *)
LEMMA AppendElements ==
  ASSUME NEW q \in Seq(Secs), NEW s \in Secs
  PROVE  /\ Append(q, s) \in Seq(Secs) /\ Append(q, s) # <<>>
         /\ Len(Append(q, s)) = Len(q) + 1 /\ Len(q) \in Nat
         /\ Append(q, s)[Len(q) + 1] = s
         /\ \A i \in 1..Len(q) : Append(q, s)[i] = q[i]
BY Z3

LEMMA TailElements ==
  ASSUME NEW q \in Seq(Secs), q # <<>>
  PROVE  /\ Tail(q) \in Seq(Secs) /\ Head(q) \in Secs /\ Head(q) = q[1]
         /\ Len(Tail(q)) = Len(q) - 1 /\ Len(q) \in Nat \ {0}
         /\ \A i \in 1..Len(Tail(q)) : Tail(q)[i] = q[i + 1] /\ i + 1 \in 1..Len(q)
         /\ 1 \in 1..Len(q)
BY Z3

-----------------------------------------------------------------------------
(* Types *)

LEMMA TypeMain ==
  ASSUME PipeTypeOK, MainThread
  PROVE  PipeTypeOK'
<1>. sec \in Secs /\ sec \in Nat /\ Sections \in Nat /\ Lane(sec) \in Lanes
  BY LaneType, SectionsAssumption DEF PipeTypeOK, Secs
<1>1. CASE PushIn
  <2>1. \A k \in Lanes : inQueue[k] \in Seq(Secs) /\ Append(inQueue[k], sec) \in Seq(Secs)
    BY AppendElements DEF PipeTypeOK
  <2>2. inQueue' \in [Lanes -> Seq(Secs)]
    BY <1>1, <2>1 DEF PushIn, PipeTypeOK
  <2> QED BY <1>1, <2>2 DEF PushIn, PipeTypeOK, Commands, outside, commands, buffers, Lanes
<1>2. CASE Enqueue
  <2>1. AfterCommand[step] \in {"krn", "d2h", "memcpy_out"}
    BY <1>2 DEF Enqueue, AfterCommand, Commands
  <2>2. queued' \subseteq Commands \X Secs
    BY <1>2 DEF Enqueue, PipeTypeOK
  <2> QED BY <1>2, <2>1, <2>2 DEF Enqueue, PipeTypeOK, Commands, inside, outside, buffers, Lanes
<1>3. CASE PushOut
  <2>1. \A k \in Lanes : outQueue[k] \in Seq(Secs) /\ Append(outQueue[k], sec) \in Seq(Secs)
    BY AppendElements DEF PipeTypeOK
  <2>2. outQueue' \in [Lanes -> Seq(Secs)]
    BY <1>3, <2>1 DEF PushOut, PipeTypeOK
  <2>3. sec' \in Secs
    BY <1>3 DEF PushOut, Secs
  <2> QED BY <1>3, <2>2, <2>3 DEF PushOut, PipeTypeOK, Commands, inside, commands, buffers, Lanes
<1>4. CASE WaitForEvents \/ StopThreads \/ JoinThreads
  BY <1>4 DEF WaitForEvents, StopThreads, JoinThreads, PipeTypeOK, Commands, inside, outside, commands, buffers, Lanes
<1> QED BY <1>1, <1>2, <1>3, <1>4 DEF MainThread

LEMMA TypeIn ==
  ASSUME PipeTypeOK, NEW k \in Lanes, InThread(k), InBusy
  PROVE  PipeTypeOK'
<1>1. inThread[k] \in {"copy", "event", "pop"} => inQueue[k] # <<>>
  BY DEF InBusy
<1>2. inQueue[k] \in Seq(Secs)
  BY DEF PipeTypeOK
<1>3. inQueue[k] # <<>> => Head(inQueue[k]) \in Secs /\ Tail(inQueue[k]) \in Seq(Secs)
                           /\ kid(Head(inQueue[k])) \in {0, 1}
  BY <1>2, TailElements, KidType
<1>4. CASE InEnd(k)
  BY <1>4 DEF InEnd, PipeTypeOK, Lanes, main, outside, commands, buffers
<1>5. CASE InWait(k)
  BY <1>3, <1>5 DEF InWait, PipeTypeOK, Lanes, main, outside, commands
<1>6. CASE InCopy(k)
  BY <1>1, <1>3, <1>6 DEF InCopy, PipeTypeOK, Lanes, main, outside, commands
<1>7. CASE InEvent(k)
  BY <1>1, <1>3, <1>7 DEF InEvent, PipeTypeOK, Lanes, main, outside, commands, buffers
<1>8. CASE InPop(k)
  BY <1>1, <1>3, <1>8 DEF InPop, AfterPop, PipeTypeOK, Lanes, main, outside, commands, buffers
<1> QED BY <1>4, <1>5, <1>6, <1>7, <1>8 DEF InThread

LEMMA TypeOut ==
  ASSUME PipeTypeOK, NEW k \in Lanes, OutBusy,
         OutLoop(k) \/ OutWait(k) \/ OutDone(k) \/ OutExit(k)
  PROVE  PipeTypeOK'
<1>1. outThread[k] \in {"work", "event", "pop"} => outQueue[k] # <<>>
  BY DEF OutBusy
<1>2. outQueue[k] \in Seq(Secs)
  BY DEF PipeTypeOK
<1>3. outQueue[k] # <<>> => Head(outQueue[k]) \in Secs /\ Tail(outQueue[k]) \in Seq(Secs)
  BY <1>2, TailElements
<1>4. CASE OutEnd(k) \/ OutWait(k) \/ OutDone(k)
  BY <1>4 DEF OutEnd, OutWait, OutDone, PipeTypeOK, Lanes, main, inside, commands, buffers
<1>5. CASE OutExit(k)
  BY <1>5 DEF OutExit, PipeTypeOK, Lanes, inside, outside, commands, buffers
<1>6. CASE OutEvent(k)
  BY <1>1, <1>3, <1>6 DEF OutEvent, section, PipeTypeOK, Lanes, main, inside, commands, buffers
<1>7. CASE OutPop(k)
  BY <1>1, <1>3, <1>7 DEF OutPop, AfterPop, PipeTypeOK, Lanes, main, inside, commands, buffers
<1> QED BY <1>4, <1>5, <1>6, <1>7 DEF OutLoop

LEMMA TypeDevice ==
  ASSUME PipeTypeOK, NEW s \in Secs,
         Transfer(s) \/ Kernel(s) \/ TransferBack(s) \/ \E c \in Commands : Start(c, s)
  PROVE  PipeTypeOK'
<1>. kid(s) \in {0, 1}
  BY KidType
<1>1. CASE \E c \in Commands : Start(c, s)
  <2>1. PICK c \in Commands : Start(c, s)
    BY <1>1
  <2>2. queued' \subseteq Commands \X Secs /\ running' \subseteq Commands \X Secs
    BY <2>1 DEF Start, PipeTypeOK
  <2>3. /\ dev_in' \in [{0, 1} -> Secs \cup {Torn}] /\ dev_out' \in [{0, 1} -> Secs \cup {Torn}]
        /\ host_out' \in [{0, 1} -> Secs \cup {Torn}]
    BY <2>1 DEF Start, PipeTypeOK
  <2> QED BY <2>1, <2>2, <2>3 DEF Start, PipeTypeOK, Lanes, main, inside, outside
<1>2. ASSUME NEW c \in Commands, Finish(c, s)
      PROVE  running' \subseteq Commands \X Secs /\ complete' \subseteq Commands \X Secs
  BY <1>2 DEF Finish, PipeTypeOK
<1>3. CASE Transfer(s)
  <2>1. running' \subseteq Commands \X Secs /\ complete' \subseteq Commands \X Secs
    BY <1>2, <1>3 DEF Transfer, Commands
  <2> QED BY <2>1, <1>3 DEF Transfer, Finish, PipeTypeOK, Lanes, main, inside, outside
<1>4. CASE Kernel(s)
  <2>1. running' \subseteq Commands \X Secs /\ complete' \subseteq Commands \X Secs
    BY <1>2, <1>4 DEF Kernel, Commands
  <2> QED BY <2>1, <1>4 DEF Kernel, Finish, PipeTypeOK, Lanes, main, inside, outside
<1>5. CASE TransferBack(s)
  <2>1. running' \subseteq Commands \X Secs /\ complete' \subseteq Commands \X Secs
    BY <1>2, <1>5 DEF TransferBack, Commands
  <2> QED BY <2>1, <1>5 DEF TransferBack, Finish, PipeTypeOK, Lanes, main, inside, outside
<1> QED BY <1>1, <1>3, <1>4, <1>5

LEMMA TypeStep ==
  ASSUME IInv, PipeNext
  PROVE  PipeTypeOK'
<1>. PipeTypeOK /\ InBusy /\ OutBusy
  BY DEF IInv, Queues
<1>1. CASE MainThread
  BY <1>1, TypeMain
<1>2. ASSUME NEW k \in Lanes, InThread(k)
      PROVE  PipeTypeOK'
  BY <1>2, TypeIn
<1>3. ASSUME NEW k \in Lanes, OutLoop(k) \/ OutWait(k) \/ OutDone(k) \/ OutExit(k)
      PROVE  PipeTypeOK'
  BY <1>3, TypeOut
<1>4. ASSUME NEW s \in Secs,
             Transfer(s) \/ Kernel(s) \/ TransferBack(s) \/ \E c \in Commands : Start(c, s)
      PROVE  PipeTypeOK'
  BY <1>4, TypeDevice
<1> QED BY <1>1, <1>2, <1>3, <1>4 DEF PipeNext

-----------------------------------------------------------------------------
(* What the main thread has pushed and enqueued *)

(* A thread or the device does not move the main thread on, but for the exit. *)
LEMMA OthersWait ==
  ASSUME PipeNext, ~MainThread, step' # "exit"
  PROVE  UNCHANGED main
<1>1. ASSUME NEW k \in Lanes, InThread(k)
      PROVE  UNCHANGED main
  BY <1>1 DEF InThread, InEnd, InWait, InCopy, InEvent, InPop
<1>2. ASSUME NEW k \in Lanes, OutLoop(k) \/ OutWait(k) \/ OutDone(k) \/ OutExit(k)
      PROVE  UNCHANGED main
  BY <1>2 DEF OutLoop, OutEnd, OutEvent, OutPop, OutWait, OutDone, OutExit
<1>3. ASSUME NEW s \in Secs,
             Transfer(s) \/ Kernel(s) \/ TransferBack(s) \/ \E c \in Commands : Start(c, s)
      PROVE  UNCHANGED main
  BY <1>3 DEF Transfer, Kernel, TransferBack, Finish, Start
<1> QED BY <1>1, <1>2, <1>3 DEF PipeNext

LEMMA PushedStays ==
  ASSUME PipeTypeOK, PipeNext, step' # "exit", NEW work, NEW s \in Secs, Pushed(work, s)
  PROVE  Pushed(work, s)'
<1>. s \in Nat /\ sec \in Nat
  BY SectionsAssumption DEF PipeTypeOK, Secs
<1>1. CASE UNCHANGED main
  BY <1>1 DEF main, Pushed, Before
<1>2. CASE PushIn
  BY <1>2 DEF PushIn, Pushed, Before
<1>3. CASE Enqueue
  BY <1>3 DEF Enqueue, AfterCommand, Commands, Pushed, Before
<1>4. CASE PushOut
  BY <1>4 DEF PushOut, Pushed, Before
<1>5. CASE WaitForEvents \/ StopThreads \/ JoinThreads
  BY <1>5 DEF WaitForEvents, StopThreads, JoinThreads, Pushed, Before
<1> QED BY <1>1, <1>2, <1>3, <1>4, <1>5, OthersWait DEF MainThread

(* What changes the commands' events. *)
LEMMA CommandSteps ==
  ASSUME PipeNext
  PROVE  \/ UNCHANGED commands
         \/ Enqueue
         \/ \E c \in Commands, s \in Secs : Start(c, s) \/ Finish(c, s)
<1>1. CASE MainThread
  BY <1>1 DEF MainThread, PushIn, PushOut, WaitForEvents, StopThreads, JoinThreads
<1>2. ASSUME NEW k \in Lanes, InThread(k)
      PROVE  UNCHANGED commands
  BY <1>2 DEF InThread, InEnd, InWait, InCopy, InEvent, InPop
<1>3. ASSUME NEW k \in Lanes, OutLoop(k) \/ OutWait(k) \/ OutDone(k) \/ OutExit(k)
      PROVE  UNCHANGED commands
  BY <1>3 DEF OutLoop, OutEnd, OutEvent, OutPop, OutWait, OutDone, OutExit
<1>4. ASSUME NEW s \in Secs,
             Transfer(s) \/ Kernel(s) \/ TransferBack(s) \/ \E c \in Commands : Start(c, s)
      PROVE  \E c \in Commands : Start(c, s) \/ Finish(c, s)
  BY <1>4 DEF Transfer, Kernel, TransferBack, Commands
<1> QED BY <1>1, <1>2, <1>3, <1>4 DEF PipeNext

LEMMA PushedCommandsStep ==
  ASSUME IInv, PipeNext
  PROVE  PushedCommands'
<1>. PipeTypeOK /\ PushedCommands
  BY DEF IInv, Events
<1>. SUFFICES ASSUME step' # "exit", NEW c \in Commands, NEW s \in Secs,
                     (Queued(c, s) \/ Started(c, s))'
              PROVE  Pushed(c, s)'
  BY DEF PushedCommands
<1>1. step # "exit"
  BY DEF PipeNext, Running
<1>2. CASE Queued(c, s) \/ Started(c, s)
  BY <1>1, <1>2, PushedStays DEF PushedCommands
<1>3. CASE Enqueue /\ c = step /\ s = sec
  BY <1>3 DEF Enqueue, AfterCommand, Commands, Pushed, Before
<1>4. CASE UNCHANGED commands
  BY <1>2, <1>4 DEF commands, Queued, Started, Executing, Done
<1>5. CASE Enqueue
  BY <1>2, <1>3, <1>5 DEF Enqueue, Queued, Started, Executing, Done
<1>6. ASSUME NEW d \in Commands, NEW r \in Secs, Start(d, r) \/ Finish(d, r)
      PROVE  Queued(c, s) \/ Started(c, s)
  BY <1>6 DEF Start, Finish, Queued, Started, Executing, Done
<1> QED BY <1>2, <1>4, <1>5, <1>6, CommandSteps

LEMMA OnceStep ==
  ASSUME IInv, PipeNext
  PROVE  Once'
<1>. PipeTypeOK /\ Once /\ PushedCommands
  BY DEF IInv, Events
<1>. SUFFICES ASSUME NEW c \in Commands, NEW s \in Secs
              PROVE  /\ Queued(c, s)' => ~Started(c, s)'
                     /\ Executing(c, s)' => ~Done(c, s)'
  BY DEF Once
<1>1. CASE UNCHANGED commands
  BY <1>1 DEF commands, Once, Queued, Started, Executing, Done
<1>2. CASE Enqueue
  <2>1. ~Pushed(step, sec) /\ step # "exit" /\ step \in Commands
    BY <1>2 DEF Enqueue, Pushed, Before, Commands, PipeTypeOK, Secs
  <2>2. ~Started(step, sec)
    BY <2>1 DEF PushedCommands, PipeTypeOK
  <2> QED BY <1>2, <2>2 DEF Enqueue, Once, Queued, Started, Executing, Done
<1>3. ASSUME NEW d \in Commands, NEW r \in Secs, Start(d, r)
      PROVE  /\ Queued(c, s)' => ~Started(c, s)'
             /\ Executing(c, s)' => ~Done(c, s)'
  BY <1>3 DEF Start, Once, Queued, Started, Executing, Done
<1>4. ASSUME NEW d \in Commands, NEW r \in Secs, Finish(d, r)
      PROVE  /\ Queued(c, s)' => ~Started(c, s)'
             /\ Executing(c, s)' => ~Done(c, s)'
  BY <1>4 DEF Finish, Once, Queued, Started, Executing, Done
<1> QED BY <1>1, <1>2, <1>3, <1>4, CommandSteps

-----------------------------------------------------------------------------
(* What a command has waited for *)

(* Events are never taken back. *)
LEMMA EventsStay ==
  ASSUME PipeNext
  PROVE  memcpy_in \subseteq memcpy_in' /\ memcpy_out \subseteq memcpy_out' /\ complete \subseteq complete'
<1>1. CASE MainThread
  BY <1>1 DEF MainThread, PushIn, Enqueue, PushOut, WaitForEvents, StopThreads, JoinThreads,
              inside, outside, commands
<1>2. ASSUME NEW k \in Lanes, InThread(k)
      PROVE  memcpy_in \subseteq memcpy_in' /\ UNCHANGED <<memcpy_out, complete>>
  BY <1>2 DEF InThread, InEnd, InWait, InCopy, InEvent, InPop, outside, commands
<1>3. ASSUME NEW k \in Lanes, OutLoop(k) \/ OutWait(k) \/ OutDone(k) \/ OutExit(k)
      PROVE  memcpy_out \subseteq memcpy_out' /\ UNCHANGED <<memcpy_in, complete>>
  BY <1>3 DEF OutLoop, OutEnd, OutEvent, OutPop, OutWait, OutDone, OutExit, inside, outside, commands
<1>4. ASSUME NEW s \in Secs,
             Transfer(s) \/ Kernel(s) \/ TransferBack(s) \/ \E c \in Commands : Start(c, s)
      PROVE  complete \subseteq complete' /\ UNCHANGED <<memcpy_in, memcpy_out>>
  BY <1>4 DEF Transfer, Kernel, TransferBack, Finish, Start, inside, outside
<1> QED BY <1>1, <1>2, <1>3, <1>4 DEF PipeNext

(* A command that has started now had started before, or its dependencies hold. *)
LEMMA StartedStep ==
  ASSUME PipeNext, NEW c \in Commands, NEW s \in Secs, Started(c, s)'
  PROVE  Started(c, s) \/ (Dependencies(c, s) /\ UNCHANGED <<memcpy_in, memcpy_out, complete>>)
<1>1. CASE UNCHANGED commands
  BY <1>1 DEF commands, Started, Executing, Done
<1>2. CASE Enqueue
  BY <1>2 DEF Enqueue, Started, Executing, Done
<1>3. ASSUME NEW d \in Commands, NEW r \in Secs, Start(d, r)
      PROVE  Started(c, s) \/ (Dependencies(c, s) /\ UNCHANGED <<memcpy_in, memcpy_out, complete>>)
  BY <1>3 DEF Start, inside, outside, Started, Executing, Done
<1>4. ASSUME NEW d \in Commands, NEW r \in Secs, Finish(d, r)
      PROVE  Started(c, s)
  BY <1>4 DEF Finish, Started, Executing, Done
<1> QED BY <1>1, <1>2, <1>3, <1>4, CommandSteps

(* Each has waited for the command or the copy of the section two before on   *)
(* the same buffer, and that one for all of them before it.                   *)
LEMMA WaitedH2dStep ==
  ASSUME IInv, PipeNext
  PROVE  WaitedH2d'
<1>. SUFFICES ASSUME NEW s \in Secs, Started("h2d", s)'
              PROVE  s \in memcpy_in' /\ \A r \in Earlier(s) : Done("krn", r)'
  BY DEF WaitedH2d
<1>1. CASE Started("h2d", s)
  BY <1>1, EventsStay DEF IInv, Waited, WaitedH2d, Done
<1>2. CASE Dependencies("h2d", s) /\ UNCHANGED <<memcpy_in, memcpy_out, complete>>
  <2>1. s \in memcpy_in /\ (s > 1 => Done("krn", s - 2))
    BY <1>2 DEF Dependencies
  <2>2. ASSUME NEW r \in Earlier(s)
        PROVE  Done("krn", r)
    <3>1. Done("krn", s - 2) /\ s - 2 \in Secs /\ (r = s - 2 \/ r \in Earlier(s - 2))
      BY <2>1, TwoBefore
    <3>2. \A q \in Earlier(s - 2) : Done("krn", q)
      BY <3>1 DEF IInv, Waited, WaitedKrn, Started, Earlier
    <3> QED BY <3>1, <3>2
  <2> QED BY <1>2, <2>1, <2>2 DEF Done
<1> QED BY <1>1, <1>2, StartedStep DEF Commands

LEMMA WaitedKrnStep ==
  ASSUME IInv, PipeNext
  PROVE  WaitedKrn'
<1>. SUFFICES ASSUME NEW s \in Secs, Started("krn", s)'
              PROVE  /\ Done("h2d", s)'
                     /\ \A r \in Secs : r < s => Done("krn", r)'
                     /\ \A r \in Earlier(s) : Done("d2h", r)'
  BY DEF WaitedKrn
<1>1. CASE Started("krn", s)
  BY <1>1, EventsStay DEF IInv, Waited, WaitedKrn, Done
<1>2. CASE Dependencies("krn", s) /\ UNCHANGED <<memcpy_in, memcpy_out, complete>>
  <2>1. Done("h2d", s) /\ (s > 0 => Done("krn", s - 1)) /\ (s > 1 => Done("d2h", s - 2))
    BY <1>2 DEF Dependencies
  <2>2. ASSUME NEW r \in Secs, r < s
        PROVE  Done("krn", r)
    <3>1. s > 0 /\ s - 1 \in Secs /\ (r = s - 1 \/ r < s - 1)
      BY <2>2, SectionsAssumption DEF Secs
    <3>2. Done("krn", s - 1) /\ Started("krn", s - 1)
      BY <2>1, <3>1 DEF Started
    <3> QED BY <3>1, <3>2 DEF IInv, Waited, WaitedKrn
  <2>3. ASSUME NEW r \in Earlier(s)
        PROVE  Done("d2h", r)
    <3>1. Done("d2h", s - 2) /\ s - 2 \in Secs /\ (r = s - 2 \/ r \in Earlier(s - 2))
      BY <2>1, TwoBefore
    <3>2. \A q \in Earlier(s - 2) : q \in memcpy_out
      BY <3>1 DEF IInv, Waited, WaitedD2h, Started
    <3> QED BY <3>1, <3>2 DEF IInv, Waited, WaitedOut
  <2> QED BY <1>2, <2>1, <2>2, <2>3 DEF Done
<1> QED BY <1>1, <1>2, StartedStep DEF Commands

LEMMA WaitedD2hStep ==
  ASSUME IInv, PipeNext
  PROVE  WaitedD2h'
<1>. SUFFICES ASSUME NEW s \in Secs, Started("d2h", s)'
              PROVE  Done("krn", s)' /\ \A r \in Earlier(s) : r \in memcpy_out'
  BY DEF WaitedD2h
<1>1. CASE Started("d2h", s)
  BY <1>1, EventsStay DEF IInv, Waited, WaitedD2h, Done
<1>2. CASE Dependencies("d2h", s) /\ UNCHANGED <<memcpy_in, memcpy_out, complete>>
  <2>1. Done("krn", s) /\ (s > 1 => s - 2 \in memcpy_out)
    BY <1>2 DEF Dependencies
  <2>2. ASSUME NEW r \in Earlier(s)
        PROVE  r \in memcpy_out
    <3>1. s - 2 \in memcpy_out /\ s - 2 \in Secs /\ (r = s - 2 \/ r \in Earlier(s - 2))
      BY <2>1, TwoBefore
    <3>2. Started("d2h", s - 2)
      BY <3>1 DEF IInv, Waited, WaitedOut, Started
    <3> QED BY <3>1, <3>2 DEF IInv, Waited, WaitedD2h
  <2> QED BY <1>2, <2>1, <2>2 DEF Done
<1> QED BY <1>1, <1>2, StartedStep DEF Commands

(* What changes the events and the queues of the threads that take out. *)
LEMMA OutSteps ==
  ASSUME PipeNext
  PROVE  \/ UNCHANGED <<lanes, outside>>
         \/ PushOut
         \/ \E k \in Lanes : OutLoop(k) \/ OutWait(k) \/ OutDone(k)
<1>1. CASE MainThread
  BY <1>1 DEF MainThread, PushIn, Enqueue, WaitForEvents, StopThreads, JoinThreads
<1>2. ASSUME NEW k \in Lanes, InThread(k)
      PROVE  UNCHANGED <<lanes, outside>>
  BY <1>2 DEF InThread, InEnd, InWait, InCopy, InEvent, InPop
<1>3. ASSUME NEW k \in Lanes, OutExit(k)
      PROVE  UNCHANGED <<lanes, outside>>
  BY <1>3 DEF OutExit
<1>4. ASSUME NEW s \in Secs,
             Transfer(s) \/ Kernel(s) \/ TransferBack(s) \/ \E c \in Commands : Start(c, s)
      PROVE  UNCHANGED <<lanes, outside>>
  BY <1>4 DEF Transfer, Kernel, TransferBack, Finish, Start
<1> QED BY <1>1, <1>2, <1>3, <1>4 DEF PipeNext

(* The same for the threads that copy in. *)
LEMMA InSteps ==
  ASSUME PipeNext
  PROVE  \/ UNCHANGED <<lanes, inside, host_in>>
         \/ PushIn
         \/ \E k \in Lanes : InThread(k)
<1>1. CASE MainThread
  BY <1>1 DEF MainThread, Enqueue, PushOut, WaitForEvents, StopThreads, JoinThreads, buffers
<1>2. ASSUME NEW k \in Lanes, OutLoop(k) \/ OutWait(k) \/ OutDone(k) \/ OutExit(k)
      PROVE  UNCHANGED <<lanes, inside, host_in>>
  BY <1>2 DEF OutLoop, OutEnd, OutEvent, OutPop, OutWait, OutDone, OutExit, buffers
<1>3. ASSUME NEW s \in Secs,
             Transfer(s) \/ Kernel(s) \/ TransferBack(s) \/ \E c \in Commands : Start(c, s)
      PROVE  UNCHANGED <<lanes, inside, host_in>>
  BY <1>3 DEF Transfer, Kernel, TransferBack, Finish, Start
<1> QED BY <1>1, <1>2, <1>3 DEF PipeNext

LEMMA WaitedOutStep ==
  ASSUME IInv, PipeNext
  PROVE  WaitedOut'
<1>. SUFFICES ASSUME NEW s \in memcpy_out'
              PROVE  s \in memcpy_out \/ Done("d2h", s)
  BY EventsStay DEF IInv, Waited, WaitedOut, Done
<1>1. CASE UNCHANGED <<lanes, outside>> \/ PushOut
  BY <1>1 DEF outside, PushOut
<1>2. ASSUME NEW k \in Lanes, OutEnd(k) \/ OutPop(k) \/ OutWait(k) \/ OutDone(k)
      PROVE  s \in memcpy_out
  BY <1>2 DEF OutEnd, OutPop, OutWait, OutDone
<1>3. ASSUME NEW k \in Lanes, OutEvent(k)
      PROVE  s \in memcpy_out \/ Done("d2h", s)
  <2>1. outThread[k] = "event" /\ memcpy_out' = memcpy_out \cup {Head(outQueue[k])}
    BY <1>3 DEF OutEvent, section
  <2>2. outQueue[k] # <<>> /\ outQueue[k] \in Seq(Secs) /\ Done("d2h", outQueue[k][1])
    BY <2>1 DEF IInv, Queues, OutBusy, PipeTypeOK
  <2> QED BY <2>1, <2>2, TailElements
<1> QED BY <1>1, <1>2, <1>3, OutSteps DEF OutLoop

LEMMA LanesStay ==
  ASSUME PipeNext
  PROVE  lanes' = lanes /\ Lanes' = Lanes
BY DEF Lanes, PipeNext, MainThread, PushIn, Enqueue, PushOut, WaitForEvents, StopThreads,
       JoinThreads, InThread, InEnd, InWait, InCopy, InEvent, InPop, OutLoop, OutEnd, OutEvent,
       OutPop, OutWait, OutDone, OutExit, Transfer, Kernel, TransferBack, Finish, Start

-----------------------------------------------------------------------------
(* The threads that copy in *)

(* What becomes of their queues and of their events: PushIn adds a section to *)
(* the end of a queue, InPop takes one from the front, and InEvent completes  *)
(* the event of the front.                                                   *)
InPushed(k) ==
  /\ PushIn /\ k = Lane(sec) /\ inThread' = inThread /\ memcpy_in' = memcpy_in
  /\ Len(inQueue'[k]) = Len(inQueue[k]) + 1 /\ inQueue'[k] # <<>>
  /\ inQueue'[k][Len(inQueue[k]) + 1] = sec
  /\ \A i \in 1..Len(inQueue[k]) : inQueue'[k][i] = inQueue[k][i]
InPopped(k) ==
  /\ inThread[k] = "pop" /\ inThread'[k] \in {"idle", "front"} /\ inQueue[k] # <<>>
  /\ memcpy_in' = memcpy_in
  /\ Len(inQueue'[k]) = Len(inQueue[k]) - 1
  /\ \A i \in 1..Len(inQueue'[k]) :
       i + 1 \in 1..Len(inQueue[k]) /\ inQueue'[k][i] = inQueue[k][i + 1]
InSame(k) ==
  inQueue'[k] = inQueue[k] /\ (inThread[k] = "pop" => inThread'[k] = "pop")

LEMMA InQueueStep ==
  ASSUME IInv, PipeNext, NEW k \in Lanes
  PROVE  InPushed(k) \/ InPopped(k) \/ InSame(k)
<1>. PipeTypeOK /\ inQueue[k] \in Seq(Secs) /\ InBusy
  BY DEF IInv, Queues, PipeTypeOK
<1>1. CASE UNCHANGED <<lanes, inside, host_in>>
  BY <1>1 DEF inside, InSame
<1>2. CASE PushIn
  <2>1. sec \in Secs /\ Lane(sec) \in Lanes
    BY LaneType DEF PipeTypeOK
  <2>2. CASE k = Lane(sec)
    <3>1. inQueue'[k] = Append(inQueue[k], sec)
      BY <1>2, <2>1, <2>2 DEF PushIn, PipeTypeOK
    <3> QED BY <1>2, <2>1, <2>2, <3>1, AppendElements DEF PushIn, InPushed
  <2>3. CASE k # Lane(sec)
    BY <1>2, <2>1, <2>3 DEF PushIn, PipeTypeOK, InSame
  <2> QED BY <2>2, <2>3
<1>3. ASSUME NEW l \in Lanes, InEnd(l) \/ InWait(l) \/ InCopy(l) \/ InEvent(l)
      PROVE  InSame(k)
  BY <1>3 DEF InEnd, InWait, InCopy, InEvent, InSame, PipeTypeOK
<1>4. ASSUME NEW l \in Lanes, InPop(l)
      PROVE  InPopped(k) \/ InSame(k)
  <2>1. CASE k # l
    BY <1>4, <2>1 DEF InPop, PipeTypeOK, InSame
  <2>2. CASE k = l
    <3>1. /\ inQueue[k] # <<>> /\ inThread[k] = "pop" /\ memcpy_in' = memcpy_in
          /\ inQueue'[k] = Tail(inQueue[k]) /\ inThread'[k] = AfterPop(inQueue[k])
      BY <1>4, <2>2 DEF InPop, InBusy, PipeTypeOK
    <3>2. AfterPop(inQueue[k]) \in {"idle", "front"}
      BY DEF AfterPop
    <3>3. /\ Len(inQueue'[k]) = Len(inQueue[k]) - 1
          /\ \A i \in 1..Len(inQueue'[k]) :
               i + 1 \in 1..Len(inQueue[k]) /\ inQueue'[k][i] = inQueue[k][i + 1]
      BY <3>1, TailElements
    <3> QED BY <3>1, <3>2, <3>3 DEF InPopped
  <2> QED BY <2>1, <2>2
<1> QED BY <1>1, <1>2, <1>3, <1>4, InSteps DEF InThread

LEMMA InEventStep ==
  ASSUME IInv, PipeNext, NEW s \in memcpy_in'
  PROVE  s \in memcpy_in
         \/ \E k \in Lanes : InEvent(k) /\ inQueue[k] # <<>> /\ s = inQueue[k][1] /\ 1 \in 1..Len(inQueue[k])
<1>1. CASE UNCHANGED <<lanes, inside, host_in>> \/ PushIn
  BY <1>1 DEF inside, PushIn
<1>2. ASSUME NEW k \in Lanes, InEnd(k) \/ InWait(k) \/ InCopy(k) \/ InPop(k)
      PROVE  s \in memcpy_in
  BY <1>2 DEF InEnd, InWait, InCopy, InPop
<1>3. ASSUME NEW k \in Lanes, InEvent(k)
      PROVE  s \in memcpy_in \/ (inQueue[k] # <<>> /\ s = inQueue[k][1] /\ 1 \in 1..Len(inQueue[k]))
  <2>1. inQueue[k] # <<>> /\ inQueue[k] \in Seq(Secs)
    BY <1>3 DEF InEvent, IInv, Queues, InBusy, PipeTypeOK
  <2> QED BY <1>3, <2>1, TailElements DEF InEvent
<1> QED BY <1>1, <1>2, <1>3, InSteps DEF InThread

LEMMA PushedInStep ==
  ASSUME IInv, PipeNext
  PROVE  PushedIn'
<1>. PipeTypeOK /\ PushedIn /\ step # "exit" /\ lanes' = lanes
  BY LanesStay DEF IInv, Events, PipeNext, Running
<1>1. ASSUME step' # "exit", NEW s \in Secs, Pushed("memcpy_in", s)
      PROVE  Pushed("memcpy_in", s)'
  BY <1>1, PushedStays
<1>2. ASSUME step' # "exit", NEW s \in memcpy_in'
      PROVE  Pushed("memcpy_in", s)'
  <2>1. s \in Secs
    BY TypeStep DEF PipeTypeOK
  <2>2. CASE s \in memcpy_in
    BY <1>1, <1>2, <2>1, <2>2 DEF PushedIn
  <2>3. ASSUME NEW k \in Lanes, s = inQueue[k][1], 1 \in 1..Len(inQueue[k])
        PROVE  Pushed("memcpy_in", s)'
    BY <1>1, <1>2, <2>1, <2>3 DEF PushedIn
  <2> QED BY <2>2, <2>3, InEventStep
<1>3. ASSUME step' # "exit", NEW k \in Lanes, NEW i \in 1..Len(inQueue'[k]),
             NEW s \in Secs, s = inQueue'[k][i]
      PROVE  Pushed("memcpy_in", s)'
  <2>1. inQueue[k] \in Seq(Secs) /\ Len(inQueue[k]) \in Nat
    BY DEF PipeTypeOK
  <2>2. ASSUME NEW j \in 1..Len(inQueue[k]), s = inQueue[k][j]
        PROVE  Pushed("memcpy_in", s)'
    BY <1>1, <1>3, <2>2 DEF PushedIn
  <2>3. CASE InPushed(k)
    <3>1. CASE i = Len(inQueue[k]) + 1
      BY <1>3, <2>3, <3>1 DEF InPushed, PushIn, Pushed, Before
    <3>2. CASE i # Len(inQueue[k]) + 1
      BY <1>3, <2>1, <2>2, <2>3, <3>2 DEF InPushed
    <3> QED BY <3>1, <3>2
  <2>4. CASE InPopped(k) \/ InSame(k)
    BY <1>3, <2>1, <2>2, <2>4 DEF InPopped, InSame
  <2> QED BY <2>3, <2>4, InQueueStep
<1>4. ASSUME NEW k \in Lanes, NEW i \in 1..Len(inQueue'[k])
      PROVE  inQueue'[k][i] \in Secs
  <2>1. inQueue'[k] \in Seq(Secs)
    BY TypeStep DEF PipeTypeOK, Lanes
  <2> QED BY <2>1
<1> QED BY <1>2, <1>3, <1>4 DEF PushedIn, Lanes, Pushed

LEMMA InOrderStep ==
  ASSUME IInv, PipeNext
  PROVE  InOrder'
<1>. PipeTypeOK /\ PushedIn /\ InOrder /\ step # "exit" /\ lanes' = lanes /\ Lanes' = Lanes
  BY LanesStay DEF IInv, Events, Queues, PipeNext, Running
<1>. SUFFICES ASSUME NEW k \in Lanes
              PROVE  /\ \A i \in 1..Len(inQueue'[k]) : Lane(inQueue'[k][i]) = k
                     /\ \A i, j \in 1..Len(inQueue'[k]) : i < j => inQueue'[k][i] < inQueue'[k][j]
                     /\ \A s \in memcpy_in' : Lane(s) = k =>
                          \A i \in 1..Len(inQueue'[k]) :
                            s < inQueue'[k][i] \/ (i = 1 /\ s = inQueue'[k][1] /\ inThread'[k] = "pop")
  BY DEF InOrder, Lane
<1>1. /\ inQueue[k] \in Seq(Secs) /\ Len(inQueue[k]) \in Nat /\ memcpy_in \subseteq Secs
      /\ \A i \in 1..Len(inQueue[k]) : inQueue[k][i] \in Secs /\ inQueue[k][i] \in Int
  BY SectionsAssumption DEF PipeTypeOK, Secs
<1>2. /\ \A i \in 1..Len(inQueue[k]) : Lane(inQueue[k][i]) = k
      /\ \A i, j \in 1..Len(inQueue[k]) : i < j => inQueue[k][i] < inQueue[k][j]
      /\ \A s \in memcpy_in : Lane(s) = k =>
           \A i \in 1..Len(inQueue[k]) :
             s < inQueue[k][i] \/ (i = 1 /\ s = inQueue[k][1] /\ inThread[k] = "pop")
  BY DEF InOrder
<1>3. CASE InPushed(k)
  <2>1. /\ \A i \in 1..Len(inQueue[k]) : inQueue[k][i] < sec
        /\ \A s \in memcpy_in : s < sec
    BY <1>3 DEF PushedIn, Pushed, Before, InPushed, PushIn
  <2>2. \A i \in 1..Len(inQueue'[k]) :
          \/ i \in 1..Len(inQueue[k]) /\ inQueue'[k][i] = inQueue[k][i]
          \/ i = Len(inQueue[k]) + 1 /\ inQueue'[k][i] = sec
    BY <1>1, <1>3 DEF InPushed
  <2>3. Lane(sec) = k /\ memcpy_in' = memcpy_in /\ inThread' = inThread
    BY <1>3 DEF InPushed
  <2>4. \A i \in 1..Len(inQueue'[k]) : Lane(inQueue'[k][i]) = k
    BY <1>2, <2>2, <2>3
  <2>5. \A i, j \in 1..Len(inQueue'[k]) : i < j => inQueue'[k][i] < inQueue'[k][j]
    BY <1>1, <1>2, <2>1, <2>2
  <2>6. ASSUME NEW s \in memcpy_in, Lane(s) = k, NEW i \in 1..Len(inQueue'[k])
        PROVE  s < inQueue'[k][i] \/ (i = 1 /\ s = inQueue'[k][1] /\ inThread[k] = "pop")
    BY <1>1, <1>2, <2>1, <2>2, <2>6
  <2> QED BY <2>3, <2>4, <2>5, <2>6
<1>4. CASE InPopped(k)
  BY <1>1, <1>2, <1>4 DEF InPopped
<1>5. CASE InSame(k)
  <2>1. ASSUME NEW l \in Lanes, InEvent(l), NEW i \in 1..Len(inQueue[k]),
               1 \in 1..Len(inQueue[l]), Lane(inQueue[l][1]) = k
        PROVE  inQueue[l][1] < inQueue[k][i] \/ (i = 1 /\ l = k /\ inThread'[k] = "pop")
    <3>1. l = k
      BY <2>1 DEF InOrder
    <3>2. inThread'[k] = "pop"
      BY <2>1, <3>1 DEF InEvent, PipeTypeOK
    <3> QED BY <1>1, <1>2, <2>1, <3>1, <3>2
  <2>2. ASSUME NEW s \in memcpy_in', Lane(s) = k, NEW i \in 1..Len(inQueue[k])
        PROVE  s < inQueue[k][i] \/ (i = 1 /\ s = inQueue[k][1] /\ inThread'[k] = "pop")
    <3>1. CASE s \in memcpy_in
      BY <1>2, <1>5, <2>2, <3>1 DEF InSame
    <3> QED BY <2>1, <2>2, <3>1, InEventStep
  <2> QED BY <1>2, <1>5, <2>2 DEF InSame
<1> QED BY <1>3, <1>4, <1>5, InQueueStep

LEMMA InBusyStep ==
  ASSUME IInv, PipeNext
  PROVE  InBusy'
<1>. PipeTypeOK /\ InOrder /\ InBusy /\ lanes' = lanes /\ Lanes' = Lanes
  BY LanesStay DEF IInv, Queues
<1>. SUFFICES ASSUME NEW k \in Lanes
              PROVE  /\ inThread'[k] \in {"copy", "event", "pop"} => inQueue'[k] # <<>>
                     /\ inThread'[k] \in {"copy", "event"} => MayOverwrite(inQueue[k][1])
                     /\ inThread'[k] \in {"copy", "event"} => inQueue'[k][1] = inQueue[k][1]
                     /\ inThread'[k] = "event" => host_in'[kid(inQueue[k][1])] = inQueue[k][1]
  BY EventsStay DEF InBusy, MayOverwrite, Done, kid
<1>1. /\ inThread[k] \in {"copy", "event", "pop"} => inQueue[k] # <<>>
      /\ inThread[k] \in {"copy", "event"} => MayOverwrite(inQueue[k][1])
      /\ inThread[k] = "event" => host_in[kid(inQueue[k][1])] = inQueue[k][1]
  BY DEF InBusy
<1>2. CASE UNCHANGED <<lanes, inside, host_in>>
  BY <1>1, <1>2 DEF inside
<1>3. CASE PushIn
  <2>1. UNCHANGED <<inThread, host_in>>
    BY <1>3 DEF PushIn, buffers
  <2>2. inQueue[k] # <<>> => inQueue'[k] # <<>> /\ inQueue'[k][1] = inQueue[k][1]
    <3>1. CASE InPushed(k)
      BY <3>1, TailElements DEF InPushed, PipeTypeOK
    <3>2. CASE InSame(k)
      BY <3>2 DEF InSame
    <3>3. ~InPopped(k)
      BY <1>3 DEF InPopped, PushIn
    <3> QED BY <3>1, <3>2, <3>3, InQueueStep
  <2> QED BY <1>1, <2>1, <2>2
<1>4. ASSUME NEW l \in Lanes, InThread(l), l # k
      PROVE  /\ inThread'[k] = inThread[k] /\ inQueue'[k] = inQueue[k]
             /\ inThread[k] = "event" => host_in'[kid(inQueue[k][1])] = host_in[kid(inQueue[k][1])]
  <2>1. inThread'[k] = inThread[k] /\ inQueue'[k] = inQueue[k]
    BY <1>4 DEF InThread, InEnd, InWait, InCopy, InEvent, InPop, PipeTypeOK
  <2>2. CASE InEnd(l) \/ InEvent(l) \/ InPop(l)
    BY <2>1, <2>2 DEF InEnd, InEvent, InPop, buffers
  <2>3. CASE (InWait(l) \/ InCopy(l)) /\ inThread[k] = "event"
    <3>1. inQueue[l] # <<>> /\ inQueue[k] # <<>> /\ inQueue[l] \in Seq(Secs) /\ inQueue[k] \in Seq(Secs)
      BY <2>3 DEF InWait, InCopy, InBusy, PipeTypeOK
    <3>2. /\ inQueue[l][1] \in Secs /\ inQueue[k][1] \in Secs /\ Head(inQueue[l]) = inQueue[l][1]
          /\ Lane(inQueue[l][1]) = l /\ Lane(inQueue[k][1]) = k
      BY <3>1, TailElements DEF InOrder
    <3>3. kid(inQueue[l][1]) # kid(inQueue[k][1])
      BY <1>4, <3>2, SameLane DEF PipeTypeOK
    <3> QED BY <2>1, <2>3, <3>2, <3>3, KidType DEF InWait, InCopy, PipeTypeOK
  <2> QED BY <1>4, <2>1, <2>2, <2>3 DEF InThread
<1>5. CASE InThread(k)
  <2>1. inQueue[k] \in Seq(Secs)
    BY DEF PipeTypeOK
  <2>2. inQueue[k] # <<>> =>
          Head(inQueue[k]) = inQueue[k][1] /\ inQueue[k][1] \in Secs /\ kid(inQueue[k][1]) \in {0, 1}
    BY <2>1, TailElements, KidType
  <2>3. CASE InEnd(k)
    BY <2>3 DEF InEnd, PipeTypeOK
  <2>4. CASE InWait(k)
    BY <2>2, <2>4 DEF InWait, PipeTypeOK
  <2>5. CASE InCopy(k)
    BY <1>1, <2>2, <2>5 DEF InCopy, PipeTypeOK
  <2>6. CASE InEvent(k)
    BY <1>1, <2>6 DEF InEvent, PipeTypeOK
  <2>7. CASE InPop(k)
    BY <2>7 DEF InPop, AfterPop, PipeTypeOK
  <2> QED BY <1>5, <2>3, <2>4, <2>5, <2>6, <2>7 DEF InThread
<1> QED BY <1>1, <1>2, <1>3, <1>4, <1>5, InSteps

-----------------------------------------------------------------------------
(* The threads that take results out: the same facts *)

OutPushed(k) ==
  /\ PushOut /\ k = Lane(sec) /\ outThread' = outThread /\ memcpy_out' = memcpy_out
  /\ Len(outQueue'[k]) = Len(outQueue[k]) + 1 /\ outQueue'[k] # <<>>
  /\ outQueue'[k][Len(outQueue[k]) + 1] = sec
  /\ \A i \in 1..Len(outQueue[k]) : outQueue'[k][i] = outQueue[k][i]
OutPopped(k) ==
  /\ outThread[k] = "pop" /\ outThread'[k] \in {"idle", "front"} /\ outQueue[k] # <<>>
  /\ memcpy_out' = memcpy_out
  /\ Len(outQueue'[k]) = Len(outQueue[k]) - 1
  /\ \A i \in 1..Len(outQueue'[k]) :
       i + 1 \in 1..Len(outQueue[k]) /\ outQueue'[k][i] = outQueue[k][i + 1]
OutSame(k) ==
  outQueue'[k] = outQueue[k] /\ (outThread[k] = "pop" => outThread'[k] = "pop")

LEMMA OutQueueStep ==
  ASSUME IInv, PipeNext, NEW k \in Lanes
  PROVE  OutPushed(k) \/ OutPopped(k) \/ OutSame(k)
<1>. PipeTypeOK /\ outQueue[k] \in Seq(Secs) /\ OutBusy
  BY DEF IInv, Queues, PipeTypeOK
<1>1. CASE UNCHANGED <<lanes, outside>>
  BY <1>1 DEF outside, OutSame
<1>2. CASE PushOut
  <2>1. sec \in Secs /\ Lane(sec) \in Lanes
    BY LaneType DEF PipeTypeOK
  <2>2. CASE k = Lane(sec)
    <3>1. outQueue'[k] = Append(outQueue[k], sec)
      BY <1>2, <2>1, <2>2 DEF PushOut, PipeTypeOK
    <3> QED BY <1>2, <2>1, <2>2, <3>1, AppendElements DEF PushOut, OutPushed
  <2>3. CASE k # Lane(sec)
    BY <1>2, <2>1, <2>3 DEF PushOut, PipeTypeOK, OutSame
  <2> QED BY <2>2, <2>3
<1>3. ASSUME NEW l \in Lanes, OutEnd(l) \/ OutWait(l) \/ OutDone(l) \/ OutEvent(l)
      PROVE  OutSame(k)
  BY <1>3 DEF OutEnd, OutWait, OutDone, OutEvent, OutSame, PipeTypeOK
<1>4. ASSUME NEW l \in Lanes, OutPop(l)
      PROVE  OutPopped(k) \/ OutSame(k)
  <2>1. CASE k # l
    BY <1>4, <2>1 DEF OutPop, PipeTypeOK, OutSame
  <2>2. CASE k = l
    <3>1. /\ outQueue[k] # <<>> /\ outThread[k] = "pop" /\ memcpy_out' = memcpy_out
          /\ outQueue'[k] = Tail(outQueue[k]) /\ outThread'[k] = AfterPop(outQueue[k])
      BY <1>4, <2>2 DEF OutPop, OutBusy, PipeTypeOK
    <3>2. AfterPop(outQueue[k]) \in {"idle", "front"}
      BY DEF AfterPop
    <3>3. /\ Len(outQueue'[k]) = Len(outQueue[k]) - 1
          /\ \A i \in 1..Len(outQueue'[k]) :
               i + 1 \in 1..Len(outQueue[k]) /\ outQueue'[k][i] = outQueue[k][i + 1]
      BY <3>1, TailElements
    <3> QED BY <3>1, <3>2, <3>3 DEF OutPopped
  <2> QED BY <2>1, <2>2
<1> QED BY <1>1, <1>2, <1>3, <1>4, OutSteps DEF OutLoop

LEMMA OutEventStep ==
  ASSUME IInv, PipeNext, NEW s \in memcpy_out'
  PROVE  s \in memcpy_out
         \/ \E k \in Lanes : /\ OutEvent(k) /\ outQueue[k] # <<>>
                             /\ s = outQueue[k][1] /\ 1 \in 1..Len(outQueue[k])
<1>1. CASE UNCHANGED <<lanes, outside>> \/ PushOut
  BY <1>1 DEF outside, PushOut
<1>2. ASSUME NEW k \in Lanes, OutEnd(k) \/ OutWait(k) \/ OutDone(k) \/ OutPop(k)
      PROVE  s \in memcpy_out
  BY <1>2 DEF OutEnd, OutWait, OutDone, OutPop
<1>3. ASSUME NEW k \in Lanes, OutEvent(k)
      PROVE  s \in memcpy_out
             \/ (outQueue[k] # <<>> /\ s = outQueue[k][1] /\ 1 \in 1..Len(outQueue[k]))
  <2>1. outQueue[k] # <<>> /\ outQueue[k] \in Seq(Secs)
    BY <1>3 DEF OutEvent, IInv, Queues, OutBusy, PipeTypeOK
  <2> QED BY <1>3, <2>1, TailElements DEF OutEvent, section
<1> QED BY <1>1, <1>2, <1>3, OutSteps DEF OutLoop

LEMMA PushedOutStep ==
  ASSUME IInv, PipeNext
  PROVE  PushedOut'
<1>. PipeTypeOK /\ PushedOut /\ step # "exit" /\ lanes' = lanes
  BY LanesStay DEF IInv, Events, PipeNext, Running
<1>1. ASSUME step' # "exit", NEW s \in Secs, Pushed("memcpy_out", s)
      PROVE  Pushed("memcpy_out", s)'
  BY <1>1, PushedStays
<1>2. ASSUME step' # "exit", NEW s \in memcpy_out'
      PROVE  Pushed("memcpy_out", s)'
  <2>1. s \in Secs
    BY TypeStep DEF PipeTypeOK
  <2>2. CASE s \in memcpy_out
    BY <1>1, <1>2, <2>1, <2>2 DEF PushedOut
  <2>3. ASSUME NEW k \in Lanes, s = outQueue[k][1], 1 \in 1..Len(outQueue[k])
        PROVE  Pushed("memcpy_out", s)'
    BY <1>1, <1>2, <2>1, <2>3 DEF PushedOut
  <2> QED BY <2>2, <2>3, OutEventStep
<1>3. ASSUME step' # "exit", NEW k \in Lanes, NEW i \in 1..Len(outQueue'[k]),
             NEW s \in Secs, s = outQueue'[k][i]
      PROVE  Pushed("memcpy_out", s)'
  <2>1. outQueue[k] \in Seq(Secs) /\ Len(outQueue[k]) \in Nat
    BY DEF PipeTypeOK
  <2>2. ASSUME NEW j \in 1..Len(outQueue[k]), s = outQueue[k][j]
        PROVE  Pushed("memcpy_out", s)'
    BY <1>1, <1>3, <2>2 DEF PushedOut
  <2>3. CASE OutPushed(k)
    <3>1. CASE i = Len(outQueue[k]) + 1
      <4>1. s = sec /\ sec \in Int
        BY <1>3, <2>3, <3>1, SectionsAssumption DEF OutPushed, PipeTypeOK, Secs
      <4> QED BY <2>3, <4>1 DEF OutPushed, PushOut, Pushed, Before
    <3>2. CASE i # Len(outQueue[k]) + 1
      BY <1>3, <2>1, <2>2, <2>3, <3>2 DEF OutPushed
    <3> QED BY <3>1, <3>2
  <2>4. CASE OutPopped(k) \/ OutSame(k)
    BY <1>3, <2>1, <2>2, <2>4 DEF OutPopped, OutSame
  <2> QED BY <2>3, <2>4, OutQueueStep
<1>4. ASSUME NEW k \in Lanes, NEW i \in 1..Len(outQueue'[k])
      PROVE  outQueue'[k][i] \in Secs
  <2>1. outQueue'[k] \in Seq(Secs)
    BY TypeStep DEF PipeTypeOK, Lanes
  <2> QED BY <2>1
<1> QED BY <1>2, <1>3, <1>4 DEF PushedOut, Lanes, Pushed

LEMMA OutOrderStep ==
  ASSUME IInv, PipeNext
  PROVE  OutOrder'
<1>. PipeTypeOK /\ PushedOut /\ OutOrder /\ step # "exit" /\ lanes' = lanes /\ Lanes' = Lanes
  BY LanesStay DEF IInv, Events, Queues, PipeNext, Running
<1>. SUFFICES ASSUME NEW k \in Lanes
              PROVE  /\ \A i \in 1..Len(outQueue'[k]) : Lane(outQueue'[k][i]) = k
                     /\ \A i, j \in 1..Len(outQueue'[k]) : i < j => outQueue'[k][i] < outQueue'[k][j]
                     /\ \A i \in 1..Len(outQueue'[k]) :
                          outQueue'[k][i] \in memcpy_out' => i = 1 /\ outThread'[k] = "pop"
  BY DEF OutOrder, Lane
<1>1. /\ outQueue[k] \in Seq(Secs) /\ Len(outQueue[k]) \in Nat /\ sec \in Int
      /\ \A i \in 1..Len(outQueue[k]) : outQueue[k][i] \in Secs /\ outQueue[k][i] \in Int
  BY SectionsAssumption DEF PipeTypeOK, Secs
<1>2. /\ \A i \in 1..Len(outQueue[k]) : Lane(outQueue[k][i]) = k
      /\ \A i, j \in 1..Len(outQueue[k]) : i < j => outQueue[k][i] < outQueue[k][j]
      /\ \A i \in 1..Len(outQueue[k]) :
           outQueue[k][i] \in memcpy_out => i = 1 /\ outThread[k] = "pop"
  BY DEF OutOrder
<1>3. CASE OutPushed(k)
  <2>1. /\ \A i \in 1..Len(outQueue[k]) : outQueue[k][i] < sec
        /\ sec \notin memcpy_out
    BY <1>1, <1>3 DEF PushedOut, Pushed, Before, OutPushed, PushOut
  <2>2. \A i \in 1..Len(outQueue'[k]) :
          \/ i \in 1..Len(outQueue[k]) /\ outQueue'[k][i] = outQueue[k][i]
          \/ i = Len(outQueue[k]) + 1 /\ outQueue'[k][i] = sec
    BY <1>1, <1>3 DEF OutPushed
  <2>3. Lane(sec) = k /\ memcpy_out' = memcpy_out /\ outThread' = outThread
    BY <1>3 DEF OutPushed
  <2>4. \A i \in 1..Len(outQueue'[k]) : Lane(outQueue'[k][i]) = k
    BY <1>2, <2>2, <2>3
  <2>5. ASSUME NEW i \in 1..Len(outQueue'[k]), NEW j \in 1..Len(outQueue'[k]), i < j
        PROVE  outQueue'[k][i] < outQueue'[k][j]
    <3>1. i \in 1..Len(outQueue[k]) /\ outQueue'[k][i] = outQueue[k][i]
      BY <1>1, <1>3, <2>2, <2>5 DEF OutPushed
    <3>2. CASE j \in 1..Len(outQueue[k]) /\ outQueue'[k][j] = outQueue[k][j]
      BY <1>2, <2>5, <3>1, <3>2
    <3>3. CASE outQueue'[k][j] = sec
      BY <2>1, <3>1, <3>3
    <3> QED BY <2>2, <3>2, <3>3
  <2>6. ASSUME NEW i \in 1..Len(outQueue'[k]), outQueue'[k][i] \in memcpy_out
        PROVE  i = 1 /\ outThread[k] = "pop"
    BY <1>2, <2>1, <2>2, <2>6
  <2> QED BY <2>3, <2>4, <2>5, <2>6
<1>4. CASE OutPopped(k)
  BY <1>1, <1>2, <1>4 DEF OutPopped
<1>5. CASE OutSame(k)
  <2>1. ASSUME NEW l \in Lanes, OutEvent(l), NEW i \in 1..Len(outQueue[k]),
               1 \in 1..Len(outQueue[l]), outQueue[l][1] = outQueue[k][i]
        PROVE  i = 1 /\ outThread'[k] = "pop"
    <3>1. l = k
      BY <1>2, <2>1 DEF OutOrder
    <3>2. outThread'[k] = "pop"
      BY <2>1, <3>1 DEF OutEvent, PipeTypeOK
    <3> QED BY <1>1, <1>2, <2>1, <3>1, <3>2
  <2>2. ASSUME NEW i \in 1..Len(outQueue[k]), outQueue[k][i] \in memcpy_out'
        PROVE  i = 1 /\ outThread'[k] = "pop"
    <3>1. CASE outQueue[k][i] \in memcpy_out
      BY <1>2, <1>5, <2>2, <3>1 DEF OutSame
    <3> QED BY <2>1, <2>2, <3>1, OutEventStep
  <2> QED BY <1>2, <1>5, <2>2 DEF OutSame
<1> QED BY <1>3, <1>4, <1>5, OutQueueStep

LEMMA OutBusyStep ==
  ASSUME IInv, PipeNext
  PROVE  OutBusy'
<1>. PipeTypeOK /\ OutBusy /\ lanes' = lanes /\ Lanes' = Lanes
  BY LanesStay DEF IInv, Queues
<1>. SUFFICES ASSUME NEW k \in Lanes
              PROVE  /\ outThread'[k] \in {"work", "event", "pop"} => outQueue'[k] # <<>>
                     /\ outThread'[k] \in {"work", "event"} => Done("d2h", outQueue[k][1])
                     /\ outThread'[k] \in {"work", "event"} => outQueue'[k][1] = outQueue[k][1]
  BY EventsStay DEF OutBusy, Done
<1>1. /\ outThread[k] \in {"work", "event", "pop"} => outQueue[k] # <<>>
      /\ outThread[k] \in {"work", "event"} => Done("d2h", outQueue[k][1])
  BY DEF OutBusy
<1>2. CASE UNCHANGED <<lanes, outside>>
  BY <1>1, <1>2 DEF outside
<1>3. CASE PushOut
  <2>1. outThread' = outThread
    BY <1>3 DEF PushOut
  <2>2. outQueue[k] # <<>> => outQueue'[k] # <<>> /\ outQueue'[k][1] = outQueue[k][1]
    <3>1. CASE OutPushed(k)
      BY <3>1, TailElements DEF OutPushed, PipeTypeOK
    <3>2. CASE OutSame(k)
      BY <3>2 DEF OutSame
    <3>3. CASE OutPopped(k)
      BY <2>1, <3>3 DEF OutPopped
    <3> QED BY <3>1, <3>2, <3>3, OutQueueStep
  <2> QED BY <1>1, <2>1, <2>2
<1>4. ASSUME NEW l \in Lanes, OutLoop(l) \/ OutWait(l) \/ OutDone(l), l # k
      PROVE  outThread'[k] = outThread[k] /\ outQueue'[k] = outQueue[k]
  BY <1>4 DEF OutLoop, OutEnd, OutEvent, OutPop, OutWait, OutDone, PipeTypeOK
<1>5. CASE OutLoop(k) \/ OutWait(k) \/ OutDone(k)
  <2>1. outQueue[k] # <<>> => Head(outQueue[k]) = outQueue[k][1]
    BY TailElements DEF PipeTypeOK
  <2>2. CASE OutWait(k)
    BY <2>1, <2>2 DEF OutWait, section, PipeTypeOK
  <2>3. CASE OutDone(k)
    BY <1>1, <2>3 DEF OutDone, PipeTypeOK
  <2>4. CASE OutEnd(k)
    BY <2>4 DEF OutEnd, PipeTypeOK
  <2>5. CASE OutEvent(k)
    BY <1>1, <2>5 DEF OutEvent, PipeTypeOK
  <2>6. CASE OutPop(k)
    BY <2>6 DEF OutPop, AfterPop, PipeTypeOK
  <2> QED BY <1>5, <2>2, <2>3, <2>4, <2>5, <2>6 DEF OutLoop
<1> QED BY <1>1, <1>2, <1>3, <1>4, <1>5, OutSteps

-----------------------------------------------------------------------------
(* The buffers *)

(* A buffer is written for section t only when those before it that use the   *)
(* buffer are done with it, and no later one has begun.                       *)
LEMMA HostInStep ==
  ASSUME IInv, PipeNext
  PROVE  HostInKept'
<1>. PipeTypeOK /\ HostInKept /\ InBusy /\ InOrder
  BY DEF IInv, Queues, Buffers
<1>. SUFFICES ASSUME NEW s \in Secs, s \in memcpy_in', ~Done("h2d", s)
              PROVE  host_in'[kid(s)] = s
  BY EventsStay DEF HostInKept, Done, kid
<1>1. CASE UNCHANGED <<lanes, inside, host_in>> \/ PushIn
  BY <1>1 DEF inside, PushIn, buffers, HostInKept
<1>2. ASSUME NEW k \in Lanes, InEnd(k) \/ InPop(k)
      PROVE  host_in'[kid(s)] = s
  BY <1>2 DEF InEnd, InPop, buffers, HostInKept
<1>3. ASSUME NEW k \in Lanes, InEvent(k)
      PROVE  host_in'[kid(s)] = s
  <2>1. inQueue[k] # <<>> /\ inQueue[k] \in Seq(Secs) /\ host_in[kid(inQueue[k][1])] = inQueue[k][1]
    BY <1>3 DEF InEvent, InBusy, PipeTypeOK
  <2>2. s \in memcpy_in \/ s = inQueue[k][1]
    BY <1>3, <2>1, TailElements DEF InEvent
  <2> QED BY <1>3, <2>1, <2>2 DEF InEvent, buffers, HostInKept
<1>4. ASSUME NEW k \in Lanes, InWait(k) \/ InCopy(k)
      PROVE  host_in'[kid(s)] = s
  <2>1. /\ inQueue[k] # <<>> /\ inQueue[k] \in Seq(Secs)
        /\ s \in memcpy_in /\ inThread[k] # "pop"
    BY <1>4 DEF InWait, InCopy, InBusy, PipeTypeOK
  <2>2. /\ Head(inQueue[k]) = inQueue[k][1] /\ inQueue[k][1] \in Secs /\ 1 \in 1..Len(inQueue[k])
        /\ MayOverwrite(inQueue[k][1])
    BY <1>4, <2>1, TailElements DEF InWait, InCopy, InBusy
  <2> DEFINE t == inQueue[k][1]
  <2>3. CASE kid(t) # kid(s)
    BY <1>4, <2>1, <2>2, <2>3, KidType DEF InWait, InCopy, PipeTypeOK, HostInKept
  <2>4. CASE kid(t) = kid(s)
    <3>1. Lane(s) = k
      BY <2>2, <2>4, SameLane DEF InOrder, PipeTypeOK
    <3>2. s < t
      BY <2>1, <2>2, <3>1 DEF InOrder
    <3>3. s \in Earlier(t)
      BY <2>4, <3>2 DEF Earlier
    <3>4. t > 1 /\ t - 2 \in Secs /\ (s = t - 2 \/ s \in Earlier(t - 2))
      BY <2>2, <3>3, TwoBefore
    <3>5. Done("h2d", t - 2)
      BY <2>2, <3>4 DEF MayOverwrite
    <3>6. s \in Earlier(t - 2) => Done("krn", s)
      BY <3>4, <3>5 DEF IInv, Waited, WaitedH2d, Started
    <3>7. Done("krn", s) => Done("h2d", s)
      BY DEF IInv, Waited, WaitedKrn, Started
    <3> QED BY <3>4, <3>5, <3>6, <3>7
  <2> QED BY <2>3, <2>4
<1> QED BY <1>1, <1>2, <1>3, <1>4, InSteps DEF InThread

(* What changes the events of the commands and the other three buffers. *)
LEMMA DeviceSteps ==
  ASSUME PipeNext
  PROVE  \/ UNCHANGED <<complete, dev_in, dev_out, host_out>>
         \/ \E t \in Secs : Transfer(t) \/ Kernel(t) \/ TransferBack(t) \/ \E c \in Commands : Start(c, t)
<1>1. CASE MainThread
  BY <1>1 DEF MainThread, PushIn, Enqueue, PushOut, WaitForEvents, StopThreads, JoinThreads,
              commands, buffers
<1>2. ASSUME NEW k \in Lanes, InThread(k)
      PROVE  UNCHANGED <<complete, dev_in, dev_out, host_out>>
  BY <1>2 DEF InThread, InEnd, InWait, InCopy, InEvent, InPop, commands, buffers
<1>3. ASSUME NEW k \in Lanes, OutLoop(k) \/ OutWait(k) \/ OutDone(k) \/ OutExit(k)
      PROVE  UNCHANGED <<complete, dev_in, dev_out, host_out>>
  BY <1>3 DEF OutLoop, OutEnd, OutEvent, OutPop, OutWait, OutDone, OutExit, commands, buffers
<1> QED BY <1>1, <1>2, <1>3 DEF PipeNext

(* No two sections that share buffers are at the same command, and a command  *)
(* that writes finds the earlier section done with the buffer.                *)
LEMMA Exclusive ==
  ASSUME IInv, PipeNext, NEW s \in Secs, NEW t \in Secs, kid(s) = kid(t), s # t
  PROVE  /\ Started("h2d", t) /\ Done("h2d", s) /\ ~Done("h2d", t) => Done("krn", s)
         /\ Started("krn", t) /\ Done("krn", s) /\ ~Done("krn", t) => Done("d2h", s)
         /\ Started("d2h", t) /\ Done("d2h", s) /\ ~Done("d2h", t) => s \in memcpy_out
<1>. WaitedH2d /\ WaitedKrn /\ WaitedD2h /\ WaitedOut
  BY DEF IInv, Waited
<1>1. CASE s \in Earlier(t)
  BY <1>1 DEF WaitedH2d, WaitedKrn, WaitedD2h
<1>2. CASE t \in Earlier(s)
  <2>1. Done("h2d", s) => Done("h2d", t)
    BY <1>2 DEF WaitedH2d, WaitedKrn, Started
  <2>2. Done("krn", s) => Done("krn", t)
    BY <1>2 DEF WaitedKrn, Started, Earlier
  <2>3. Done("d2h", s) => Done("d2h", t)
    BY <1>2 DEF WaitedD2h, WaitedOut, Started
  <2> QED BY <2>1, <2>2, <2>3
<1> QED BY <1>1, <1>2, Sharing

(* The same where t is about to be started. *)
LEMMA ExclusiveStart ==
  ASSUME IInv, PipeNext, NEW s \in Secs, NEW t \in Secs, kid(s) = kid(t), NEW c \in Commands, Start(c, t)
  PROVE  /\ c = "h2d" /\ Done("h2d", s) => Done("krn", s)
         /\ c = "krn" /\ Done("krn", s) => Done("d2h", s)
         /\ c = "d2h" /\ Done("d2h", s) => s \in memcpy_out
<1>1. ~Started(c, t)
  BY DEF Start, IInv, Events, Once, Queued
<1>2. CASE s = t
  BY <1>1, <1>2 DEF Started
<1>3. CASE s \in Earlier(t)
  <2>1. Started(c, t)' /\ UNCHANGED <<complete, memcpy_out>>
    BY DEF Start, Started, Executing, outside
  <2> QED BY <1>3, <2>1, WaitedH2dStep, WaitedKrnStep, WaitedD2hStep
          DEF WaitedH2d, WaitedKrn, WaitedD2h, Done
<1>4. CASE t \in Earlier(s)
  <2>1. Done("h2d", s) => Done("h2d", t)
    BY <1>4 DEF IInv, Waited, WaitedH2d, WaitedKrn, Started
  <2>2. Done("krn", s) => Done("krn", t)
    BY <1>4 DEF IInv, Waited, WaitedKrn, Started, Earlier
  <2>3. Done("d2h", s) => Done("d2h", t)
    BY <1>4 DEF IInv, Waited, WaitedD2h, WaitedOut, Started
  <2> QED BY <1>1, <2>1, <2>2, <2>3 DEF Started
<1> QED BY <1>2, <1>3, <1>4, Sharing

LEMMA DevInStep ==
  ASSUME IInv, PipeNext
  PROVE  DevInKept'
<1>. PipeTypeOK /\ DevInKept
  BY DEF IInv, Buffers
<1>. SUFFICES ASSUME NEW s \in Secs, Done("h2d", s)', ~Done("krn", s), ~Done("krn", s)'
              PROVE  dev_in'[kid(s)] = s
  BY EventsStay DEF DevInKept, Done, kid
<1>. kid(s) \in {0, 1}
  BY KidType
<1>1. CASE UNCHANGED <<complete, dev_in, dev_out, host_out>>
  BY <1>1 DEF DevInKept, Done
<1>2. ASSUME NEW t \in Secs, NEW c \in Commands, Start(c, t)
      PROVE  dev_in'[kid(s)] = s
  <2>1. Done("h2d", s) /\ dev_in[kid(s)] = s
    BY <1>2 DEF Start, Done, DevInKept
  <2>2. c = "h2d" => kid(t) # kid(s)
    BY <1>2, <2>1, ExclusiveStart
  <2> QED BY <1>2, <2>1, <2>2, KidType DEF Start, PipeTypeOK
<1>3. ASSUME NEW t \in Secs, Kernel(t) \/ TransferBack(t)
      PROVE  dev_in'[kid(s)] = s
  BY <1>3 DEF Kernel, TransferBack, Finish, Done, DevInKept
<1>4. ASSUME NEW t \in Secs, Transfer(t)
      PROVE  dev_in'[kid(s)] = s
  <2>1. Started("h2d", t) /\ ~Done("h2d", t) /\ t \in memcpy_in
    BY <1>4 DEF Transfer, Finish, Started, Executing, IInv, Events, Once, Waited, WaitedH2d, Commands
  <2>2. CASE t = s
    BY <1>4, <2>1, <2>2 DEF Transfer, IInv, Buffers, HostInKept, PipeTypeOK
  <2>3. CASE t # s
    <3>1. Done("h2d", s) /\ dev_in[kid(s)] = s
      BY <1>4, <2>3 DEF Transfer, Finish, Done, DevInKept
    <3>2. kid(t) # kid(s)
      BY <2>1, <2>3, <3>1, Exclusive
    <3> QED BY <1>4, <3>1, <3>2, KidType DEF Transfer, PipeTypeOK
  <2> QED BY <2>2, <2>3
<1> QED BY <1>1, <1>2, <1>3, <1>4, DeviceSteps

LEMMA DevOutStep ==
  ASSUME IInv, PipeNext
  PROVE  DevOutKept'
<1>. PipeTypeOK /\ DevOutKept
  BY DEF IInv, Buffers
<1>. SUFFICES ASSUME NEW s \in Secs, Done("krn", s)', ~Done("d2h", s), ~Done("d2h", s)'
              PROVE  dev_out'[kid(s)] = s
  BY EventsStay DEF DevOutKept, Done, kid
<1>. kid(s) \in {0, 1}
  BY KidType
<1>1. CASE UNCHANGED <<complete, dev_in, dev_out, host_out>>
  BY <1>1 DEF DevOutKept, Done
<1>2. ASSUME NEW t \in Secs, NEW c \in Commands, Start(c, t)
      PROVE  dev_out'[kid(s)] = s
  <2>1. Done("krn", s) /\ dev_out[kid(s)] = s
    BY <1>2 DEF Start, Done, DevOutKept
  <2>2. c = "krn" => kid(t) # kid(s)
    BY <1>2, <2>1, ExclusiveStart
  <2> QED BY <1>2, <2>1, <2>2, KidType DEF Start, PipeTypeOK
<1>3. ASSUME NEW t \in Secs, Transfer(t) \/ TransferBack(t)
      PROVE  dev_out'[kid(s)] = s
  BY <1>3 DEF Transfer, TransferBack, Finish, Done, DevOutKept
<1>4. ASSUME NEW t \in Secs, Kernel(t)
      PROVE  dev_out'[kid(s)] = s
  <2>1. Started("krn", t) /\ ~Done("krn", t) /\ Done("h2d", t)
    BY <1>4 DEF Kernel, Finish, Started, Executing, IInv, Events, Once, Waited, WaitedKrn, Commands
  <2>2. CASE t = s
    BY <1>4, <2>1, <2>2 DEF Kernel, IInv, Buffers, DevInKept, PipeTypeOK
  <2>3. CASE t # s
    <3>1. Done("krn", s) /\ dev_out[kid(s)] = s
      BY <1>4, <2>3 DEF Kernel, Finish, Done, DevOutKept
    <3>2. kid(t) # kid(s)
      BY <2>1, <2>3, <3>1, Exclusive
    <3> QED BY <1>4, <3>1, <3>2, KidType DEF Kernel, PipeTypeOK
  <2> QED BY <2>2, <2>3
<1> QED BY <1>1, <1>2, <1>3, <1>4, DeviceSteps

LEMMA HostOutStep ==
  ASSUME IInv, PipeNext
  PROVE  HostOutKept'
<1>. PipeTypeOK /\ HostOutKept
  BY DEF IInv, Buffers
<1>. SUFFICES ASSUME NEW s \in Secs, Done("d2h", s)', s \notin memcpy_out
              PROVE  host_out'[kid(s)] = s
  BY EventsStay DEF HostOutKept, Done, kid
<1>. kid(s) \in {0, 1}
  BY KidType
<1>1. CASE UNCHANGED <<complete, dev_in, dev_out, host_out>>
  BY <1>1 DEF HostOutKept, Done
<1>2. ASSUME NEW t \in Secs, NEW c \in Commands, Start(c, t)
      PROVE  host_out'[kid(s)] = s
  <2>1. Done("d2h", s) /\ host_out[kid(s)] = s
    BY <1>2 DEF Start, Done, HostOutKept
  <2>2. c = "d2h" => kid(t) # kid(s)
    BY <1>2, <2>1, ExclusiveStart
  <2> QED BY <1>2, <2>1, <2>2, KidType DEF Start, PipeTypeOK
<1>3. ASSUME NEW t \in Secs, Transfer(t) \/ Kernel(t)
      PROVE  host_out'[kid(s)] = s
  BY <1>3 DEF Transfer, Kernel, Finish, Done, HostOutKept
<1>4. ASSUME NEW t \in Secs, TransferBack(t)
      PROVE  host_out'[kid(s)] = s
  <2>1. Started("d2h", t) /\ ~Done("d2h", t) /\ Done("krn", t)
    BY <1>4 DEF TransferBack, Finish, Started, Executing, IInv, Events, Once, Waited, WaitedD2h, Commands
  <2>2. CASE t = s
    BY <1>4, <2>1, <2>2 DEF TransferBack, IInv, Buffers, DevOutKept, PipeTypeOK
  <2>3. CASE t # s
    <3>1. Done("d2h", s) /\ host_out[kid(s)] = s
      BY <1>4, <2>3 DEF TransferBack, Finish, Done, HostOutKept
    <3>2. kid(t) # kid(s)
      BY <2>1, <2>3, <3>1, Exclusive
    <3> QED BY <1>4, <3>1, <3>2, KidType DEF TransferBack, PipeTypeOK
  <2> QED BY <2>2, <2>3
<1> QED BY <1>1, <1>2, <1>3, <1>4, DeviceSteps

-----------------------------------------------------------------------------
(* The end *)

(* The last two copies tell of all of them. *)
LEMMA LastCopiesTell ==
  ASSUME IInv, LastCopies \subseteq memcpy_out
  PROVE  memcpy_out = Secs
<1>1. ASSUME NEW s \in Secs, NEW t \in memcpy_out, t \in Secs, kid(s) = kid(t), s < t
      PROVE  s \in memcpy_out
  BY <1>1 DEF IInv, Waited, WaitedOut, WaitedD2h, Started, Earlier
<1>2. ASSUME NEW s \in Secs
      PROVE  s \in memcpy_out
  <2>1. s \in Nat /\ Sections \in Nat /\ s < Sections
    BY SectionsAssumption DEF Secs
  <2>2. CASE s \in {Sections - 1, Sections - 2}
    BY <1>2, <2>2 DEF LastCopies
  <2>3. CASE s < Sections - 2
    <3>1. {Sections - 1, Sections - 2} \subseteq Secs /\ {Sections - 1, Sections - 2} \subseteq memcpy_out
      BY <2>1, <2>3 DEF Secs, LastCopies
    <3>2. kid(s) = kid(Sections - 1) \/ kid(s) = kid(Sections - 2)
      BY <2>1, <2>3 DEF kid
    <3> QED BY <1>1, <2>1, <2>3, <3>1, <3>2
  <2> QED BY <2>1, <2>2, <2>3
<1> QED BY <1>2 DEF IInv, PipeTypeOK

(* When all results have been taken out, everything before that is over too.  *)
LEMMA AllOver ==
  ASSUME IInv, memcpy_out = Secs
  PROVE  /\ memcpy_in = Secs
         /\ \A c \in Commands, s \in Secs : Done(c, s)
         /\ \A k \in Lanes : inThread[k] \in {"idle", "end"} => inQueue[k] = <<>>
         /\ \A k \in Lanes : outThread[k] \in {"idle", "end"} => outQueue[k] = <<>>
<1>. PipeTypeOK /\ InOrder /\ OutOrder
  BY DEF IInv, Queues
<1>1. \A s \in Secs : Done("d2h", s) /\ Done("krn", s) /\ Done("h2d", s) /\ s \in memcpy_in
  BY DEF IInv, Waited, WaitedOut, WaitedD2h, WaitedKrn, WaitedH2d, Started
<1>2. memcpy_in = Secs
  BY <1>1 DEF PipeTypeOK
<1>3. ASSUME NEW k \in Lanes, inThread[k] \in {"idle", "end"}, inQueue[k] # <<>>
      PROVE  FALSE
  <2>1. inQueue[k][1] \in Secs /\ 1 \in 1..Len(inQueue[k])
    BY <1>3, TailElements DEF PipeTypeOK
  <2>2. Lane(inQueue[k][1]) = k /\ inQueue[k][1] \in memcpy_in /\ ~(inQueue[k][1] < inQueue[k][1])
    BY <1>2, <2>1, SectionsAssumption DEF InOrder, Secs
  <2> QED BY <1>3, <2>1, <2>2 DEF InOrder
<1>4. ASSUME NEW k \in Lanes, outThread[k] \in {"idle", "end"}, outQueue[k] # <<>>
      PROVE  FALSE
  <2>1. outQueue[k][1] \in Secs /\ 1 \in 1..Len(outQueue[k])
    BY <1>4, TailElements DEF PipeTypeOK
  <2> QED BY <1>4, <2>1 DEF OutOrder
<1> QED BY <1>1, <1>2, <1>3, <1>4 DEF Commands

LEMMA OverStep ==
  ASSUME IInv, PipeNext
  PROVE  Over'
<1>. PipeTypeOK /\ PipeTypeOK' /\ Over /\ step \notin {"done", "exit"} /\ Lanes' = Lanes
  BY TypeStep, LanesStay DEF IInv, PipeNext, Running
<1>. ~run => step = "join"
  BY DEF Over
<1>1. ~run => memcpy_out = Secs /\ \A k \in Lanes :
                /\ inThread[k] \in {"idle", "end"} => inQueue[k] = <<>>
                /\ outThread[k] \in {"idle", "end"} => outQueue[k] = <<>>
  BY AllOver DEF Over
<1>2. memcpy_out = Secs => memcpy_out' = Secs
  BY EventsStay DEF PipeTypeOK
<1>3. CASE MainThread
  <2>1. UNCHANGED <<inThread, outThread>>
    BY <1>3 DEF MainThread, PushIn, Enqueue, PushOut, WaitForEvents, StopThreads, JoinThreads, inside, outside
  <2>2. step' \in {"stop", "join", "done"} => memcpy_out' = Secs
    BY <1>2, <1>3, LastCopiesTell DEF MainThread, PushIn, Enqueue, AfterCommand, Commands, PushOut,
       WaitForEvents, StopThreads, JoinThreads, Over
  <2>3. ~run' => step' \in {"join", "done", "exit"}
    BY <1>3 DEF MainThread, PushIn, Enqueue, AfterCommand, Commands, PushOut,
       WaitForEvents, StopThreads, JoinThreads
  <2>4. ~run => ~run' /\ UNCHANGED <<inQueue, outQueue>>
    BY <1>3 DEF MainThread, PushIn, Enqueue, Commands, PushOut,
       WaitForEvents, StopThreads, JoinThreads, inside, outside
  <2>5. step' = "done" => \A k \in Lanes : inThread[k] = "end" /\ outThread[k] = "end"
    BY <1>3 DEF MainThread, PushIn, Enqueue, AfterCommand, Commands, PushOut,
       WaitForEvents, StopThreads, JoinThreads
  <2> QED BY <2>1, <2>2, <2>3, <2>4, <2>5 DEF Over
<1>4. ASSUME NEW k \in Lanes, InThread(k)
      PROVE  Over'
  <2>1. UNCHANGED <<main, outside>>
    BY <1>4 DEF InThread, InEnd, InWait, InCopy, InEvent, InPop
  <2>2. ASSUME NEW l \in Lanes, inThread'[l] = "end"
        PROVE  ~run /\ inQueue'[l] = <<>>
    <3>1. CASE InEnd(k)
      BY <1>1, <2>2, <3>1 DEF InEnd, Over, PipeTypeOK
    <3>2. CASE InWait(k) \/ InCopy(k) \/ InEvent(k)
      BY <2>2, <3>2 DEF InWait, InCopy, InEvent, Over, PipeTypeOK
    <3>3. CASE InPop(k)
      BY <2>2, <3>3 DEF InPop, AfterPop, Over, PipeTypeOK
    <3> QED BY <1>4, <3>1, <3>2, <3>3 DEF InThread
  <2> QED BY <2>1, <2>2 DEF main, outside, Over
<1>5. ASSUME NEW k \in Lanes, OutLoop(k) \/ OutWait(k) \/ OutDone(k) \/ OutExit(k)
      PROVE  Over'
  <2>1. UNCHANGED <<inThread, inQueue, run>> /\ (step' = step \/ step' = "exit")
    BY <1>5 DEF OutLoop, OutEnd, OutEvent, OutPop, OutWait, OutDone, OutExit, main, inside
  <2>2. ASSUME NEW l \in Lanes, outThread'[l] = "end"
        PROVE  ~run /\ outQueue'[l] = <<>>
    <3>1. CASE OutEnd(k)
      BY <1>1, <2>2, <3>1 DEF OutEnd, Over, PipeTypeOK
    <3>2. CASE OutWait(k) \/ OutDone(k) \/ OutExit(k) \/ OutEvent(k)
      BY <2>2, <3>2 DEF OutWait, OutDone, OutExit, OutEvent, outside, Over, PipeTypeOK
    <3>3. CASE OutPop(k)
      BY <2>2, <3>3 DEF OutPop, AfterPop, Over, PipeTypeOK
    <3> QED BY <1>5, <3>1, <3>2, <3>3 DEF OutLoop
  <2> QED BY <1>2, <2>1, <2>2 DEF Over
<1>6. ASSUME NEW s \in Secs,
             Transfer(s) \/ Kernel(s) \/ TransferBack(s) \/ \E c \in Commands : Start(c, s)
      PROVE  Over'
  <2>1. UNCHANGED <<main, inside, outside>>
    BY <1>6 DEF Transfer, Kernel, TransferBack, Finish, Start
  <2> QED BY <2>1 DEF main, inside, outside, Over
<1> QED BY <1>3, <1>4, <1>5, <1>6 DEF PipeNext

-----------------------------------------------------------------------------
(* The theorems *)

LEMMA Initially ==
  ASSUME PipeInit
  PROVE  IInv
<1>. PipeTypeOK
  BY SectionsAssumption DEF PipeInit, PipeTypeOK, Secs, Lanes, Commands
<1>1. Events
  BY DEF PipeInit, Events, PushedIn, PushedCommands, PushedOut, Once, Queued, Started, Executing, Done, Lanes
<1>2. Waited
  BY DEF PipeInit, Waited, WaitedH2d, WaitedKrn, WaitedD2h, WaitedOut, Started, Executing, Done
<1>3. Queues
  BY DEF PipeInit, Queues, InOrder, InBusy, OutOrder, OutBusy, Lanes
<1>4. Buffers
  BY DEF PipeInit, Buffers, HostInKept, DevInKept, DevOutKept, HostOutKept, Done
<1>5. Over
  BY DEF PipeInit, Over, Lanes
<1> QED BY <1>1, <1>2, <1>3, <1>4, <1>5 DEF IInv

LEMMA Stuttering ==
  ASSUME IInv, UNCHANGED pipe
  PROVE  IInv'
<1>. UNCHANGED <<lanes, sec, step, run, inQueue, outQueue, inThread, outThread, memcpy_in, memcpy_out,
                 queued, running, complete, host_in, host_out, dev_in, dev_out>>
  BY DEF pipe, main, inside, outside, commands, buffers
<1>1. PipeTypeOK'
  BY DEF IInv, PipeTypeOK, Lanes
<1>2. Events'
  BY DEF IInv, Events, PushedIn, PushedCommands, PushedOut, Once, Pushed, Queued, Started, Executing, Done, Lanes
<1>3. Waited'
  BY DEF IInv, Waited, WaitedH2d, WaitedKrn, WaitedD2h, WaitedOut, Started, Executing, Done
<1>4. Queues'
  BY DEF IInv, Queues, InOrder, InBusy, OutOrder, OutBusy, Lanes, Lane, MayOverwrite, Done
<1>5. Buffers'
  BY DEF IInv, Buffers, HostInKept, DevInKept, DevOutKept, HostOutKept, Done
<1>6. Over'
  BY DEF IInv, Over, Lanes
<1> QED BY <1>1, <1>2, <1>3, <1>4, <1>5, <1>6 DEF IInv

LEMMA Inductive ==
  ASSUME IInv, [PipeNext]_pipe
  PROVE  IInv'
<1>1. CASE PipeNext
  <2>1. Events'
    BY <1>1, PushedInStep, PushedCommandsStep, PushedOutStep, OnceStep DEF Events
  <2>2. Waited'
    BY <1>1, WaitedH2dStep, WaitedKrnStep, WaitedD2hStep, WaitedOutStep DEF Waited
  <2>3. Queues'
    BY <1>1, InOrderStep, InBusyStep, OutOrderStep, OutBusyStep DEF Queues
  <2>4. Buffers'
    BY <1>1, HostInStep, DevInStep, DevOutStep, HostOutStep DEF Buffers
  <2> QED BY <1>1, <2>1, <2>2, <2>3, <2>4, TypeStep, OverStep DEF IInv
<1>2. CASE UNCHANGED pipe
  BY <1>2, Stuttering
<1> QED BY <1>1, <1>2

(* What runs has started and is not over, so that its source is still kept.   *)
LEMMA IInvBuffersKept ==
  ASSUME IInv
  PROVE  BuffersKept
<1>1. ASSUME NEW s \in Secs, <<"krn", s>> \in running
      PROVE  dev_in[kid(s)] = s
  BY <1>1 DEF IInv, Events, Once, Executing, Commands, Waited, WaitedKrn, Started, Buffers, DevInKept
<1>2. ASSUME NEW s \in Secs, <<"d2h", s>> \in running
      PROVE  dev_out[kid(s)] = s
  BY <1>2 DEF IInv, Events, Once, Executing, Commands, Waited, WaitedD2h, Started, Buffers, DevOutKept
<1> QED BY <1>1, <1>2 DEF IInv, Buffers, HostInKept, HostOutKept, BuffersKept

LEMMA IInvNoWorkLeft ==
  ASSUME IInv
  PROVE  NoWorkLeft
<1>. SUFFICES ASSUME step = "done"
              PROVE  /\ \A k \in Lanes : inQueue[k] = <<>> /\ outQueue[k] = <<>>
                     /\ memcpy_in = Secs /\ memcpy_out = Secs
                     /\ \A c \in Commands, s \in Secs : Done(c, s)
  BY DEF NoWorkLeft
<1>1. memcpy_out = Secs /\ \A k \in Lanes : inThread[k] = "end" /\ outThread[k] = "end"
  BY DEF IInv, Over
<1> QED BY <1>1, AllOver

LEMMA PipeInvariant == PipeSpec => []IInv
<1>1. PipeInit => IInv
  BY Initially
<1>2. IInv /\ [PipeNext]_pipe => IInv'
  BY Inductive
<1> QED BY <1>1, <1>2, PTL DEF PipeSpec

(* With any number of sections, in one lane or in two, the events keep each   *)
(* buffer of the pipeline of gqe_join.cpp and gqe_aggr.cpp until its reader    *)
(* is done with it.                                                          *)
THEOREM PipeKeepsBuffers == PipeSpec => []BuffersKept
<1>1. IInv => BuffersKept
  BY IInvBuffersKept
<1> QED BY <1>1, PipeInvariant, PTL

(* When the main thread goes on, all queues are empty and all commands over,  *)
(* though it has waited for two events only.                                  *)
THEOREM PipeLeavesNoWork == PipeSpec => []NoWorkLeft
<1>1. IInv => NoWorkLeft
  BY IInvNoWorkLeft
<1> QED BY <1>1, PipeInvariant, PTL

-----------------------------------------------------------------------------
(* For the modules that say what the threads make of a result *)

(* The sections whose results a thread has taken over, event or not. *)
TakenOver ==
  {s \in Secs : \/ s \in memcpy_out
                \/ \E k \in Lanes : outThread[k] = "event" /\ outQueue[k][1] = s}

(* A thread that takes a result over has before it, in full, that of the next  *)
(* section of its lane, which nobody has taken over.                          *)
LEMMA AtWork ==
  ASSUME IInv, NEW k \in Lanes, outThread[k] = "work"
  PROVE  /\ section(k) = outQueue[k][1] /\ section(k) \in Secs /\ Lane(section(k)) = k
         /\ section(k) \notin memcpy_out /\ section(k) \notin TakenOver
         /\ Done("d2h", section(k)) /\ Done("krn", section(k))
         /\ kid(section(k)) \in {0, 1} /\ host_out[kid(section(k))] = section(k)
<1>. PipeTypeOK /\ OutOrder /\ OutBusy
  BY DEF IInv, Queues
<1>1. outQueue[k] # <<>> /\ outQueue[k] \in Seq(Secs) /\ Done("d2h", outQueue[k][1])
  BY DEF OutBusy, PipeTypeOK
<1>2. section(k) = outQueue[k][1] /\ section(k) \in Secs /\ 1 \in 1..Len(outQueue[k])
  BY <1>1, TailElements DEF section
<1>3. Lane(section(k)) = k /\ section(k) \notin memcpy_out
  BY <1>2 DEF OutOrder
<1>4. ASSUME NEW l \in Lanes, outThread[l] = "event", outQueue[l][1] = section(k)
      PROVE  FALSE
  <2>1. outQueue[l] # <<>> /\ outQueue[l] \in Seq(Secs)
    BY <1>4 DEF OutBusy, PipeTypeOK
  <2>2. Lane(outQueue[l][1]) = l
    BY <2>1, TailElements DEF OutOrder
  <2> QED BY <1>3, <1>4, <2>2
<1>5. Done("krn", section(k))
  BY <1>1, <1>2 DEF IInv, Waited, WaitedD2h, Started
<1>6. kid(section(k)) \in {0, 1} /\ host_out[kid(section(k))] = section(k)
  BY <1>1, <1>2, <1>3, KidType DEF IInv, Buffers, HostOutKept
<1> QED BY <1>1, <1>2, <1>3, <1>4, <1>5, <1>6 DEF TakenOver

(* What is before a thread stays there until it has been taken out. *)
LEMMA FrontStays ==
  ASSUME IInv, PipeNext, NEW k \in Lanes, outThread[k] \in {"work", "event"}
  PROVE  /\ outQueue[k] # <<>> /\ outQueue'[k] # <<>> /\ outQueue'[k][1] = outQueue[k][1]
         /\ section(k)' = section(k)
<1>. PipeTypeOK /\ PipeTypeOK' /\ OutBusy /\ Lanes' = Lanes
  BY TypeStep, LanesStay DEF IInv, Queues
<1>1. outQueue[k] # <<>> /\ outQueue[k] \in Seq(Secs) /\ outQueue'[k] \in Seq(Secs)
  BY DEF OutBusy, PipeTypeOK
<1>2. outQueue'[k] # <<>> /\ outQueue'[k][1] = outQueue[k][1]
  <2>1. CASE OutPushed(k)
    BY <1>1, <2>1, TailElements DEF OutPushed
  <2>2. CASE OutSame(k)
    BY <1>1, <2>2 DEF OutSame
  <2>3. CASE OutPopped(k)
    BY <2>3 DEF OutPopped
  <2> QED BY <2>1, <2>2, <2>3, OutQueueStep
<1> QED BY <1>1, <1>2, TailElements DEF section

(* Only a thread that ends its work takes a result over. *)
LEMMA NothingTaken ==
  ASSUME IInv, Running,
         \/ MainThread
         \/ \E k \in Lanes : InThread(k) \/ OutLoop(k) \/ OutWait(k) \/ OutExit(k)
         \/ \E s \in Secs : \/ Transfer(s) \/ Kernel(s) \/ TransferBack(s)
                            \/ \E c \in Commands : Start(c, s)
  PROVE  TakenOver' = TakenOver
<1>1. PipeNext
  BY DEF PipeNext
<1>. PipeTypeOK /\ OutBusy /\ Lanes' = Lanes
  BY <1>1, LanesStay DEF IInv, Queues
<1>2. CASE UNCHANGED outside
  BY <1>2 DEF outside, TakenOver
<1>3. CASE PushOut
  BY <1>1, <1>3, FrontStays DEF PushOut, TakenOver
<1>4. ASSUME NEW k \in Lanes, OutEnd(k) \/ OutWait(k)
      PROVE  TakenOver' = TakenOver
  BY <1>4 DEF OutEnd, OutWait, TakenOver, PipeTypeOK
<1>5. ASSUME NEW k \in Lanes, OutPop(k)
      PROVE  TakenOver' = TakenOver
  <2>1. \A l \in Lanes : /\ l # k => outThread'[l] = outThread[l] /\ outQueue'[l] = outQueue[l]
                         /\ outThread[k] # "event" /\ outThread'[k] # "event"
    BY <1>5 DEF OutPop, AfterPop, PipeTypeOK
  <2>2. memcpy_out' = memcpy_out
    BY <1>5 DEF OutPop
  <2> QED BY <2>1, <2>2 DEF TakenOver
<1>6. ASSUME NEW k \in Lanes, OutEvent(k)
      PROVE  TakenOver' = TakenOver
  <2>1. outThread[k] = "event" /\ outQueue[k] # <<>> /\ outQueue[k] \in Seq(Secs)
    BY <1>6 DEF OutEvent, OutBusy, PipeTypeOK
  <2>2. memcpy_out' = memcpy_out \cup {outQueue[k][1]} /\ outQueue' = outQueue
    BY <1>6, <2>1, TailElements DEF OutEvent, section
  <2>3. \A l \in Lanes : outThread'[l] = IF l = k THEN "pop" ELSE outThread[l]
    BY <1>6 DEF OutEvent, PipeTypeOK
  <2> QED BY <2>1, <2>2, <2>3 DEF TakenOver
<1>7. ASSUME NEW k \in Lanes, InThread(k) \/ OutExit(k)
      PROVE  UNCHANGED outside
  BY <1>7 DEF InThread, InEnd, InWait, InCopy, InEvent, InPop, OutExit
<1>8. ASSUME MainThread
      PROVE  PushOut \/ UNCHANGED outside
  BY <1>8 DEF MainThread, PushIn, Enqueue, WaitForEvents, StopThreads, JoinThreads
<1>9. ASSUME NEW s \in Secs,
             Transfer(s) \/ Kernel(s) \/ TransferBack(s) \/ \E c \in Commands : Start(c, s)
      PROVE  UNCHANGED outside
  BY <1>9 DEF Transfer, Kernel, TransferBack, Finish, Start
<1> QED BY <1>2, <1>3, <1>4, <1>5, <1>6, <1>7, <1>8, <1>9 DEF OutLoop

(* Steps that neither make a result nor begin or end to take one over. *)
BesideResults ==
  /\ Running
  /\ \/ MainThread
     \/ \E k \in Lanes : InThread(k) \/ OutLoop(k) \/ OutExit(k)
     \/ \E s \in Secs : \/ Transfer(s) \/ TransferBack(s)
                        \/ \E c \in Commands : Start(c, s)

LEMMA BesideFacts ==
  ASSUME IInv, BesideResults
  PROVE  /\ PipeNext /\ TakenOver' = TakenOver /\ Lanes' = Lanes /\ lanes' = lanes
         /\ \A s \in Secs : Done("krn", s)' => Done("krn", s)
         /\ \A k \in Lanes : outThread'[k] = "work" <=> outThread[k] = "work"
         /\ \A k \in Lanes : outThread[k] = "work" => section(k)' = section(k)
<1>1. PipeNext
  BY DEF BesideResults, PipeNext
<1>. PipeTypeOK
  BY DEF IInv
<1>2. TakenOver' = TakenOver
  BY NothingTaken DEF BesideResults
<1>3. ASSUME NEW s \in Secs, Done("krn", s)'
      PROVE  Done("krn", s)
  <2>1. CASE MainThread
    BY <1>3, <2>1 DEF MainThread, PushIn, Enqueue, PushOut, WaitForEvents, StopThreads, JoinThreads,
       commands, Done
  <2>2. ASSUME NEW k \in Lanes, InThread(k) \/ OutLoop(k) \/ OutExit(k)
        PROVE  Done("krn", s)
    BY <1>3, <2>2 DEF InThread, InEnd, InWait, InCopy, InEvent, InPop,
       OutLoop, OutEnd, OutEvent, OutPop, OutExit, commands, Done
  <2>3. ASSUME NEW t \in Secs, Transfer(t) \/ TransferBack(t) \/ \E c \in Commands : Start(c, t)
        PROVE  Done("krn", s)
    BY <1>3, <2>3 DEF Transfer, TransferBack, Finish, Start, Done
  <2> QED BY <2>1, <2>2, <2>3 DEF BesideResults
<1>4. ASSUME NEW k \in Lanes
      PROVE  outThread'[k] = "work" <=> outThread[k] = "work"
  <2>1. CASE MainThread
    BY <1>4, <2>1 DEF MainThread, PushIn, Enqueue, PushOut, WaitForEvents, StopThreads, JoinThreads, outside
  <2>2. ASSUME NEW l \in Lanes, InThread(l) \/ OutExit(l)
        PROVE  outThread'[k] = "work" <=> outThread[k] = "work"
    BY <1>4, <2>2 DEF InThread, InEnd, InWait, InCopy, InEvent, InPop, OutExit, outside
  <2>3. ASSUME NEW l \in Lanes, OutLoop(l)
        PROVE  outThread'[k] = "work" <=> outThread[k] = "work"
    BY <1>4, <2>3 DEF OutLoop, OutEnd, OutEvent, OutPop, AfterPop, PipeTypeOK
  <2>4. ASSUME NEW t \in Secs, Transfer(t) \/ TransferBack(t) \/ \E c \in Commands : Start(c, t)
        PROVE  outThread'[k] = "work" <=> outThread[k] = "work"
    BY <1>4, <2>4 DEF Transfer, TransferBack, Finish, Start, outside
  <2> QED BY <2>1, <2>2, <2>3, <2>4 DEF BesideResults
<1> QED BY <1>1, <1>2, <1>3, <1>4, FrontStays, LanesStay

LEMMA OneTaken ==
  ASSUME IInv, NEW k \in Lanes, OutDone(k)
  PROVE  TakenOver' = TakenOver \cup {section(k)}
<1>1. outThread[k] = "work" /\ section(k) = outQueue[k][1] /\ section(k) \in Secs
  BY AtWork DEF OutDone
<1>2. UNCHANGED <<lanes, outQueue, memcpy_out>> /\ Lanes' = Lanes
  BY DEF OutDone, Lanes
<1>3. \A l \in Lanes : outThread'[l] = IF l = k THEN "event" ELSE outThread[l]
  BY DEF OutDone, IInv, PipeTypeOK
<1> QED BY <1>1, <1>2, <1>3 DEF TakenOver

LEMMA AllTaken ==
  ASSUME IInv, step = "done"
  PROVE  TakenOver = Secs
BY DEF IInv, Over, TakenOver

(* The elements of a family of sets, each named by the set it is from. *)
Pairs(f, S) == UNION {{s} \X f[s] : s \in S}

LEMMA PairsFinite ==
  ASSUME NEW S, IsFiniteSet(S), NEW f, \A s \in S : IsFiniteSet(f[s])
  PROVE  IsFiniteSet(Pairs(f, S))
<1>. DEFINE g == [s \in S |-> {s} \X f[s]]
            T == {{s} \X f[s] : s \in S}
<1>1. g \in Surjection(S, T)
  BY DEF Surjection
<1>2. IsFiniteSet(T)
  BY <1>1, FS_Surjection
<1>3. \A s \in S : IsFiniteSet({s} \X f[s])
  BY FS_Product, FS_Singleton
<1> QED BY <1>2, <1>3, FS_UNION DEF Pairs

(* What two disjoint families have together, and what one set adds. *)
LEMMA PairsOfBoth ==
  ASSUME NEW S, IsFiniteSet(S), NEW T, IsFiniteSet(T), S \cap T = {}, NEW f,
         \A s \in S \cup T : IsFiniteSet(f[s])
  PROVE  /\ Cardinality(Pairs(f, S)) \in Nat /\ Cardinality(Pairs(f, T)) \in Nat
         /\ Cardinality(Pairs(f, S \cup T)) = Cardinality(Pairs(f, S)) + Cardinality(Pairs(f, T))
<1>1. Pairs(f, S \cup T) = Pairs(f, S) \cup Pairs(f, T)
  BY DEF Pairs
<1>2. Pairs(f, S) \cap Pairs(f, T) = {}
  BY DEF Pairs
<1>3. IsFiniteSet(Pairs(f, S)) /\ IsFiniteSet(Pairs(f, T))
  BY PairsFinite
<1>. DEFINE a == Cardinality(Pairs(f, S))
            b == Cardinality(Pairs(f, T))
            c == Cardinality(Pairs(f, S) \cap Pairs(f, T))
<1>4. Cardinality(Pairs(f, S \cup T)) = a + b - c
  BY <1>1, <1>3, FS_Union
<1>5. a \in Nat /\ b \in Nat /\ c = 0
  BY <1>2, <1>3, FS_CardinalityType, FS_EmptySet
<1>. HIDE DEF a, b, c
<1>6. Cardinality(Pairs(f, S \cup T)) = a + b
  BY <1>4, <1>5
<1> QED BY <1>5, <1>6 DEF a, b

LEMMA OneMorePair ==
  ASSUME NEW S, IsFiniteSet(S), NEW t, t \notin S, NEW f,
         \A s \in S : IsFiniteSet(f[s]), IsFiniteSet(f[t])
  PROVE  /\ Cardinality(Pairs(f, S)) \in Nat /\ Cardinality(f[t]) \in Nat
         /\ Cardinality(Pairs(f, S \cup {t})) = Cardinality(Pairs(f, S)) + Cardinality(f[t])
<1>1. IsFiniteSet({t}) /\ Cardinality({t}) = 1
  BY FS_Singleton
<1>2. Pairs(f, {t}) = {t} \X f[t]
  BY DEF Pairs
<1>3. Cardinality({t} \X f[t]) = Cardinality({t}) * Cardinality(f[t])
  BY <1>1, FS_Product
<1>4. Cardinality(f[t]) \in Nat
  BY FS_CardinalityType
<1>5. Cardinality(Pairs(f, {t})) = Cardinality(f[t])
  <2>. DEFINE n == Cardinality(f[t])
  <2>1. Cardinality(Pairs(f, {t})) = 1 * n /\ n \in Nat
    BY <1>1, <1>2, <1>3, <1>4
  <2>. HIDE DEF n
  <2>2. Cardinality(Pairs(f, {t})) = n
    BY <2>1
  <2> QED BY <2>2 DEF n
<1>6. /\ Cardinality(Pairs(f, S)) \in Nat
      /\ Cardinality(Pairs(f, S \cup {t})) = Cardinality(Pairs(f, S)) + Cardinality(Pairs(f, {t}))
  BY <1>1, PairsOfBoth
<1> QED BY <1>4, <1>5, <1>6

LEMMA SecsFinite == IsFiniteSet(Secs) /\ Cardinality(Secs) = Sections
BY FS_Interval, SectionsAssumption DEF Secs
=============================================================================
