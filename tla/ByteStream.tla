----------------------------- MODULE ByteStream -----------------------------
(***************************************************************************)
(* The bounded byte stream between the threads of a Workshop                *)
(* (host/data_compression/include/Stream.hpp, src/Stream.cpp): a queue of   *)
(* ByteItems under one mutex and one condition variable.  push copies the   *)
(* caller's bytes into a new item, waits for room and appends it; pop       *)
(* gathers bytes of as many items as it needs, waiting for each, and stops  *)
(* short only at an item pushed with last = true.                           *)
(*                                                                          *)
(* A payload is a range of stream positions.  The fields at and frame of an *)
(* item and the variables written, ends, read, closed, from and res are     *)
(* history: no guard of a program step reads them.                          *)
(***************************************************************************)
EXTENDS Integers, Sequences, FiniteSets

CONSTANTS
  Producers,  (* threads that push                                          *)
  Consumers,  (* threads that pop                                           *)
  MaxSize,    (* Stream::maxSize, the capacity in items                     *)
  PushSizes,  (* the sizes a caller pushes                                  *)
  PopSizes,   (* the sizes a caller asks of pop                             *)
  MaxFrames,  (* bound: frames the callers push; 1 is one session           *)
  MaxCalls,   (* bound: push calls                                          *)
  Free        (* the mutex is not held                                      *)

ASSUME StreamAssumption ==
  /\ Producers \cap Consumers = {}
  /\ Free \notin Consumers
  /\ MaxSize \in Nat \ {0}
  /\ PushSizes \subseteq Nat
  /\ PopSizes \subseteq Nat
  /\ MaxFrames \in Nat
  /\ MaxCalls \in Nat

Threads == Producers \cup Consumers

VARIABLES
  queue,    (* Stream::queue, a sequence of ByteItems                       *)
  mutex,    (* the consumer that holds Stream::mut across steps, or Free    *)
  waiting,  (* threads asleep in cv.wait                                    *)
  pc,       (* where each thread is                                         *)
  item,     (* item[p]: size and last of the push p is in                   *)
  left,     (* left[c]: pop's parameter size, counted down                  *)
  popped,   (* popped[c]: pop's local popped                                *)
  calls,    (* push calls made                                              *)
  frames,   (* push calls made with last = true                             *)
  written, ends, read, closed,  (* history, as in FrameChannel              *)
  from,     (* from[c]: position of the first byte of c's pop               *)
  res       (* res[c]: what c's latest pop was asked and returned           *)

threadVars == <<pc, item, left, popped, calls, frames>>
history == <<written, ends, read, closed>>
vars == <<queue, mutex, waiting, threadVars, history, from, res>>

(* ByteItem::available; mutated, it forgets what has been used. *)
AvailableWholeItem(it) == it.size
Available(it) == it.size - it.used

Smaller(m, n) == IF m < n THEN m ELSE n

(* std::queue::emplace, and cv.notify_all, with their mutated forms. *)
EmplaceInFront(it) == <<it>> \o queue
Emplace(it) == Append(queue, it)
NotifyNobody == UNCHANGED waiting
NotifyAll == waiting' = {}

ByteItem ==
  {it \in [size : Nat, used : Nat, last : BOOLEAN, at : Nat, frame : Nat] : it.used <= it.size}

(* The ByteItem constructor, and ByteItem::use. *)
NewItem(size, last) ==
  [size |-> size, used |-> 0, last |-> last, at |-> written, frame |-> Len(ends) + 1]
UseBytesForgotten(it, n) == it
UseBytes(it, n) == [it EXCEPT !.used = @ + n]

Init ==
  /\ queue = <<>>
  /\ mutex = Free
  /\ waiting = {}
  /\ pc = [t \in Threads |-> "idle"]
  /\ item = [p \in Producers |-> [size |-> 0, last |-> FALSE]]
  /\ left = [c \in Consumers |-> 0]
  /\ popped = [c \in Consumers |-> 0]
  /\ calls = 0
  /\ frames = 0
  /\ written = 0 /\ ends = <<>> /\ read = 0 /\ closed = 0
  /\ from = [c \in Consumers |-> 0]
  /\ res = [c \in Consumers |-> [from |-> 0, n |-> 0, req |-> 0, last |-> FALSE]]

-----------------------------------------------------------------------------
(* push *)

(* The callers end a frame only when no other push is in flight, and push    *)
(* nothing after the last frame; the last call allowed ends a frame.         *)
MayPush(p, last) ==
  /\ calls < MaxCalls /\ frames < MaxFrames
  /\ calls + 1 = MaxCalls => last
  /\ last => \A q \in Producers : pc[q] = "idle"
  /\ \A q \in Producers : pc[q] = "push" => ~item[q].last

(* A caller enters push, which copies the bytes before it takes the mutex. *)
PushCall(p, size, last) ==
  /\ pc[p] = "idle"
  /\ MayPush(p, last)
  /\ pc' = [pc EXCEPT ![p] = "push"]
  /\ item' = [item EXCEPT ![p] = [size |-> size, last |-> last]]
  /\ calls' = calls + 1
  /\ frames' = IF last THEN frames + 1 ELSE frames
  /\ UNCHANGED <<queue, mutex, waiting, left, popped, history, from, res>>

(* With the mutex: the queue has room, the item is queued, all are notified. *)
Enqueue(p) ==
  /\ Len(queue) < MaxSize
  /\ queue' = Emplace(NewItem(item[p].size, item[p].last))
  /\ NotifyAll
  /\ pc' = [pc EXCEPT ![p] = "idle"]
  /\ written' = written + item[p].size
  /\ ends' = IF item[p].last THEN Append(ends, written') ELSE ends

(* With the mutex: no room, cv.wait releases the mutex and sleeps. *)
SleepFull(p) ==
  /\ ~(Len(queue) < MaxSize)
  /\ waiting' = waiting \cup {p}
  /\ UNCHANGED <<queue, pc, written, ends>>

(* The critical section of push, from the lock or from a wakeup. *)
Push(p) ==
  /\ pc[p] = "push" /\ p \notin waiting /\ mutex = Free
  /\ Enqueue(p) \/ SleepFull(p)
  /\ UNCHANGED <<mutex, item, left, popped, calls, frames, read, closed, from, res>>

-----------------------------------------------------------------------------
(* pop *)

PopCall(c, size) ==
  /\ pc[c] = "idle"
  /\ closed < MaxFrames
  /\ pc' = [pc EXCEPT ![c] = "lock"]
  /\ left' = [left EXCEPT ![c] = size]
  /\ popped' = [popped EXCEPT ![c] = 0]
  /\ UNCHANGED <<queue, mutex, waiting, item, calls, frames, history, from, res>>

(* The mutex is taken, on entry or after a wakeup in cv.wait. *)
Lock(c) ==
  /\ pc[c] = "lock" /\ c \notin waiting /\ mutex = Free
  /\ mutex' = c
  /\ pc' = [pc EXCEPT ![c] = "loop"]
  /\ from' = [from EXCEPT ![c] = IF popped[c] = 0 THEN read ELSE @]
  /\ UNCHANGED <<queue, waiting, item, left, popped, calls, frames, history, res>>

(* pop, asked for req bytes, returns n and says whether they end a frame. *)
Return(c, n, req, last) ==
  /\ pc' = [pc EXCEPT ![c] = "idle"]
  /\ mutex' = Free
  /\ res' = [res EXCEPT ![c] = [from |-> from[c], n |-> n, req |-> req, last |-> last]]

(* cv.wait finds the queue empty: it releases the mutex and sleeps. *)
SleepEmpty(c) ==
  /\ pc[c] = "loop" /\ left[c] > 0 /\ queue = <<>>
  /\ waiting' = waiting \cup {c}
  /\ mutex' = Free
  /\ pc' = [pc EXCEPT ![c] = "lock"]
  /\ UNCHANGED <<queue, item, left, popped, calls, frames, history, from, res>>

(* What one iteration of the loop takes from the front item. *)
CanUse(c) == Smaller(left[c], Available(Head(queue)))

(* The front item keeps some bytes. *)
UsePart(c) ==
  /\ CanUse(c) < Available(Head(queue))
  /\ queue' = [queue EXCEPT ![1] = UseBytes(@, CanUse(c))]
  /\ UNCHANGED <<pc, mutex, waiting, res, closed>>

(* The front item is used up and was not last: it is dropped, all are notified. *)
UseUp(c) ==
  /\ CanUse(c) = Available(Head(queue)) /\ ~Head(queue).last
  /\ queue' = Tail(queue)
  /\ NotifyAll
  /\ UNCHANGED <<pc, mutex, res, closed>>

(* Mutated: pop goes on into the next frame. *)
UseLastGoesOn(c) ==
  /\ CanUse(c) = Available(Head(queue)) /\ Head(queue).last
  /\ queue' = Tail(queue)
  /\ closed' = closed + 1
  /\ waiting' = {}
  /\ UNCHANGED <<pc, mutex, res>>

(* The front item is used up and was last: it is dropped and pop returns at *)
(* once, without the notification.                                          *)
UseLast(c) ==
  /\ CanUse(c) = Available(Head(queue)) /\ Head(queue).last
  /\ queue' = Tail(queue)
  /\ closed' = closed + 1
  /\ Return(c, popped[c] + CanUse(c), popped[c] + left[c], TRUE)
  /\ UNCHANGED waiting

(* One iteration of the loop in pop over a nonempty queue. *)
Use(c) ==
  /\ pc[c] = "loop" /\ left[c] > 0 /\ queue # <<>>
  /\ left' = [left EXCEPT ![c] = @ - CanUse(c)]
  /\ popped' = [popped EXCEPT ![c] = @ + CanUse(c)]
  /\ read' = read + CanUse(c)
  /\ UsePart(c) \/ UseUp(c) \/ UseLast(c)
  /\ UNCHANGED <<item, calls, frames, written, ends, from>>

(* The loop ends: all the bytes asked for have been gathered. *)
Satisfied(c) ==
  /\ pc[c] = "loop" /\ left[c] = 0
  /\ Return(c, popped[c], popped[c], FALSE)
  /\ UNCHANGED <<queue, waiting, item, left, popped, calls, frames, history, from>>

-----------------------------------------------------------------------------
(* The C++ standard lets cv.wait wake without a notification. *)
SpuriousWakeup(t) ==
  /\ t \in waiting
  /\ waiting' = waiting \ {t}
  /\ UNCHANGED <<queue, mutex, threadVars, history, from, res>>

(* All frames have been pushed and every consumer has been told. *)
Finished ==
  /\ closed = MaxFrames
  /\ \A t \in Threads : pc[t] = "idle"
  /\ UNCHANGED vars

Next ==
  \/ \E p \in Producers, size \in PushSizes, last \in BOOLEAN : PushCall(p, size, last)
  \/ \E p \in Producers : Push(p)
  \/ \E c \in Consumers, size \in PopSizes : PopCall(c, size)
  \/ \E c \in Consumers : Lock(c) \/ SleepEmpty(c) \/ Use(c) \/ Satisfied(c)
  \/ \E t \in Threads : SpuriousWakeup(t)
  \/ Finished

Spec == Init /\ [][Next]_vars

(* The scheduler runs every thread that is not blocked, and a mutex that is   *)
(* released again and again is granted to each thread that wants it; the      *)
(* callers push and pop until the last frame is over, as the test drivers do. *)
Fairness ==
  /\ \A p \in Producers : SF_vars(Push(p))
  /\ WF_vars(\E p \in Producers, size \in PushSizes, last \in BOOLEAN : PushCall(p, size, last))
  /\ \A c \in Consumers :
       /\ WF_vars(\E size \in PopSizes : PopCall(c, size))
       /\ SF_vars(Lock(c))
       /\ WF_vars(SleepEmpty(c) \/ Use(c) \/ Satisfied(c))

FairSpec == Spec /\ Fairness

-----------------------------------------------------------------------------
(* Properties *)

TypeOK ==
  /\ queue \in Seq(ByteItem)
  /\ mutex \in Consumers \cup {Free}
  /\ waiting \subseteq Threads
  /\ pc \in [Threads -> {"idle", "push", "lock", "loop"}]
  /\ item \in [Producers -> [size : Nat, last : BOOLEAN]]
  /\ left \in [Consumers -> Nat]
  /\ popped \in [Consumers -> Nat]
  /\ calls \in Nat /\ frames \in Nat
  /\ written \in Nat /\ ends \in Seq(Nat) /\ read \in Nat /\ closed \in Nat
  /\ from \in [Consumers -> Nat]
  /\ res \in [Consumers -> [from : Nat, n : Nat, req : Nat, last : BOOLEAN]]

(* The items queued are exactly the bytes written and not yet read, in      *)
(* order: the front item begins at read, each next where the one before it  *)
(* ends, and the back one ends at written.  Neither the copy outside the    *)
(* lock nor a pop spread over several sleeps loses, repeats or swaps bytes. *)
ItemStart(i) == queue[i].at + queue[i].used
ItemEnd(i) == queue[i].at + queue[i].size
Lossless ==
  /\ queue = <<>> => read = written
  /\ queue # <<>> =>
       /\ ItemStart(1) = read
       /\ ItemEnd(Len(queue)) = written
       /\ \A i \in 2..Len(queue) : ItemStart(i) = ItemEnd(i - 1)

(* The items queued follow the frames: the front item belongs to the frame   *)
(* being read, the next item to the same frame unless the one before it was  *)
(* last; an item pushed with last = true ends where its frame ended, and no   *)
(* other item reaches past the end of its frame.                             *)
FrameAfter(i) == IF queue[i].last THEN queue[i].frame + 1 ELSE queue[i].frame
FrameOrder ==
  /\ queue = <<>> => closed = Len(ends)
  /\ queue # <<>> =>
       /\ queue[1].frame = closed + 1
       /\ FrameAfter(Len(queue)) = Len(ends) + 1
  /\ \A i \in 1..Len(queue) :
       /\ i > 1 => queue[i].frame = FrameAfter(i - 1)
       /\ ItemEnd(i) <= written
       /\ queue[i].frame \in 1..(Len(ends) + 1)
       /\ queue[i].frame <= Len(ends) => ItemEnd(i) <= ends[queue[i].frame]
       /\ queue[i].last => /\ queue[i].frame <= Len(ends)
                           /\ ends[queue[i].frame] = ItemEnd(i)

(* No wakeup is lost within one session: a producer asleep finds the queue   *)
(* full, a consumer asleep finds it empty.  pop drops an item pushed with    *)
(* last = true without notifying, so this needs MaxFrames = 1.               *)
NoLostWakeup ==
  /\ \A p \in Producers \cap waiting : Len(queue) >= MaxSize
  /\ \A c \in Consumers \cap waiting : queue = <<>>

(* The reason: once the end of the session is queued, or its push is in     *)
(* flight, no other push is in flight, so nobody sleeps when it is popped.   *)
LastQueued == \E i \in 1..Len(queue) : queue[i].last
LastPushAlone ==
  /\ LastQueued => \A p \in Producers : pc[p] # "push"
  /\ \A p \in Producers : pc[p] = "push" /\ item[p].last =>
       ~LastQueued /\ \A q \in Producers \ {p} : pc[q] # "push"
  /\ frames = 0 => ~LastQueued /\ \A p \in Producers : pc[p] = "push" => ~item[p].last
  /\ \A t \in waiting : pc[t] = IF t \in Producers THEN "push" ELSE "lock"

(* What a pop gathers lies in one frame, however many items and sleeps it    *)
(* takes: no frame ends strictly inside it.  It returns short only at the    *)
(* end of a frame, and last = true exactly tells that a frame ended there.    *)
PopWithinFrame ==
  \A c \in Consumers :
    /\ \A f \in DOMAIN ends :
         /\ ~(res[c].from < ends[f] /\ ends[f] < res[c].from + res[c].n)
         /\ pc[c] # "idle" => ~(from[c] < ends[f] /\ ends[f] < from[c] + popped[c])
    /\ res[c].n < res[c].req => res[c].last
    /\ res[c].last => \E f \in 1..closed : ends[f] = res[c].from + res[c].n

(* The stream implements the abstract channel of frames. *)
Channel == INSTANCE FrameChannel
ImplementsChannel == Channel!Spec

(* Nobody is left asleep: every push that was called returns, and every frame *)
(* pushed is read to its end.                                                 *)
EverybodyServed ==
  /\ \A p \in Producers : pc[p] = "push" ~> pc[p] = "idle"
  /\ <>(closed = MaxFrames)
=============================================================================
