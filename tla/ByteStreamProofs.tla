-------------------------- MODULE ByteStreamProofs --------------------------
(* Theorems about ByteStream, for every set of threads and every capacity. *)
EXTENDS ByteStream, TLAPS

USE StreamAssumption DEF Emplace, NotifyAll

LEMMA TypeInit == Init => TypeOK
BY DEF Init, TypeOK, Threads

(* ByteItem operations stay in ByteItem, and change only used. *)
LEMMA NewItemType ==
  ASSUME NEW size \in Nat, NEW last \in BOOLEAN, written \in Nat, ends \in Seq(Nat)
  PROVE  NewItem(size, last) \in ByteItem
BY DEF NewItem, ByteItem

LEMMA UseBytesType ==
  ASSUME NEW it \in ByteItem, NEW n \in Nat, n <= Available(it)
  PROVE  /\ UseBytes(it, n) \in ByteItem
         /\ UseBytes(it, n).used = it.used + n
         /\ UseBytes(it, n).size = it.size /\ UseBytes(it, n).last = it.last
         /\ UseBytes(it, n).at = it.at /\ UseBytes(it, n).frame = it.frame
BY DEF UseBytes, ByteItem, Available

(* What one iteration of pop takes from the front item. *)
LEMMA TakenType ==
  ASSUME TypeOK, NEW c \in Consumers, queue # <<>>
  PROVE  /\ Head(queue) \in ByteItem /\ Head(queue) = queue[1]
         /\ Available(Head(queue)) \in Nat
         /\ CanUse(c) \in Nat /\ CanUse(c) <= Available(Head(queue)) /\ CanUse(c) <= left[c]
<1>1. Head(queue) \in ByteItem /\ Head(queue) = queue[1]
  BY DEF TypeOK
<1>2. Available(Head(queue)) \in Nat
  BY <1>1 DEF ByteItem, Available
<1> QED BY <1>1, <1>2 DEF TypeOK, CanUse, Smaller

LEMMA TypeStep == TypeOK /\ [Next]_vars => TypeOK'
<1> SUFFICES ASSUME TypeOK, [Next]_vars PROVE TypeOK'
  OBVIOUS
<1>1. ASSUME NEW p \in Producers, NEW size \in PushSizes, NEW last \in BOOLEAN,
             PushCall(p, size, last)
      PROVE  TypeOK'
  BY SMTT(30), <1>1 DEF TypeOK, PushCall, history, Threads
<1>2. ASSUME NEW p \in Producers, Push(p)
      PROVE  TypeOK'
  <2>1. CASE Enqueue(p)
    <3>1. item[p].size \in Nat /\ item[p].last \in BOOLEAN
      BY DEF TypeOK
    <3>2. NewItem(item[p].size, item[p].last) \in ByteItem
      BY <3>1, NewItemType DEF TypeOK
    <3>3. queue' \in Seq(ByteItem)
      BY <2>1, <3>2 DEF TypeOK, Enqueue
    <3>4. written' \in Nat /\ ends' \in Seq(Nat)
      BY SMTT(30), <2>1, <3>1 DEF TypeOK, Enqueue
    <3> QED BY <1>2, <2>1, <3>3, <3>4 DEF TypeOK, Push, Enqueue, Threads
  <2>2. CASE SleepFull(p)
    BY <1>2, <2>2 DEF TypeOK, Push, SleepFull, Threads
  <2> QED BY <1>2, <2>1, <2>2 DEF Push
<1>3. ASSUME NEW c \in Consumers, NEW size \in PopSizes, PopCall(c, size)
      PROVE  TypeOK'
  BY <1>3 DEF TypeOK, PopCall, history, Threads
<1>4. ASSUME NEW c \in Consumers, Lock(c)
      PROVE  TypeOK'
  BY <1>4 DEF TypeOK, Lock, history, Threads
<1>5. ASSUME NEW c \in Consumers, SleepEmpty(c)
      PROVE  TypeOK'
  BY <1>5 DEF TypeOK, SleepEmpty, history, Threads
<1>6. ASSUME NEW c \in Consumers, Use(c)
      PROVE  TypeOK'
  <2>1. /\ queue # <<>> /\ Head(queue) \in ByteItem /\ Head(queue) = queue[1]
        /\ Available(Head(queue)) \in Nat
        /\ CanUse(c) \in Nat /\ CanUse(c) <= Available(Head(queue)) /\ CanUse(c) <= left[c]
    BY <1>6, TakenType DEF TypeOK, Use
  <2>2. /\ left[c] - CanUse(c) \in Nat /\ popped[c] + CanUse(c) \in Nat
        /\ popped[c] + left[c] \in Nat /\ read + CanUse(c) \in Nat
    <3>1. left[c] \in Nat /\ popped[c] \in Nat /\ read \in Nat
      BY DEF TypeOK
    <3>2. CanUse(c) \in Nat /\ CanUse(c) <= left[c]
      BY <2>1
    <3> QED BY <3>1, <3>2
  <2>3. /\ left' \in [Consumers -> Nat] /\ popped' \in [Consumers -> Nat] /\ read' \in Nat
    BY <1>6, <2>2 DEF TypeOK, Use
  <2>4. CASE UsePart(c)
    <3>1. UseBytes(queue[1], CanUse(c)) \in ByteItem
      BY <2>1, UseBytesType
    <3>2. queue' \in Seq(ByteItem)
      BY <2>1, <2>4, <3>1 DEF TypeOK, UsePart
    <3> QED BY <1>6, <2>3, <2>4, <3>2 DEF TypeOK, Use, UsePart
  <2>5. CASE UseUp(c)
    <3>1. queue' \in Seq(ByteItem)
      BY <2>1, <2>5 DEF TypeOK, UseUp
    <3> QED BY <1>6, <2>3, <2>5, <3>1 DEF TypeOK, Use, UseUp
  <2>6. CASE UseLast(c)
    <3>1. queue' \in Seq(ByteItem)
      BY <2>1, <2>6 DEF TypeOK, UseLast
    <3>2. /\ pc' \in [Threads -> {"idle", "push", "lock", "loop"}]
          /\ mutex' \in Consumers \cup {Free}
          /\ closed' \in Nat /\ waiting' \subseteq Threads
      BY <2>6 DEF TypeOK, UseLast, Return, Threads
    <3>3. res' \in [Consumers -> [from : Nat, n : Nat, req : Nat, last : BOOLEAN]]
      BY <2>2, <2>6 DEF TypeOK, UseLast, Return
    <3> QED BY <1>6, <2>3, <3>1, <3>2, <3>3 DEF TypeOK, Use
  <2> QED BY <1>6, <2>4, <2>5, <2>6 DEF Use
<1>7. ASSUME NEW c \in Consumers, Satisfied(c)
      PROVE  TypeOK'
  BY <1>7 DEF TypeOK, Satisfied, Return, history, Threads
<1>8. ASSUME NEW t \in Threads, SpuriousWakeup(t)
      PROVE  TypeOK'
  BY <1>8 DEF TypeOK, SpuriousWakeup, threadVars, history, Threads
<1>9. CASE UNCHANGED vars
  BY <1>9 DEF TypeOK, vars, threadVars, history
<1>10. CASE Finished
  BY <1>10, <1>9 DEF Finished
<1> QED BY <1>1, <1>2, <1>3, <1>4, <1>5, <1>6, <1>7, <1>8, <1>9, <1>10 DEF Next

(* Every variable keeps its type. *)
THEOREM TypeCorrect == Spec => []TypeOK
BY TypeInit, TypeStep, PTL DEF Spec

-----------------------------------------------------------------------------
(* The queue always holds the bytes between read and written, frame by       *)
(* frame: Lossless and FrameOrder are inductive together.                    *)

Books == Lossless /\ FrameOrder

(* Steps that touch neither the queue nor the history. *)
LEMMA QuietStep ==
  ASSUME Books, UNCHANGED <<queue, written, ends, read, closed>>
  PROVE  Books'
BY DEF Books, Lossless, FrameOrder, ItemStart, ItemEnd, FrameAfter

LEMMA EnqueueStep ==
  ASSUME TypeOK, Books, NEW p \in Producers, Enqueue(p), UNCHANGED <<read, closed>>
  PROVE  Books'
<1> DEFINE it == NewItem(item[p].size, item[p].last)
           L == Len(queue)
<1>1. /\ item[p].size \in Nat /\ item[p].last \in BOOLEAN
      /\ written \in Nat /\ read \in Nat /\ closed \in Nat /\ L \in Nat
      /\ ends \in Seq(Nat) /\ Len(ends) \in Nat /\ queue \in Seq(ByteItem)
  BY DEF TypeOK
<1>2. it \in ByteItem
  BY <1>1, NewItemType
<1>3. /\ Len(queue') = L + 1 /\ queue'[L + 1] = it
      /\ \A i \in 1..L : queue'[i] = queue[i]
  BY <1>1, <1>2 DEF Enqueue
<1>4. /\ it.at = written /\ it.used = 0 /\ it.size = item[p].size
      /\ it.last = item[p].last /\ it.frame = Len(ends) + 1
  BY DEF NewItem
<1>5. \A i \in 1..L : /\ queue[i].at \in Nat /\ queue[i].used \in Nat
                       /\ queue[i].size \in Nat /\ queue[i].frame \in Nat
                       /\ queue[i].last \in BOOLEAN
  BY SMTT(30), <1>1 DEF ByteItem
<1>6. written' = written + it.size
  BY <1>4 DEF Enqueue
<1>7. /\ it.last => ends' = Append(ends, written')
      /\ ~it.last => ends' = ends
  BY <1>4 DEF Enqueue
<1>8. /\ \A f \in 1..Len(ends) : ends'[f] = ends[f]
      /\ it.last => Len(ends') = Len(ends) + 1 /\ ends'[Len(ends) + 1] = written'
      /\ ~it.last => Len(ends') = Len(ends)
  <2>1. written' \in Nat /\ it.last \in BOOLEAN
    BY <1>1, <1>4, <1>6
  <2>2. CASE it.last
    BY <1>1, <2>1, <2>2, <1>7
  <2>3. CASE ~it.last
    BY <1>1, <2>3, <1>7
  <2> QED BY <2>1, <2>2, <2>3
<1>9. /\ L = 0 => read = written /\ closed = Len(ends)
      /\ L > 0 => /\ queue[1].at + queue[1].used = read
                  /\ queue[L].at + queue[L].size = written
                  /\ queue[1].frame = closed + 1
                  /\ queue[L].last => queue[L].frame + 1 = Len(ends) + 1
                  /\ ~queue[L].last => queue[L].frame = Len(ends) + 1
  BY <1>1 DEF Books, Lossless, FrameOrder, ItemStart, ItemEnd, FrameAfter
<1>10. \A i \in 2..L :
         /\ queue[i].at + queue[i].used = queue[i-1].at + queue[i-1].size
         /\ queue[i-1].last => queue[i].frame = queue[i-1].frame + 1
         /\ ~queue[i-1].last => queue[i].frame = queue[i-1].frame
  BY <1>1 DEF Books, Lossless, FrameOrder, ItemStart, ItemEnd, FrameAfter
<1>11. \A i \in 1..L :
         /\ queue[i].at + queue[i].size <= written
         /\ queue[i].frame \in 1..(Len(ends) + 1)
         /\ queue[i].frame <= Len(ends) =>
              queue[i].at + queue[i].size <= ends[queue[i].frame]
         /\ queue[i].last => /\ queue[i].frame <= Len(ends)
                             /\ ends[queue[i].frame] = queue[i].at + queue[i].size
  BY <1>1 DEF Books, FrameOrder, ItemEnd
<1> HIDE DEF it, L
<1>12. queue' # <<>> /\ Len(queue') = L + 1
  BY <1>1, <1>3 DEF L
<1>13. /\ queue'[1].at + queue'[1].used = read'
       /\ queue'[1].frame = closed' + 1
  <2>1. CASE L = 0
    <3>1. queue'[1] = it
      BY <1>3, <2>1
    <3> QED BY <1>1, <1>4, <1>9, <2>1, <3>1
  <2>2. CASE L > 0
    <3>1. queue'[1] = queue[1]
      BY <1>1, <1>3, <2>2
    <3> QED BY <1>9, <2>2, <3>1
  <2> QED BY <1>1, <2>1, <2>2
<1>14. /\ queue'[L+1].at + queue'[L+1].size = written'
       /\ queue'[L+1].last => queue'[L+1].frame + 1 = Len(ends') + 1
       /\ ~queue'[L+1].last => queue'[L+1].frame = Len(ends') + 1
  BY <1>1, <1>3, <1>4, <1>6, <1>8
<1>15. ASSUME NEW i \in 2..(L+1)
       PROVE  /\ queue'[i].at + queue'[i].used = queue'[i-1].at + queue'[i-1].size
              /\ queue'[i-1].last => queue'[i].frame = queue'[i-1].frame + 1
              /\ ~queue'[i-1].last => queue'[i].frame = queue'[i-1].frame
  <2>1. queue'[i-1] = queue[i-1]
    BY <1>1, <1>3
  <2>2. CASE i = L + 1
    BY <1>1, <1>3, <1>4, <1>5, <1>9, <2>1, <2>2
  <2>3. CASE i \in 2..L
    <3>1. queue'[i] = queue[i]
      BY <1>1, <1>3, <2>3
    <3> QED BY <1>10, <2>1, <2>3, <3>1
  <2> QED BY <1>1, <2>2, <2>3
<1>16. ASSUME NEW i \in 1..(L+1)
       PROVE  /\ queue'[i].at + queue'[i].size <= written'
              /\ queue'[i].frame \in 1..(Len(ends') + 1)
              /\ queue'[i].frame <= Len(ends') =>
                   queue'[i].at + queue'[i].size <= ends'[queue'[i].frame]
              /\ queue'[i].last => /\ queue'[i].frame <= Len(ends')
                                   /\ ends'[queue'[i].frame] = queue'[i].at + queue'[i].size
  <2>1. CASE i = L + 1
    BY SMTT(30), <1>1, <1>3, <1>4, <1>6, <1>8, <2>1
  <2>2. CASE i \in 1..L
    <3>1. queue'[i] = queue[i]
      BY <1>3, <2>2
    <3> DEFINE e == queue[i].at + queue[i].size
               f == queue[i].frame
    <3>2. e \in Nat /\ f \in 1..(Len(ends) + 1) /\ e <= written
      BY <1>5, <1>11, <2>2
    <3>3. /\ f <= Len(ends) => e <= ends[f]
          /\ queue[i].last => f <= Len(ends) /\ ends[f] = e
      BY <1>11, <2>2
    <3>4. written \in Nat /\ written' \in Nat /\ written <= written' /\ Len(ends) \in Nat
      <4>1. it.size \in Nat /\ written \in Nat
        BY <1>1, <1>4
      <4> QED BY <1>1, <4>1, <1>6
    <3> HIDE DEF e, f
    <3>5. e <= written'
      BY <3>2, <3>4
    <3>6. f <= Len(ends) => ends'[f] = ends[f]
      BY <1>8, <3>2, <3>4
    <3>7. f \in 1..(Len(ends') + 1) /\ (f <= Len(ends') => e <= ends'[f])
      <4>1. CASE it.last
        BY <1>8, <3>2, <3>3, <3>4, <3>5, <3>6, <4>1
      <4>2. CASE ~it.last
        BY <1>8, <3>2, <3>3, <3>4, <3>6, <4>2
      <4> QED BY <4>1, <4>2
    <3>8. queue[i].last => f <= Len(ends') /\ ends'[f] = e
      BY <1>8, <3>2, <3>3, <3>4, <3>6
    <3> QED BY <3>1, <3>5, <3>7, <3>8 DEF e, f
  <2> QED BY <1>1, <2>1, <2>2
<1>17. Lossless'
  BY <1>12, <1>13, <1>14, <1>15 DEF Lossless, ItemStart, ItemEnd
<1>18. FrameOrder'
  BY <1>1, <1>12, <1>13, <1>14, <1>15, <1>16 DEF FrameOrder, FrameAfter, ItemEnd
<1> QED BY <1>17, <1>18 DEF Books

(* Facts about a nonempty queue that the two kinds of removal share. *)
LEMMA FrontFacts ==
  ASSUME TypeOK, Books, queue # <<>>
  PROVE  /\ Len(queue) \in Nat /\ Len(queue) > 0
         /\ written \in Nat /\ read \in Nat /\ closed \in Nat /\ Len(ends) \in Nat
         /\ \A i \in 1..Len(queue) :
              queue[i] \in ByteItem /\ queue[i].at \in Nat /\ queue[i].used \in Nat
              /\ queue[i].size \in Nat /\ queue[i].frame \in Nat
              /\ queue[i].last \in BOOLEAN /\ queue[i].used <= queue[i].size
         /\ ItemStart(1) = read
         /\ Available(Head(queue)) = ItemEnd(1) - read
         /\ Head(queue) = queue[1]
<1>1. queue \in Seq(ByteItem) /\ ends \in Seq(Nat)
  BY DEF TypeOK
<1>2. /\ Len(queue) \in Nat /\ Len(queue) > 0 /\ Head(queue) = queue[1]
      /\ Len(ends) \in Nat
  BY <1>1
<1>3. \A i \in 1..Len(queue) :
        queue[i] \in ByteItem /\ queue[i].at \in Nat /\ queue[i].used \in Nat
        /\ queue[i].size \in Nat /\ queue[i].frame \in Nat
        /\ queue[i].last \in BOOLEAN /\ queue[i].used <= queue[i].size
  BY SMTT(30), <1>1 DEF ByteItem
<1>4. ItemStart(1) = read
  BY DEF Books, Lossless
<1>5. Available(queue[1]) = ItemEnd(1) - read
  BY <1>2, <1>3, <1>4 DEF Available, ItemStart, ItemEnd
<1> QED BY <1>2, <1>3, <1>4, <1>5 DEF TypeOK

(* A pop that leaves bytes in the front item. *)
LEMMA UsePartStep ==
  ASSUME TypeOK, Books, NEW c \in Consumers, Use(c), UsePart(c)
  PROVE  Books'
<1> DEFINE n == CanUse(c)
           L == Len(queue)
<1>1. queue # <<>> /\ read' = read + n /\ UNCHANGED <<written, ends, closed>>
  BY DEF Use, UsePart
<1>2. n \in Nat /\ n <= Available(queue[1]) /\ queue[1] \in ByteItem
  BY <1>1, TakenType
<1> HIDE DEF n
<1>3. /\ Len(queue') = L /\ queue'[1] = UseBytes(queue[1], n)
      /\ \A i \in 2..L : queue'[i] = queue[i]
  BY SMTT(30), <1>1, FrontFacts DEF UsePart, TypeOK, n
<1>4. L \in Nat /\ L > 0 /\ queue' # <<>>
  BY <1>1, <1>3, FrontFacts
<1>5. /\ queue'[1].at = queue[1].at /\ queue'[1].size = queue[1].size
      /\ queue'[1].used = queue[1].used + n
      /\ queue'[1].last = queue[1].last /\ queue'[1].frame = queue[1].frame
  BY <1>2, <1>3, UseBytesType
<1>6. \A i \in 1..L : /\ queue'[i].at = queue[i].at /\ queue'[i].size = queue[i].size
                     /\ queue'[i].last = queue[i].last /\ queue'[i].frame = queue[i].frame
  BY <1>3, <1>4, <1>5
<1>7. /\ \A i \in 1..L : ItemEnd(i)' = ItemEnd(i) /\ FrameAfter(i)' = FrameAfter(i)
      /\ \A i \in 2..L : ItemStart(i)' = ItemStart(i)
      /\ ItemStart(1)' = read'
  <2>1. \A i \in 1..L : ItemEnd(i)' = ItemEnd(i) /\ FrameAfter(i)' = FrameAfter(i)
    BY <1>6 DEF ItemEnd, FrameAfter
  <2>2. \A i \in 2..L : ItemStart(i)' = ItemStart(i)
    BY <1>3 DEF ItemStart
  <2>3. queue[1].at + queue[1].used = read
    BY <1>1, FrontFacts DEF ItemStart
  <2>4. queue[1].at \in Nat /\ queue[1].used \in Nat
    BY <1>1, <1>4, FrontFacts
  <2>5. ItemStart(1)' = read'
    BY <1>1, <1>2, <1>5, <2>3, <2>4 DEF ItemStart
  <2> QED BY <2>1, <2>2, <2>5
<1>8. Lossless'
  <2>1. queue'[Len(queue')].at + queue'[Len(queue')].size = written'
    BY <1>1, <1>3, <1>4, <1>6 DEF Books, Lossless, ItemEnd
  <2>2. ASSUME NEW i \in 2..Len(queue')
        PROVE  ItemStart(i)' = ItemEnd(i - 1)'
    <3>1. i \in 2..L /\ i - 1 \in 1..L
      BY <1>3, <1>4
    <3>2. ItemStart(i)' = ItemStart(i) /\ ItemEnd(i - 1)' = ItemEnd(i - 1)
      BY <1>7, <3>1
    <3> QED BY <1>1, <3>1, <3>2 DEF Books, Lossless
  <2> QED BY <1>4, <1>7, <2>1, <2>2 DEF Lossless, ItemEnd
<1>9. FrameOrder'
  BY <1>1, <1>3, <1>4, <1>6, <1>7 DEF Books, FrameOrder
<1> QED BY <1>8, <1>9 DEF Books

(* A pop that removes the front item.  Its end is where the next item begins. *)
LEMMA DropStep ==
  ASSUME TypeOK, Books, NEW c \in Consumers, Use(c), UseUp(c) \/ UseLast(c)
  PROVE  Books'
<1> DEFINE L == Len(queue)
<1>1. queue # <<>> /\ read' = read + CanUse(c) /\ UNCHANGED <<written, ends>>
  BY DEF Use
<1>2. queue' = Tail(queue) /\ CanUse(c) = ItemEnd(1) - read
  BY <1>1, FrontFacts DEF UseUp, UseLast
<1>3. closed' + 1 = IF queue[1].last THEN closed + 2 ELSE closed + 1
  <2>1. Head(queue) = queue[1] /\ closed \in Nat
    BY <1>1, FrontFacts
  <2>2. CASE UseUp(c)
    BY <2>1, <2>2 DEF UseUp
  <2>3. CASE UseLast(c)
    BY <2>1, <2>3 DEF UseLast
  <2> QED BY <2>2, <2>3
<1>4. L \in Nat /\ L > 0 /\ read \in Nat /\ ItemEnd(1) \in Nat
  <2>1. 1 \in 1..Len(queue)
    BY <1>1, FrontFacts
  <2> QED BY <1>1, <2>1, FrontFacts DEF ItemEnd
<1>5. read' = ItemEnd(1)
  BY <1>1, <1>2, <1>4
<1>6. closed' + 1 = FrameAfter(1)
  <2>1. queue[1].frame = closed + 1 /\ closed \in Nat
    BY <1>1, FrontFacts DEF Books, FrameOrder
  <2> QED BY <1>3, <2>1 DEF FrameAfter
<1>7. Len(queue') = L - 1 /\ \A i \in 1..(L - 1) : queue'[i] = queue[i + 1]
  BY <1>1, <1>2 DEF TypeOK
<1>8. \A i \in 1..(L - 1) : /\ ItemStart(i)' = ItemStart(i + 1)
                            /\ ItemEnd(i)' = ItemEnd(i + 1)
                            /\ FrameAfter(i)' = FrameAfter(i + 1)
  BY <1>7 DEF ItemStart, ItemEnd, FrameAfter
<1>9. CASE L = 1
  <2>1. queue' = <<>>
    <3>1. Tail(queue) \in Seq(ByteItem) /\ Len(queue') = 0
      BY <1>1, <1>4, <1>7, <1>9 DEF TypeOK
    <3> QED BY <1>2, <3>1
  <2>2. read' = written' /\ closed' = Len(ends')
    <3>1. ItemEnd(1) = written /\ FrameAfter(1) = Len(ends) + 1
      BY <1>1, <1>9 DEF Books, Lossless, FrameOrder
    <3>2. closed' \in Nat /\ Len(ends) \in Nat
      <4>1. closed \in Nat /\ Len(ends) \in Nat
        BY <1>1, FrontFacts
      <4>2. CASE UseUp(c)
        BY <4>1, <4>2 DEF UseUp
      <4>3. CASE UseLast(c)
        BY <4>1, <4>3 DEF UseLast
      <4> QED BY <4>1, <4>2, <4>3
    <3> QED BY <1>1, <1>5, <1>6, <3>1, <3>2
  <2> QED BY <2>1, <2>2 DEF Books, Lossless, FrameOrder
<1>10. CASE L > 1
  <2>1. queue' # <<>> /\ L - 1 \in Nat /\ L - 1 > 0
    BY <1>4, <1>7, <1>10
  <2>2. \A i \in 2..L : /\ ItemStart(i) = ItemEnd(i - 1)
                        /\ queue[i].frame = FrameAfter(i - 1)
    BY <1>1, <1>4 DEF Books, Lossless, FrameOrder
  <2>3. ItemStart(1)' = read' /\ queue'[1].frame = closed' + 1
    <3>1. ItemStart(1)' = ItemStart(2) /\ queue'[1] = queue[2]
      BY <1>4, <1>7, <1>8, <1>10
    <3>2. ItemStart(2) = ItemEnd(1) /\ queue[2].frame = FrameAfter(1)
      BY <1>4, <1>10, <2>2
    <3> QED BY <1>5, <1>6, <3>1, <3>2
  <2>4. ItemEnd(Len(queue))' = written' /\ FrameAfter(Len(queue))' = Len(ends') + 1
    <3>1. queue'[L - 1] = queue[L] /\ Len(queue') = L - 1
      BY <1>4, <1>7, <1>10
    <3>2. ItemEnd(L) = written /\ FrameAfter(L) = Len(ends) + 1
      BY <1>1 DEF Books, Lossless, FrameOrder
    <3> QED BY <1>1, <3>1, <3>2 DEF ItemEnd, FrameAfter
  <2>5. ASSUME NEW i \in 2..(L - 1)
        PROVE  ItemStart(i)' = ItemEnd(i - 1)' /\ queue'[i].frame = FrameAfter(i - 1)'
    <3>1. i \in 1..(L - 1) /\ i - 1 \in 1..(L - 1) /\ i + 1 \in 2..L /\ (i - 1) + 1 = (i + 1) - 1
      BY <1>4
    <3> QED BY <1>7, <1>8, <2>2, <3>1
  <2>6. ASSUME NEW i \in 1..(L - 1)
        PROVE  /\ ItemEnd(i)' <= written'
               /\ queue'[i].frame \in 1..(Len(ends') + 1)
               /\ queue'[i].frame <= Len(ends') => ItemEnd(i)' <= ends'[queue'[i].frame]
               /\ queue'[i].last => /\ queue'[i].frame <= Len(ends')
                                    /\ ends'[queue'[i].frame] = ItemEnd(i)'
    <3>1. i + 1 \in 1..L
      BY <1>4
    <3> QED BY <1>1, <1>7, <1>8, <3>1 DEF Books, FrameOrder
  <2>7. Lossless'
    BY <1>7, <2>1, <2>3, <2>4, <2>5 DEF Lossless
  <2>8. FrameOrder'
    BY <1>4, <1>7, <2>1, <2>3, <2>4, <2>5, <2>6 DEF FrameOrder
  <2> QED BY <2>7, <2>8 DEF Books
<1>11. L = 1 \/ L > 1
  <2>1. L \in Nat /\ L > 0
    BY <1>4
  <2> HIDE DEF L
  <2> QED BY <2>1
<1> QED BY <1>9, <1>10, <1>11

LEMMA BooksStep == TypeOK /\ Books /\ [Next]_vars => Books'
<1> SUFFICES ASSUME TypeOK, Books, [Next]_vars PROVE Books'
  OBVIOUS
<1>1. ASSUME NEW p \in Producers, NEW size \in PushSizes, NEW last \in BOOLEAN,
             PushCall(p, size, last)
      PROVE  Books'
  BY <1>1, QuietStep DEF PushCall, history
<1>2. ASSUME NEW p \in Producers, Push(p)
      PROVE  Books'
  <2>1. CASE Enqueue(p)
    BY <1>2, <2>1, EnqueueStep DEF Push
  <2>2. CASE SleepFull(p)
    BY <1>2, <2>2, QuietStep DEF Push, SleepFull
  <2> QED BY <1>2, <2>1, <2>2 DEF Push
<1>3. ASSUME NEW c \in Consumers, NEW size \in PopSizes, PopCall(c, size)
      PROVE  Books'
  BY <1>3, QuietStep DEF PopCall, history
<1>4. ASSUME NEW c \in Consumers, Lock(c) \/ SleepEmpty(c) \/ Satisfied(c)
      PROVE  Books'
  BY <1>4, QuietStep DEF Lock, SleepEmpty, Satisfied, history
<1>5. ASSUME NEW c \in Consumers, Use(c)
      PROVE  Books'
  <2>1. CASE UsePart(c)
    BY <1>5, <2>1, UsePartStep
  <2>2. CASE UseUp(c) \/ UseLast(c)
    BY <1>5, <2>2, DropStep
  <2> QED BY <1>5, <2>1, <2>2 DEF Use
<1>6. ASSUME NEW t \in Threads, SpuriousWakeup(t)
      PROVE  Books'
  BY <1>6, QuietStep DEF SpuriousWakeup, history
<1>7. CASE UNCHANGED vars
  BY <1>7, QuietStep DEF vars, history
<1>8. CASE Finished
  BY <1>7, <1>8 DEF Finished
<1> QED BY <1>1, <1>2, <1>3, <1>4, <1>5, <1>6, <1>7, <1>8 DEF Next

(* No byte is lost, repeated or reordered, and no frame boundary moves,      *)
(* whatever the number of threads on either side.                            *)
THEOREM LosslessCorrect == Spec => [](Lossless /\ FrameOrder)
<1>1. Init => Books
  BY DEF Init, Books, Lossless, FrameOrder
<1>2. TypeOK /\ Books /\ [Next]_vars => Books'
  BY BooksStep
<1>3. Books => Lossless /\ FrameOrder
  BY DEF Books
<1> QED BY <1>1, <1>2, <1>3, TypeCorrect, PTL DEF Spec

-----------------------------------------------------------------------------
(* ByteStream implements FrameChannel. *)

LEMMA UseRefines ==
  ASSUME TypeOK, Books, NEW c \in Consumers, Use(c)
  PROVE  Channel!Read \/ Channel!ReadEnd
<1>1. queue # <<>> /\ read' = read + CanUse(c) /\ UNCHANGED <<written, ends>>
  BY DEF Use
<1>2. /\ CanUse(c) \in Nat /\ CanUse(c) <= ItemEnd(1) - read
      /\ Head(queue) = queue[1] /\ read \in Nat /\ closed \in Nat /\ Len(ends) \in Nat
      /\ Available(Head(queue)) = ItemEnd(1) - read
  BY <1>1, TakenType, FrontFacts
<1>3. ItemEnd(1) \in Nat /\ 1 \in 1..Len(queue)
  <2>1. 1 \in 1..Len(queue)
    BY <1>1, FrontFacts
  <2> QED BY <1>1, <2>1, FrontFacts DEF ItemEnd
<1>4. queue[1].frame = closed + 1 /\ ItemEnd(1) <= written
  BY <1>1, <1>3 DEF Books, FrameOrder
<1>5. read <= read' /\ read' <= ItemEnd(1) /\ read' \in Nat
  BY <1>1, <1>2, <1>3
<1>6. CASE UsePart(c) \/ UseUp(c)
  <2>1. UNCHANGED closed
    <3>1. CASE UsePart(c)
      BY <3>1 DEF UsePart
    <3>2. CASE UseUp(c)
      BY <3>2 DEF UseUp
    <3> QED BY <1>6, <3>1, <3>2
  <2>2. CASE closed < Len(ends)
    <3>1. ItemEnd(1) <= ends[closed + 1] /\ ends[closed + 1] \in Nat
      <4>1. closed + 1 \in 1..Len(ends) /\ closed + 1 <= Len(ends)
        <5>1. closed \in Nat /\ Len(ends) \in Nat
          BY <1>2
        <5> QED BY <2>2, <5>1
      <4>2. ItemEnd(1) <= ends[closed + 1]
        BY <1>3, <1>4, <4>1 DEF Books, FrameOrder
      <4>3. ends \in Seq(Nat)
        BY DEF TypeOK
      <4>4. ends[closed + 1] \in Nat
        BY <4>1, <4>3
      <4> QED BY <4>2, <4>4
    <3>2. read' \in read..ends[closed + 1]
      BY <1>2, <1>3, <1>5, <3>1
    <3> QED BY <1>1, <2>1, <2>2, <3>2 DEF Channel!Read, Channel!Limit
  <2>3. CASE ~(closed < Len(ends))
    <3>1. read' \in read..written
      BY <1>2, <1>3, <1>4, <1>5 DEF TypeOK
    <3> QED BY <1>1, <2>1, <2>3, <3>1 DEF Channel!Read, Channel!Limit
  <2> QED BY <2>2, <2>3
<1>7. CASE UseLast(c)
  <2>1. queue[1].last /\ closed' = closed + 1 /\ CanUse(c) = ItemEnd(1) - read
    BY <1>2, <1>7 DEF UseLast
  <2>2. closed + 1 <= Len(ends) /\ ends[closed + 1] = ItemEnd(1)
    BY <1>3, <1>4, <2>1 DEF Books, FrameOrder
  <2>3. read' = ItemEnd(1)
    BY <1>1, <1>2, <1>3, <2>1
  <2>4. closed < Len(ends)
    BY <1>2, <2>2
  <2> QED BY <1>1, <2>1, <2>2, <2>3, <2>4 DEF Channel!ReadEnd
<1> QED BY <1>6, <1>7 DEF Use

LEMMA StepRefines ==
  TypeOK /\ Books /\ [Next]_vars => [Channel!Next]_Channel!chan
<1> SUFFICES ASSUME TypeOK, Books, [Next]_vars PROVE [Channel!Next]_Channel!chan
  OBVIOUS
<1>1. ASSUME UNCHANGED history
      PROVE  [Channel!Next]_Channel!chan
  BY <1>1 DEF history, Channel!chan
<1>2. ASSUME NEW p \in Producers, Push(p)
      PROVE  [Channel!Next]_Channel!chan
  <2>1. CASE Enqueue(p)
    <3>1. item[p].size \in Nat /\ written \in Nat
      BY DEF TypeOK
    <3>2. /\ written' \in Nat /\ written' >= written
          /\ ends' \in {ends, Append(ends, written')}
          /\ UNCHANGED <<read, closed>>
      BY <1>2, <2>1, <3>1 DEF Push, Enqueue
    <3>3. Channel!Write
      BY <3>2 DEF Channel!Write
    <3> QED BY <3>3 DEF Channel!Next
  <2>2. CASE SleepFull(p)
    BY <1>1, <1>2, <2>2 DEF Push, SleepFull, history
  <2> QED BY <1>2, <2>1, <2>2 DEF Push
<1>3. ASSUME NEW c \in Consumers, Use(c)
      PROVE  [Channel!Next]_Channel!chan
  BY <1>3, UseRefines DEF Channel!Next
<1>4. ASSUME NEW p \in Producers, NEW size \in PushSizes, NEW last \in BOOLEAN,
             PushCall(p, size, last)
      PROVE  UNCHANGED history
  BY <1>4 DEF PushCall
<1>5. ASSUME NEW c \in Consumers, NEW size \in PopSizes, PopCall(c, size)
      PROVE  UNCHANGED history
  BY <1>5 DEF PopCall
<1>6. ASSUME NEW c \in Consumers, Lock(c) \/ SleepEmpty(c) \/ Satisfied(c)
      PROVE  UNCHANGED history
  BY <1>6 DEF Lock, SleepEmpty, Satisfied
<1>7. ASSUME NEW t \in Threads, SpuriousWakeup(t)
      PROVE  UNCHANGED history
  BY <1>7 DEF SpuriousWakeup
<1>8. CASE Finished \/ UNCHANGED vars
  BY <1>1, <1>8 DEF Finished, vars
<1> QED BY <1>1, <1>2, <1>3, <1>4, <1>5, <1>6, <1>7, <1>8 DEF Next

(* Push and pop, with all their locking and sleeping, implement the lossless *)
(* channel of frames.                                                        *)
THEOREM Refinement == Spec => ImplementsChannel
<1>1. Init => Channel!Init
  BY DEF Init, Channel!Init
<1>2. TypeOK /\ Lossless /\ FrameOrder /\ [Next]_vars => [Channel!Next]_Channel!chan
  BY StepRefines DEF Books
<1> QED BY <1>1, <1>2, TypeCorrect, LosslessCorrect, PTL
       DEF Spec, ImplementsChannel, Channel!Spec

-----------------------------------------------------------------------------
(* Within one session no wakeup is lost.  The inductive invariant adds why:   *)
(* when the end of the session is popped, no producer can be asleep.          *)

Wakeups == LastPushAlone /\ NoLostWakeup

LEMMA PushCallWakes ==
  ASSUME MaxFrames = 1, TypeOK, Wakeups,
         NEW p \in Producers, NEW size \in PushSizes, NEW last \in BOOLEAN,
         PushCall(p, size, last)
  PROVE  Wakeups'
<1>1. frames = 0 /\ UNCHANGED <<queue, waiting>>
  BY DEF PushCall, MayPush, TypeOK
<1>2. NoLostWakeup'
  BY <1>1 DEF Wakeups, NoLostWakeup
<1>3. ~LastQueued /\ \A q \in Producers : pc[q] = "push" => ~item[q].last
  BY <1>1 DEF Wakeups, LastPushAlone
<1>4. ~LastQueued'
  BY <1>1, <1>3 DEF LastQueued
<1>5. /\ pc' = [pc EXCEPT ![p] = "push"] /\ pc[p] = "idle"
      /\ item' = [item EXCEPT ![p] = [size |-> size, last |-> last]]
      /\ last => \A q \in Producers : pc[q] = "idle"
      /\ frames' = IF last THEN 1 ELSE 0
  BY <1>1 DEF PushCall, MayPush
<1>6. \A q \in Producers : pc'[q] = "push" /\ item'[q].last =>
        q = p /\ last /\ \A r \in Producers \ {q} : pc'[r] # "push"
  BY <1>3, <1>5 DEF TypeOK, Threads
<1>7. frames' = 0 => \A q \in Producers : pc'[q] = "push" => ~item'[q].last
  BY <1>5, <1>6
<1>8. \A t \in waiting' : pc'[t] = IF t \in Producers THEN "push" ELSE "lock"
  BY <1>1, <1>5 DEF Wakeups, LastPushAlone, TypeOK, Threads
<1> QED BY <1>2, <1>4, <1>6, <1>7, <1>8 DEF Wakeups, LastPushAlone

LEMMA PushWakes ==
  ASSUME TypeOK, Wakeups, NEW p \in Producers, Push(p)
  PROVE  Wakeups'
<1>1. pc[p] = "push" /\ UNCHANGED <<item, frames>>
  BY DEF Push
<1>2. ~LastQueued
  BY <1>1 DEF Wakeups, LastPushAlone
<1>3. CASE SleepFull(p)
  <2>1. /\ UNCHANGED <<queue, pc>> /\ waiting' = waiting \cup {p}
        /\ ~(Len(queue) < MaxSize)
    BY <1>3 DEF SleepFull
  <2>2. Len(queue) >= MaxSize /\ queue # <<>>
    BY <2>1 DEF TypeOK
  <2>3. NoLostWakeup'
    BY <2>1, <2>2 DEF Wakeups, NoLostWakeup
  <2>4. LastPushAlone'
    BY <1>1, <2>1 DEF Wakeups, LastPushAlone, LastQueued
  <2> QED BY <2>3, <2>4 DEF Wakeups
<1>4. CASE Enqueue(p)
  <2>1. /\ waiting' = {} /\ pc' = [pc EXCEPT ![p] = "idle"]
        /\ queue' = Append(queue, NewItem(item[p].size, item[p].last))
    BY <1>4 DEF Enqueue
  <2>2. LastQueued' => item[p].last
    <3>1. /\ Len(queue') = Len(queue) + 1 /\ Len(queue) \in Nat
          /\ queue'[Len(queue) + 1].last = item[p].last
          /\ \A i \in 1..Len(queue) : queue'[i] = queue[i]
      BY <2>1 DEF TypeOK, NewItem
    <3> QED BY <1>2, <3>1 DEF LastQueued
  <2>3. \A q \in Producers : pc'[q] = "push" => q # p /\ pc[q] = "push"
    BY <2>1 DEF TypeOK, Threads
  <2>4. item[p].last => \A q \in Producers : pc'[q] # "push"
    BY <1>1, <2>3 DEF Wakeups, LastPushAlone
  <2>5. \A q \in Producers : pc'[q] = "push" /\ item'[q].last =>
          ~LastQueued' /\ \A r \in Producers \ {q} : pc'[r] # "push"
    BY <1>1, <2>2, <2>3, <2>4 DEF Wakeups, LastPushAlone
  <2>6. frames' = 0 =>
          ~LastQueued' /\ \A q \in Producers : pc'[q] = "push" => ~item'[q].last
    BY <1>1, <2>2, <2>3 DEF Wakeups, LastPushAlone
  <2>7. LastPushAlone'
    BY <2>1, <2>2, <2>4, <2>5, <2>6 DEF LastPushAlone
  <2>8. NoLostWakeup'
    BY <2>1 DEF NoLostWakeup
  <2> QED BY <2>7, <2>8 DEF Wakeups
<1> QED BY <1>3, <1>4 DEF Push

LEMMA UseWakes ==
  ASSUME TypeOK, Wakeups, NEW c \in Consumers, Use(c)
  PROVE  Wakeups'
<1>1. /\ queue # <<>> /\ queue \in Seq(ByteItem) /\ pc[c] = "loop"
      /\ UNCHANGED <<item, frames>>
  BY DEF Use, TypeOK
<1>2. LastQueued' => LastQueued
  <2>1. CASE UsePart(c)
    <3>1. /\ Len(queue') = Len(queue) /\ Len(queue) > 0
          /\ queue'[1] = UseBytes(queue[1], CanUse(c))
          /\ \A i \in 2..Len(queue) : queue'[i] = queue[i]
      BY <1>1, <2>1 DEF UsePart
    <3>2. queue[1] \in ByteItem /\ CanUse(c) \in Nat /\ CanUse(c) <= Available(queue[1])
      BY <1>1, TakenType
    <3>3. queue'[1].last = queue[1].last
      BY <3>1, <3>2, UseBytesType
    <3> QED BY <1>1, <3>1, <3>3 DEF LastQueued
  <2>2. CASE UseUp(c) \/ UseLast(c)
    <3>1. queue' = Tail(queue)
      BY <2>2 DEF UseUp, UseLast
    <3>2. /\ Len(queue') = Len(queue) - 1 /\ Len(queue) \in Nat
          /\ \A i \in 1..Len(queue') : queue'[i] = queue[i + 1]
      BY <1>1, <3>1
    <3> QED BY <3>2 DEF LastQueued
  <2> QED BY <2>1, <2>2 DEF Use
<1>3. \A p \in Producers : pc'[p] = "push" <=> pc[p] = "push"
  <2>1. CASE UsePart(c) \/ UseUp(c)
    BY <2>1 DEF UsePart, UseUp
  <2>2. CASE UseLast(c)
    BY <2>2 DEF UseLast, Return, TypeOK, Threads
  <2> QED BY <2>1, <2>2 DEF Use
<1>4. \A t \in waiting' : t \in waiting /\ t # c /\ pc'[t] = pc[t]
  <2>1. c \notin waiting
    BY <1>1 DEF Wakeups, LastPushAlone
  <2>2. CASE UsePart(c) \/ UseUp(c)
    BY <2>1, <2>2 DEF UsePart, UseUp
  <2>3. CASE UseLast(c)
    BY <2>1, <2>3 DEF UseLast, Return, TypeOK, Threads
  <2> QED BY <2>2, <2>3 DEF Use
<1>5. LastPushAlone'
  BY <1>1, <1>2, <1>3, <1>4 DEF Wakeups, LastPushAlone
<1>6. \A t \in waiting' : t \in Producers
  BY <1>1, <1>4 DEF Wakeups, NoLostWakeup, TypeOK, Threads
<1>7. NoLostWakeup'
  <2>1. CASE UsePart(c)
    <3>1. Len(queue') = Len(queue)
      BY <1>1, <2>1 DEF UsePart
    <3> QED BY <1>4, <1>6, <3>1 DEF Wakeups, NoLostWakeup
  <2>2. CASE UseUp(c)
    BY <2>2 DEF UseUp, NoLostWakeup
  <2>3. CASE UseLast(c)
    <3>1. LastQueued
      BY <1>1, <2>3 DEF UseLast, LastQueued
    <3>2. waiting' = {}
      BY <1>4, <1>6, <3>1 DEF Wakeups, LastPushAlone
    <3> QED BY <3>2 DEF NoLostWakeup
  <2> QED BY <2>1, <2>2, <2>3 DEF Use
<1> QED BY <1>5, <1>7 DEF Wakeups

LEMMA QuietWakes ==
  ASSUME TypeOK, Wakeups, NEW c \in Consumers,
         \/ \E size \in PopSizes : PopCall(c, size)
         \/ Lock(c) \/ SleepEmpty(c) \/ Satisfied(c)
  PROVE  Wakeups'
<1>1. UNCHANGED <<queue, item, frames>>
  BY DEF PopCall, Lock, SleepEmpty, Satisfied
<1>2. \A p \in Producers : pc'[p] = pc[p]
  BY DEF PopCall, Lock, SleepEmpty, Satisfied, Return, TypeOK, Threads
<1>3. \A t \in waiting' : \/ t = c /\ queue = <<>> /\ pc'[t] = "lock"
                          \/ t \in waiting /\ pc'[t] = pc[t]
  <2>1. CASE SleepEmpty(c)
    BY <2>1 DEF SleepEmpty, TypeOK, Threads
  <2>2. CASE \/ \E size \in PopSizes : PopCall(c, size)
             \/ Lock(c) \/ Satisfied(c)
    <3>1. UNCHANGED waiting
      BY <2>2 DEF PopCall, Lock, Satisfied
    <3>2. \A t \in Threads \ {c} : pc'[t] = pc[t]
      BY <2>2 DEF PopCall, Lock, Satisfied, Return, TypeOK, Threads
    <3>3. c \notin waiting
      BY <2>2 DEF PopCall, Lock, Satisfied, Wakeups, LastPushAlone
    <3> QED BY <3>1, <3>2, <3>3 DEF TypeOK
  <2> QED BY <2>1, <2>2
<1>4. NoLostWakeup'
  BY <1>1, <1>3 DEF Wakeups, NoLostWakeup
<1>5. \A t \in waiting' : pc'[t] = IF t \in Producers THEN "push" ELSE "lock"
  BY <1>3 DEF Wakeups, LastPushAlone
<1>6. LastQueued' <=> LastQueued
  BY <1>1 DEF LastQueued
<1>7. LastPushAlone'
  BY <1>1, <1>2, <1>5, <1>6 DEF Wakeups, LastPushAlone
<1> QED BY <1>4, <1>7 DEF Wakeups

(* In a stream that carries one session, a producer sleeps only while the    *)
(* queue is full and a consumer only while it is empty.                      *)
THEOREM SessionWakeups ==
  MaxFrames = 1 => (Spec => [](NoLostWakeup /\ LastPushAlone))
<1> SUFFICES ASSUME MaxFrames = 1 PROVE Spec => [](NoLostWakeup /\ LastPushAlone)
  OBVIOUS
<1>1. Init => Wakeups
  BY DEF Init, Wakeups, NoLostWakeup, LastPushAlone, LastQueued, Threads
<1>2. TypeOK /\ Wakeups /\ [Next]_vars => Wakeups'
  <2> SUFFICES ASSUME TypeOK, Wakeups, [Next]_vars PROVE Wakeups'
    OBVIOUS
  <2>1. ASSUME UNCHANGED vars PROVE Wakeups'
    BY <2>1 DEF vars, threadVars, Wakeups, NoLostWakeup, LastPushAlone, LastQueued
  <2>2. ASSUME NEW t \in Threads, SpuriousWakeup(t) PROVE Wakeups'
    BY <2>2 DEF SpuriousWakeup, threadVars, Wakeups, NoLostWakeup, LastPushAlone, LastQueued
  <2>3. CASE \E p \in Producers, size \in PushSizes, last \in BOOLEAN : PushCall(p, size, last)
    BY <2>3, PushCallWakes
  <2>4. CASE \E p \in Producers : Push(p)
    BY <2>4, PushWakes
  <2>5. CASE \E c \in Consumers, size \in PopSizes : PopCall(c, size)
    BY <2>5, QuietWakes
  <2>6. CASE \E c \in Consumers : Lock(c) \/ SleepEmpty(c) \/ Satisfied(c)
    BY <2>6, QuietWakes
  <2>7. CASE \E c \in Consumers : Use(c)
    BY <2>7, UseWakes
  <2>8. CASE Finished
    BY <2>1, <2>8 DEF Finished
  <2> QED BY <2>1, <2>2, <2>3, <2>4, <2>5, <2>6, <2>7, <2>8 DEF Next
<1>3. Wakeups => NoLostWakeup /\ LastPushAlone
  BY DEF Wakeups
<1> QED BY <1>1, <1>2, <1>3, TypeCorrect, PTL DEF Spec

-----------------------------------------------------------------------------
(* With one consumer, what a pop gathers lies in one frame.  The marks of the *)
(* frames are an invariant of the abstract channel, kept by whatever          *)
(* implements it; the rest of the inductive invariant places every pop        *)
(* between the marks: a pop in the loop, or asleep with bytes in hand, has    *)
(* its bytes end at read and begin where the latest closed frame ended or     *)
(* later.                                                                     *)

FrameMarks ==
  /\ closed <= Len(ends)
  /\ read <= written
  /\ \A f \in 1..Len(ends) :
       /\ ends[f] <= written
       /\ f <= closed => ends[f] <= read
       /\ f > closed => read <= ends[f]
  /\ \A f, g \in 1..Len(ends) : f <= g => ends[f] <= ends[g]

(* A pop that has the lock, or sleeps with bytes in hand. *)
Gathering(c) == pc[c] = "loop" \/ (pc[c] = "lock" /\ popped[c] > 0)

PopPlaced ==
  \A c \in Consumers :
    /\ pc[c] # "push"
    /\ Gathering(c) =>
         /\ from[c] + popped[c] = read
         /\ \A f \in 1..closed : ends[f] <= from[c]
    /\ res[c].from + res[c].n <= read
    /\ \A f \in 1..closed : ~(res[c].from < ends[f] /\ ends[f] < res[c].from + res[c].n)
    /\ res[c].n < res[c].req => res[c].last
    /\ res[c].last => \E f \in 1..closed : ends[f] = res[c].from + res[c].n

Placed == FrameMarks /\ PopPlaced

SoleConsumer == \A c, d \in Consumers : c = d

LEMMA PlacedTypes ==
  ASSUME TypeOK, FrameMarks
  PROVE  /\ closed \in Nat /\ Len(ends) \in Nat /\ closed <= Len(ends)
         /\ read \in Nat /\ written \in Nat
         /\ \A f \in 1..Len(ends) : ends[f] \in Nat
         /\ \A c \in Consumers :
              /\ c \in Threads /\ c \in DOMAIN pc /\ c \in DOMAIN res
              /\ popped[c] \in Nat /\ from[c] \in Nat /\ left[c] \in Nat
              /\ res[c].from \in Nat /\ res[c].n \in Nat
<1>1. /\ closed \in Nat /\ read \in Nat /\ written \in Nat /\ ends \in Seq(Nat)
  BY DEF TypeOK
<1>2. ASSUME NEW c \in Consumers
      PROVE  /\ c \in Threads /\ c \in DOMAIN pc /\ c \in DOMAIN res
             /\ popped[c] \in Nat /\ from[c] \in Nat /\ left[c] \in Nat
             /\ res[c].from \in Nat /\ res[c].n \in Nat
  <2>1. res[c] \in [from : Nat, n : Nat, req : Nat, last : BOOLEAN]
    BY DEF TypeOK
  <2> QED BY <2>1 DEF TypeOK, Threads
<1>3. Len(ends) \in Nat /\ \A f \in 1..Len(ends) : ends[f] \in Nat
  BY <1>1
<1> QED BY <1>1, <1>2, <1>3 DEF FrameMarks

LEMMA MarksStep ==
  ASSUME TypeOK, TypeOK', FrameMarks, [Channel!Next]_Channel!chan
  PROVE  FrameMarks'
<1>1. /\ written \in Nat /\ read \in Nat /\ closed \in Nat /\ ends \in Seq(Nat)
      /\ written' \in Nat /\ Len(ends) \in Nat
      /\ \A f \in 1..Len(ends) : ends[f] \in Nat
  BY PlacedTypes DEF TypeOK
<1>2. CASE Channel!Write
  <2>1. written' >= written /\ UNCHANGED <<read, closed>>
    BY <1>2 DEF Channel!Write
  <2>2. CASE ends' = ends
    BY <1>1, <2>1, <2>2 DEF FrameMarks
  <2>3. CASE ends' = Append(ends, written')
    <3>1. /\ Len(ends') = Len(ends) + 1 /\ ends'[Len(ends) + 1] = written'
          /\ \A f \in 1..Len(ends) : ends'[f] = ends[f]
      BY <1>1, <2>3
    <3>2. closed <= Len(ends') /\ read <= written'
      BY <1>1, <2>1, <3>1 DEF FrameMarks
    <3>3. ASSUME NEW f \in 1..Len(ends')
          PROVE  /\ ends'[f] <= written'
                 /\ f <= closed => ends'[f] <= read
                 /\ f > closed => read <= ends'[f]
      <4>1. CASE f = Len(ends) + 1
        BY <1>1, <3>1, <3>2, <4>1 DEF FrameMarks
      <4>2. CASE f \in 1..Len(ends)
        BY <1>1, <2>1, <3>1, <4>2 DEF FrameMarks
      <4> QED BY <1>1, <3>1, <4>1, <4>2
    <3>4. ASSUME NEW f \in 1..Len(ends'), NEW g \in 1..Len(ends'), f <= g
          PROVE  ends'[f] <= ends'[g]
      <4>1. CASE g = Len(ends) + 1
        BY <1>1, <3>1, <3>3, <4>1
      <4>2. CASE g \in 1..Len(ends)
        <5>1. f \in 1..Len(ends)
          BY <1>1, <3>1, <3>4, <4>2
        <5>2. ends[f] <= ends[g]
          BY <3>4, <4>2, <5>1 DEF FrameMarks
        <5> QED BY <3>1, <4>2, <5>1, <5>2
      <4> QED BY <1>1, <3>1, <4>1, <4>2
    <3> QED BY <2>1, <3>2, <3>3, <3>4 DEF FrameMarks
  <2> QED BY <1>2, <2>2, <2>3 DEF Channel!Write
<1>3. CASE Channel!Read
  <2>1. read' \in read..Channel!Limit /\ UNCHANGED <<written, ends, closed>>
    BY <1>3 DEF Channel!Read
  <2>2. Channel!Limit \in Nat /\ Channel!Limit <= written
    BY <1>1 DEF Channel!Limit, FrameMarks
  <2>3. \A f \in 1..Len(ends) : f > closed => Channel!Limit <= ends[f]
    <3> SUFFICES ASSUME NEW f \in 1..Len(ends), f > closed PROVE Channel!Limit <= ends[f]
      OBVIOUS
    <3>1. closed < Len(ends) /\ closed + 1 \in 1..Len(ends) /\ closed + 1 <= f
      BY <1>1
    <3>2. ends[closed + 1] <= ends[f]
      BY <3>1 DEF FrameMarks
    <3> QED BY <3>1, <3>2 DEF Channel!Limit
  <2>4. read' \in Nat /\ read <= read' /\ read' <= Channel!Limit
    BY <1>1, <2>1, <2>2
  <2> HIDE DEF Channel!Limit
  <2>5. closed <= Len(ends) /\ read' <= written
    BY <1>1, <2>2, <2>4 DEF FrameMarks
  <2>6. \A f \in 1..Len(ends) :
         /\ ends[f] <= written
         /\ f <= closed => ends[f] <= read'
         /\ f > closed => read' <= ends[f]
    BY <1>1, <2>2, <2>3, <2>4 DEF FrameMarks
  <2> QED BY <2>1, <2>5, <2>6 DEF FrameMarks
<1>4. CASE Channel!ReadEnd
  <2>1. /\ closed < Len(ends) /\ read' = ends[closed + 1] /\ closed' = closed + 1
        /\ UNCHANGED <<written, ends>>
    BY <1>4 DEF Channel!ReadEnd
  <2>2. closed + 1 \in 1..Len(ends) /\ read' <= written
    BY <1>1, <2>1 DEF FrameMarks
  <2>3. \A f \in 1..Len(ends) :
         /\ ends[f] <= written
         /\ f <= closed + 1 => ends[f] <= read'
         /\ f > closed + 1 => read' <= ends[f]
    BY <1>1, <2>1, <2>2 DEF FrameMarks
  <2> QED BY <1>1, <2>1, <2>2, <2>3 DEF FrameMarks
<1>5. CASE UNCHANGED Channel!chan
  BY <1>5 DEF Channel!chan, FrameMarks
<1> QED BY <1>2, <1>3, <1>4, <1>5 DEF Channel!Next

(* A step that moves no reader and closes no frame; ends may grow. *)
LEMMA StillPlaced ==
  ASSUME TypeOK, FrameMarks, PopPlaced, UNCHANGED <<read, closed, from, popped, res>>,
         \A f \in 1..Len(ends) : ends'[f] = ends[f],
         \A c \in Consumers : pc'[c] = pc[c]
  PROVE  PopPlaced'
<1>1. closed \in Nat /\ Len(ends) \in Nat /\ closed <= Len(ends)
  BY DEF TypeOK, FrameMarks
<1>2. \A f \in 1..closed : ends'[f] = ends[f]
  BY <1>1
<1>3. \A c \in Consumers : Gathering(c)' <=> Gathering(c)
  BY DEF Gathering
<1> QED BY <1>2, <1>3 DEF PopPlaced

(* A pop is called, takes the lock, sleeps, or has all its bytes. *)
LEMMA WaitPlaced ==
  ASSUME TypeOK, FrameMarks, PopPlaced, NEW c \in Consumers,
         \/ \E size \in PopSizes : PopCall(c, size)
         \/ Lock(c) \/ SleepEmpty(c) \/ Satisfied(c)
  PROVE  PopPlaced'
<1>1. UNCHANGED <<read, closed, ends>>
  BY DEF PopCall, Lock, SleepEmpty, Satisfied, history
<1>2. /\ closed \in Nat /\ Len(ends) \in Nat /\ closed <= Len(ends) /\ read \in Nat
      /\ popped[c] \in Nat /\ from[c] \in Nat
      /\ \A f \in 1..Len(ends) : ends[f] \in Nat
      /\ c \in Threads /\ c \in DOMAIN pc /\ c \in DOMAIN res
  BY PlacedTypes
<1>3. ASSUME NEW d \in Consumers, d # c
      PROVE  /\ pc'[d] = pc[d] /\ popped'[d] = popped[d] /\ from'[d] = from[d]
             /\ res'[d] = res[d]
  <2>1. d \in Threads /\ d \in DOMAIN res
    BY PlacedTypes
  <2>2. CASE Satisfied(c)
    BY <1>2, <1>3, <2>1, <2>2 DEF Satisfied, Return
  <2>3. CASE ~Satisfied(c)
    <3>1. UNCHANGED res
      BY <2>3 DEF PopCall, Lock, SleepEmpty
    <3>2. pc'[d] = pc[d]
      BY <1>3, <2>1, <2>3 DEF PopCall, Lock, SleepEmpty, TypeOK
    <3>3. popped'[d] = popped[d] /\ from'[d] = from[d]
      BY <1>3, <2>3 DEF PopCall, Lock, SleepEmpty, TypeOK
    <3> QED BY <3>1, <3>2, <3>3
  <2> QED BY <2>2, <2>3
<1>4. /\ pc'[c] # "push"
      /\ Gathering(c)' =>
           /\ from'[c] + popped'[c] = read
           /\ \A f \in 1..closed : ends[f] <= from'[c]
  <2>1. CASE \E size \in PopSizes : PopCall(c, size)
    BY <1>2, <2>1 DEF PopCall, Gathering, TypeOK
  <2>2. CASE Lock(c)
    <3>1. /\ pc[c] = "lock" /\ pc'[c] = "loop" /\ popped' = popped
          /\ from'[c] = IF popped[c] = 0 THEN read ELSE from[c]
      BY <1>2, <2>2 DEF Lock, TypeOK
    <3>2. CASE popped[c] = 0
      BY <1>2, <3>1, <3>2 DEF FrameMarks
    <3>3. CASE popped[c] # 0
      BY <1>2, <3>1, <3>3 DEF PopPlaced, Gathering
    <3> QED BY <3>2, <3>3
  <2>3. CASE SleepEmpty(c)
    BY <1>2, <2>3 DEF SleepEmpty, PopPlaced, Gathering
  <2>4. CASE Satisfied(c)
    BY <1>2, <2>4 DEF Satisfied, Return, Gathering
  <2> QED BY <2>1, <2>2, <2>3, <2>4
<1>5. /\ res'[c].from + res'[c].n <= read
      /\ \A f \in 1..closed :
           ~(res'[c].from < ends[f] /\ ends[f] < res'[c].from + res'[c].n)
      /\ res'[c].n < res'[c].req => res'[c].last
      /\ res'[c].last => \E f \in 1..closed : ends[f] = res'[c].from + res'[c].n
  <2>1. CASE Satisfied(c)
    <3>1. /\ res'[c].from = from[c] /\ res'[c].n = popped[c] /\ res'[c].req = popped[c]
          /\ res'[c].last = FALSE /\ pc[c] = "loop"
      BY <1>2, <2>1 DEF Satisfied, Return
    <3>2. from[c] + popped[c] = read /\ \A f \in 1..closed : ends[f] <= from[c]
      BY <3>1 DEF PopPlaced, Gathering
    <3>3. \A f \in 1..closed : ends[f] \in Nat
      BY <1>2
    <3> QED BY <1>2, <3>1, <3>2, <3>3
  <2>2. CASE ~Satisfied(c)
    <3>1. res' = res
      BY <2>2 DEF PopCall, Lock, SleepEmpty
    <3> QED BY <3>1 DEF PopPlaced
  <2> QED BY <2>1, <2>2
<1>6. ASSUME NEW d \in Consumers
      PROVE  /\ pc'[d] # "push"
             /\ Gathering(d)' =>
                  /\ from'[d] + popped'[d] = read
                  /\ \A f \in 1..closed : ends[f] <= from'[d]
             /\ res'[d].from + res'[d].n <= read
             /\ \A f \in 1..closed :
                  ~(res'[d].from < ends[f] /\ ends[f] < res'[d].from + res'[d].n)
             /\ res'[d].n < res'[d].req => res'[d].last
             /\ res'[d].last => \E f \in 1..closed : ends[f] = res'[d].from + res'[d].n
  <2>1. CASE d = c
    BY <1>4, <1>5, <2>1
  <2>2. CASE d # c
    BY <1>3, <2>2 DEF PopPlaced, Gathering
  <2> QED BY <2>1, <2>2
<1> QED BY <1>1, <1>6 DEF PopPlaced

(* One iteration of the loop, by the only consumer. *)
LEMMA UsePlaced ==
  ASSUME SoleConsumer, TypeOK, Books, FrameMarks, PopPlaced, NEW c \in Consumers, Use(c)
  PROVE  PopPlaced'
<1> DEFINE n == CanUse(c)
<1>1. /\ queue # <<>> /\ pc[c] = "loop" /\ read' = read + n
      /\ UNCHANGED <<ends, from>>
      /\ popped'[c] = popped[c] + n
  BY DEF Use, TypeOK
<1>2. n \in Nat /\ n <= left[c] /\ Available(Head(queue)) = ItemEnd(1) - read
      /\ Head(queue) = queue[1]
  BY <1>1, TakenType, FrontFacts
<1>3. /\ closed \in Nat /\ Len(ends) \in Nat /\ closed <= Len(ends) /\ read \in Nat
      /\ popped[c] \in Nat /\ from[c] \in Nat /\ left[c] \in Nat
      /\ \A f \in 1..Len(ends) : ends[f] \in Nat
      /\ c \in Threads /\ c \in DOMAIN pc /\ c \in DOMAIN res
  BY PlacedTypes
<1>4. from[c] + popped[c] = read /\ \A f \in 1..closed : ends[f] <= from[c]
  BY <1>1 DEF PopPlaced, Gathering
<1>5. from[c] + popped'[c] = read'
  BY <1>1, <1>2, <1>3, <1>4
<1>6. CASE UsePart(c) \/ UseUp(c)
  <2>1. UNCHANGED <<pc, res, closed>>
    BY <1>6 DEF UsePart, UseUp
  <2>2. /\ res[c].from \in Nat /\ res[c].n \in Nat /\ res[c].from + res[c].n <= read
    BY PlacedTypes DEF PopPlaced
  <2>3. res[c].from + res[c].n <= read'
    BY <1>1, <1>2, <1>3, <2>2
  <2>4. \A d \in Consumers : d = c
    BY DEF SoleConsumer
  <2> QED BY <1>1, <1>4, <1>5, <2>1, <2>3, <2>4 DEF PopPlaced
<1>7. CASE UseLast(c)
  <2>1. /\ n = ItemEnd(1) - read /\ queue[1].last /\ closed' = closed + 1
        /\ pc'[c] = "idle"
        /\ res'[c] = [from |-> from[c], n |-> popped[c] + n, req |-> popped[c] + left[c],
                      last |-> TRUE]
    BY <1>2, <1>3, <1>7 DEF UseLast, Return
  <2>2. 1 \in 1..Len(queue) /\ queue[1].at \in Nat /\ queue[1].size \in Nat
    BY <1>1, FrontFacts
  <2>3. closed + 1 <= Len(ends) /\ ends[closed + 1] = ItemEnd(1)
    BY <1>1, <2>1, <2>2 DEF Books, FrameOrder
  <2>4. ItemEnd(1) \in Nat
    BY <2>2 DEF ItemEnd
  <2>5. read' = ends'[closed'] /\ closed' \in 1..Len(ends)
    BY <1>1, <1>2, <1>3, <2>1, <2>3, <2>4
  <2>6. /\ res'[c].from = from[c] /\ res'[c].n = popped[c] + n
        /\ res'[c].from + res'[c].n = read' /\ res'[c].last
    BY <1>1, <1>2, <1>3, <1>5, <2>1
  <2>7. \A f \in 1..closed' : ends'[f] <= from[c] \/ ends'[f] = read'
    BY <1>1, <1>3, <1>4, <2>1, <2>5
  <2>8. read' \in Nat /\ \A f \in 1..closed' : ends'[f] \in Nat
    BY <1>1, <1>2, <1>3, <2>1, <2>3
  <2>9. \A f \in 1..closed' : ~(from[c] < ends'[f] /\ ends'[f] < read')
    BY <1>3, <2>7, <2>8
  <2>10. \E f \in 1..closed' : ends'[f] = read'
    BY <1>3, <2>1, <2>5
  <2>11. \A d \in Consumers : d = c
    BY DEF SoleConsumer
  <2>12. ~Gathering(c)'
    BY <2>1 DEF Gathering
  <2> QED BY <2>1, <2>6, <2>8, <2>9, <2>10, <2>11, <2>12 DEF PopPlaced
<1> QED BY <1>6, <1>7 DEF Use

LEMMA PlacedStep ==
  ASSUME SoleConsumer, TypeOK, TypeOK', Books, Placed, [Next]_vars
  PROVE  Placed'
<1> USE DEF Placed
<1>1. FrameMarks'
  BY StepRefines, MarksStep
<1>2. PopPlaced'
  <2>1. ASSUME NEW p \in Producers, NEW size \in PushSizes, NEW last \in BOOLEAN,
               PushCall(p, size, last)
        PROVE  PopPlaced'
    <3>1. \A c \in Consumers : pc'[c] = pc[c]
      BY <2>1 DEF PushCall, TypeOK, Threads
    <3> QED BY <2>1, <3>1, StillPlaced DEF PushCall, history
  <2>2. ASSUME NEW p \in Producers, Push(p)
        PROVE  PopPlaced'
    <3>1. UNCHANGED <<read, closed, from, popped, res>>
      BY <2>2 DEF Push
    <3>2. \A c \in Consumers : pc'[c] = pc[c]
      BY <2>2 DEF Push, Enqueue, SleepFull, TypeOK, Threads
    <3>3. \A f \in 1..Len(ends) : ends'[f] = ends[f]
      <4>1. ends \in Seq(Nat) /\ written' \in Nat
        BY DEF TypeOK
      <4>2. ends' = ends \/ ends' = Append(ends, written')
        BY <2>2 DEF Push, Enqueue, SleepFull
      <4> QED BY <4>1, <4>2
    <3> QED BY <3>1, <3>2, <3>3, StillPlaced
  <2>3. ASSUME NEW c \in Consumers,
               \/ \E size \in PopSizes : PopCall(c, size)
               \/ Lock(c) \/ SleepEmpty(c) \/ Satisfied(c)
        PROVE  PopPlaced'
    BY <2>3, WaitPlaced
  <2>4. ASSUME NEW c \in Consumers, Use(c)
        PROVE  PopPlaced'
    BY <2>4, UsePlaced
  <2>5. ASSUME NEW t \in Threads, SpuriousWakeup(t)
        PROVE  PopPlaced'
    BY <2>5, StillPlaced DEF SpuriousWakeup, threadVars, history
  <2>6. CASE UNCHANGED vars
    BY <2>6, StillPlaced DEF vars, threadVars, history
  <2>7. CASE Finished
    BY <2>6, <2>7 DEF Finished
  <2> QED BY <2>1, <2>2, <2>3, <2>4, <2>5, <2>6, <2>7 DEF Next
<1> QED BY <1>1, <1>2

(* Every pop is placed within its frame. *)
LEMMA PlacedWithin ==
  ASSUME TypeOK, Placed
  PROVE  PopWithinFrame
<1> USE DEF Placed
<1>1. /\ closed \in Nat /\ Len(ends) \in Nat /\ closed <= Len(ends) /\ read \in Nat
      /\ DOMAIN ends = 1..Len(ends)
      /\ \A f \in 1..Len(ends) : ends[f] \in Nat
  BY SMTT(30) DEF TypeOK, FrameMarks
<1> SUFFICES ASSUME NEW c \in Consumers
             PROVE  /\ \A f \in 1..Len(ends) :
                       /\ ~(res[c].from < ends[f] /\ ends[f] < res[c].from + res[c].n)
                       /\ pc[c] # "idle" =>
                            ~(from[c] < ends[f] /\ ends[f] < from[c] + popped[c])
                    /\ res[c].n < res[c].req => res[c].last
                    /\ res[c].last => \E f \in 1..closed : ends[f] = res[c].from + res[c].n
  BY <1>1 DEF PopWithinFrame
<1>2. /\ res[c].from \in Nat /\ res[c].n \in Nat /\ from[c] \in Nat /\ popped[c] \in Nat
      /\ pc[c] \in {"idle", "push", "lock", "loop"}
  BY DEF TypeOK, Threads
<1>3. ASSUME NEW f \in 1..Len(ends)
      PROVE  ~(res[c].from < ends[f] /\ ends[f] < res[c].from + res[c].n)
  <2>1. CASE f <= closed
    BY <1>1, <2>1 DEF PopPlaced
  <2>2. CASE f > closed
    <3>1. res[c].from + res[c].n <= read /\ read <= ends[f]
      BY <2>2 DEF PopPlaced, FrameMarks
    <3> QED BY <1>1, <1>2, <3>1
  <2> QED BY <1>1, <2>1, <2>2
<1>4. ASSUME NEW f \in 1..Len(ends), pc[c] # "idle"
      PROVE  ~(from[c] < ends[f] /\ ends[f] < from[c] + popped[c])
  <2>1. CASE Gathering(c)
    <3>1. from[c] + popped[c] = read /\ \A g \in 1..closed : ends[g] <= from[c]
      BY <2>1 DEF PopPlaced
    <3>2. f > closed => read <= ends[f]
      BY DEF FrameMarks
    <3> QED BY <1>1, <1>2, <3>1, <3>2
  <2>2. CASE ~Gathering(c)
    <3>1. popped[c] = 0
      BY <1>2, <1>4, <2>2 DEF Gathering, PopPlaced
    <3> QED BY <1>1, <1>2, <3>1
  <2> QED BY <2>1, <2>2
<1>5. /\ res[c].n < res[c].req => res[c].last
      /\ res[c].last => \E f \in 1..closed : ends[f] = res[c].from + res[c].n
  BY DEF PopPlaced
<1> QED BY <1>3, <1>4, <1>5

(* A pop by the only consumer of a stream never crosses the end of a frame,  *)
(* returns short only there, and says so exactly there.  With two consumers   *)
(* a pop that slept with bytes in hand goes on behind the other's.            *)
THEOREM PopStaysInFrame ==
  SoleConsumer => (Spec => []PopWithinFrame)
<1> SUFFICES ASSUME SoleConsumer PROVE Spec => []PopWithinFrame
  OBVIOUS
<1>1. Init => Placed
  BY DEF Init, Placed, FrameMarks, PopPlaced, Gathering, Threads
<1>2. TypeOK /\ TypeOK' /\ Lossless /\ FrameOrder /\ Placed /\ [Next]_vars => Placed'
  BY PlacedStep DEF Books
<1>3. TypeOK /\ Placed => PopWithinFrame
  BY PlacedWithin
<1> QED BY <1>1, <1>2, <1>3, TypeCorrect, LosslessCorrect, PTL DEF Spec
=============================================================================
