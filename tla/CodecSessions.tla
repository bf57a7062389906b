--------------------------- MODULE CodecSessions ---------------------------
(***************************************************************************)
(* The session API of one codec library (application/data_compression/src/ *)
(* LibLz4, LibSnappy, LibZstd, LibGzip, LibZlib): push and pop functions    *)
(* over a workshop that a processing thread creates behind namespace-level  *)
(* pointers.  An application runs its sessions one after another; within    *)
(* one session an input thread pushes every chunk, an output thread pops    *)
(* until last, the processing thread builds the workshop and waits for it,  *)
(* and the workshop's own thread works.                                     *)
(*                                                                          *)
(* The workshop and the processing thread made in session s are both named  *)
(* s.  A stream holds whole items here: ByteStream shows that it keeps them *)
(* in order.  received is history.                                          *)
(***************************************************************************)
EXTENDS Integers, Sequences

CONSTANTS
  Sessions,  (* what each session does: a sequence of "compress", "decompress" *)
  Chunks,    (* push calls of a session                                      *)
  InDepth,   (* capacity of a workshop's input stream                        *)
  OutDepth   (* capacity of a workshop's output stream                       *)

(* The drivers compress at most once per process: nothing resets            *)
(* compressionWorkShop, so a second compression would find the first one's. *)
ASSUME SessionsAssumption ==
  /\ Sessions \in Seq({"compress", "decompress"})
  /\ \A s, t \in 1..Len(Sessions) :
       Sessions[s] = "compress" /\ Sessions[t] = "compress" => s = t
  /\ Chunks \in Nat \ {0}
  /\ InDepth \in Nat \ {0}
  /\ OutDepth \in Nat \ {0}

Null == 0
Ids == 1..Len(Sessions)

VARIABLES
  kind,                   (* the library: "deflate" (gzip, zlib), "lz4" or   *)
                          (* "plain" (snappy, zstd); it does not change      *)
  cur,                    (* the session that is running                     *)
  compressionWorkShop,    (* the two workshop pointers: a name or Null       *)
  decompressionWorkshop,
  processingThread,       (* the processing thread's pointer                 *)
  shop,                   (* shop[s]: "unborn", "live" or "deleted"          *)
  input, output,          (* the streams of each workshop                    *)
  checksum,               (* chunks covered by each workshop's checksum      *)
  worker,                 (* where each workshop's thread is                 *)
  held,                   (* the item each workshop's thread works on        *)
  handler,                (* where each processing thread is                 *)
  pusher, pushed,         (* the input thread: where, and chunks pushed      *)
  popper,                 (* where the output thread is                      *)
  received                (* received[s]: what session s's pops returned     *)

pointers == <<compressionWorkShop, decompressionWorkshop, processingThread>>
shops == <<shop, input, output, checksum, worker, held>>
callers == <<cur, pusher, pushed, popper, received>>
vars == <<kind, pointers, shops, callers, handler>>

Dir == Sessions[cur]

(* The workshop that the functions of the session's direction go to. *)
Workshop == IF Dir = "compress" THEN compressionWorkShop ELSE decompressionWorkshop

(* Streams that the worker ends with an item of its own: the empty deflate  *)
(* block, and lz4's dummy byte.                                             *)
Terminated(s) ==
  \/ kind = "deflate" /\ Sessions[s] = "compress"
  \/ kind = "lz4" /\ Sessions[s] = "decompress"

(* An item of a stream; the worker's own, and its mutated form. *)
Item == [k : 0..(Chunks + 1), last : BOOLEAN]
TerminatorNotLast == [k |-> Chunks + 1, last |-> FALSE]
Terminator == [k |-> Chunks + 1, last |-> TRUE]

Init ==
  /\ kind \in {"deflate", "lz4", "plain"}
  /\ cur = 1
  /\ compressionWorkShop = Null /\ decompressionWorkshop = Null /\ processingThread = Null
  /\ shop = [s \in Ids |-> "unborn"]
  /\ input = [s \in Ids |-> <<>>]
  /\ output = [s \in Ids |-> <<>>]
  /\ checksum = [s \in Ids |-> 0]
  /\ worker = [s \in Ids |-> "unborn"]
  /\ held = [s \in Ids |-> [k |-> 0, last |-> FALSE]]
  /\ handler = [s \in Ids |-> "none"]
  /\ pusher = "call" /\ pushed = 0
  /\ popper = "spin"
  /\ received = [s \in Ids |-> <<>>]

-----------------------------------------------------------------------------
(* The input thread *)

(* push with first = TRUE starts the processing thread, which runs at once. *)
StartSession ==
  /\ cur \in Ids
  /\ pusher = "call" /\ pushed = 0
  /\ handler' = [handler EXCEPT ![cur] = "construct"]
  /\ pusher' = "assign"
  /\ UNCHANGED <<kind, pointers, shops, cur, pushed, popper, received>>

(* Only then is its pointer assigned; mutated, unless it points somewhere. *)
AssignIfNone ==
  /\ pusher = "assign"
  /\ processingThread' = IF processingThread = Null THEN cur ELSE processingThread
  /\ pusher' = "spin"
  /\ UNCHANGED <<kind, compressionWorkShop, decompressionWorkshop, shops, handler, cur, pushed, popper, received>>
AssignThread ==
  /\ pusher = "assign"
  /\ processingThread' = cur
  /\ pusher' = "spin"
  /\ UNCHANGED <<kind, compressionWorkShop, decompressionWorkshop, shops, handler, cur, pushed, popper, received>>

(* push with first = FALSE. *)
PushAgain ==
  /\ pusher = "call" /\ pushed > 0
  /\ pusher' = "spin"
  /\ UNCHANGED <<kind, pointers, shops, handler, cur, pushed, popper, received>>

(* The busy wait of push ends. *)
PushSpin ==
  /\ pusher = "spin" /\ Workshop # Null
  /\ pusher' = "push"
  /\ UNCHANGED <<kind, pointers, shops, handler, cur, pushed, popper, received>>

(* getInputStream().push(src, size, last), in the driver's loop over its    *)
(* file; mutated, the loop runs once too often.                              *)
PushPastEnd ==
  /\ pusher = "push"
  /\ Len(input[Workshop]) < InDepth
  /\ input' = [input EXCEPT ![Workshop] =
                 Append(@, [k |-> pushed + 1, last |-> pushed + 1 = Chunks])]
  /\ pushed' = pushed + 1
  /\ pusher' = IF pushed = Chunks THEN "done" ELSE "call"
  /\ UNCHANGED <<kind, pointers, shop, output, checksum, worker, held, handler, cur, popper, received>>
Push ==
  /\ pusher = "push"
  /\ Len(input[Workshop]) < InDepth
  /\ input' = [input EXCEPT ![Workshop] =
                 Append(@, [k |-> pushed + 1, last |-> pushed + 1 = Chunks])]
  /\ pushed' = pushed + 1
  /\ pusher' = IF pushed + 1 = Chunks THEN "done" ELSE "call"
  /\ UNCHANGED <<kind, pointers, shop, output, checksum, worker, held, handler, cur, popper, received>>

-----------------------------------------------------------------------------
(* The output thread *)

(* The busy wait of pop ends. *)
PopSpin ==
  /\ cur \in Ids
  /\ popper = "spin" /\ Workshop # Null
  /\ popper' = "pop"
  /\ UNCHANGED <<kind, pointers, shops, handler, cur, pusher, pushed, received>>

(* ret-- in popLz4Decompression: the byte that ends the stream is dropped. *)
KeepDummyByte(item) == <<item.k>>
WithoutDummy(item) ==
  IF kind = "lz4" /\ Dir = "decompress" /\ item.last THEN <<>> ELSE <<item.k>>

(* getOutputStream().pop(dest, size, last): unless last, pop returns. *)
Pop ==
  /\ popper = "pop"
  /\ output[Workshop] # <<>>
  /\ received' = [received EXCEPT ![cur] = @ \o WithoutDummy(Head(output[Workshop]))]
  /\ popper' = IF Head(output[Workshop]).last THEN "join" ELSE "spin"
  /\ output' = [output EXCEPT ![Workshop] = Tail(@)]
  /\ UNCHANGED <<kind, pointers, shop, input, checksum, worker, held, handler, cur, pusher, pushed>>

(* processingThread->join(); mutated, pop does not join. *)
NoJoin ==
  /\ popper = "join"
  /\ popper' = IF kind = "deflate" /\ Dir = "compress" THEN "done" ELSE "delete"
  /\ UNCHANGED <<kind, pointers, shops, handler, cur, pusher, pushed, received>>
Join ==
  /\ popper = "join"
  /\ handler[processingThread] = "end"
  /\ handler' = [handler EXCEPT ![processingThread] = "joined"]
  /\ popper' = IF kind = "deflate" /\ Dir = "compress" THEN "done" ELSE "delete"
  /\ UNCHANGED <<kind, pointers, shops, cur, pusher, pushed, received>>

(* delete decompressionWorkshop, whatever the session's direction. *)
DeleteWorkshop ==
  /\ popper = "delete"
  /\ shop' = [s \in Ids |-> IF s = decompressionWorkshop THEN "deleted" ELSE shop[s]]
  /\ popper' = "clear"
  /\ UNCHANGED <<kind, pointers, input, output, checksum, worker, held, handler, cur, pusher, pushed, received>>

(* The pointers are cleared and pop returns; mutated, only the thread's is. *)
ClearThreadOnly ==
  /\ popper = "clear"
  /\ processingThread' = Null
  /\ popper' = "done"
  /\ UNCHANGED <<kind, compressionWorkShop, decompressionWorkshop, shops, handler, cur, pusher, pushed, received>>
ClearPointers ==
  /\ popper = "clear"
  /\ decompressionWorkshop' = Null
  /\ processingThread' = Null
  /\ popper' = "done"
  /\ UNCHANGED <<kind, compressionWorkShop, shops, handler, cur, pusher, pushed, received>>

(* The application joins both threads and starts its next session. *)
NextSession ==
  /\ pusher = "done" /\ popper = "done"
  /\ cur' = cur + 1
  /\ pusher' = "call" /\ pushed' = 0
  /\ popper' = "spin"
  /\ UNCHANGED <<kind, pointers, shops, handler, received>>

-----------------------------------------------------------------------------
(* The processing thread of session s *)

(* new ...Workshop: the constructor starts the workshop's thread. *)
Construct(s) ==
  /\ handler[s] = "construct"
  /\ shop' = [shop EXCEPT ![s] = "live"]
  /\ worker' = [worker EXCEPT ![s] = "pop"]
  /\ handler' = [handler EXCEPT ![s] = "publish"]
  /\ UNCHANGED <<kind, pointers, input, output, checksum, held, callers>>

(* The pointer is assigned. *)
Publish(s) ==
  /\ handler[s] = "publish"
  /\ IF Sessions[s] = "compress"
       THEN /\ compressionWorkShop' = s
            /\ UNCHANGED decompressionWorkshop
       ELSE /\ decompressionWorkshop' = s
            /\ UNCHANGED compressionWorkShop
  /\ handler' = [handler EXCEPT ![s] = "wait"]
  /\ UNCHANGED <<kind, processingThread, shops, callers>>

(* Workshop::wait joins the workshop's thread. *)
Wait(s) ==
  /\ handler[s] = "wait" /\ worker[s] = "end"
  /\ worker' = [worker EXCEPT ![s] = "joined"]
  /\ handler' = [handler EXCEPT ![s] =
                   IF kind = "deflate" /\ Sessions[s] = "compress" THEN "flush" ELSE "end"]
  /\ UNCHANGED <<kind, pointers, shop, input, output, checksum, held, callers>>

(* GzipZlibCompressWorkshop::wait adds the last block header a second time. *)
Flush(s) ==
  /\ handler[s] = "flush"
  /\ Len(output[s]) < OutDepth
  /\ output' = [output EXCEPT ![s] = Append(@, Terminator)]
  /\ handler' = [handler EXCEPT ![s] = "end"]
  /\ UNCHANGED <<kind, pointers, shop, input, checksum, worker, held, callers>>

-----------------------------------------------------------------------------
(* The workshop's own thread *)

WorkPop(s) ==
  /\ worker[s] = "pop"
  /\ input[s] # <<>>
  /\ held' = [held EXCEPT ![s] = Head(input[s])]
  /\ input' = [input EXCEPT ![s] = Tail(@)]
  /\ worker' = [worker EXCEPT ![s] = "push"]
  /\ UNCHANGED <<kind, pointers, shop, output, checksum, handler, callers>>

(* The result is pushed; last only if no terminator follows. *)
Result(s) == [k |-> held[s].k, last |-> held[s].last /\ ~Terminated(s)]
WorkPush(s) ==
  /\ worker[s] = "push"
  /\ Len(output[s]) < OutDepth
  /\ output' = [output EXCEPT ![s] = Append(@, Result(s))]
  /\ worker' = [worker EXCEPT ![s] =
                  IF ~held[s].last THEN "pop"
                  ELSE IF Terminated(s) THEN "terminate" ELSE "end"]
  /\ UNCHANGED <<kind, pointers, shop, input, checksum, held, handler, callers>>

WorkTerminate(s) ==
  /\ worker[s] = "terminate"
  /\ Len(output[s]) < OutDepth
  /\ output' = [output EXCEPT ![s] = Append(@, Terminator)]
  /\ worker' = [worker EXCEPT ![s] = IF kind = "deflate" THEN "checksum" ELSE "end"]
  /\ UNCHANGED <<kind, pointers, shop, input, checksum, held, handler, callers>>

(* processContinuous leaves the checksum for the footer. *)
WorkChecksum(s) ==
  /\ worker[s] = "checksum"
  /\ checksum' = [checksum EXCEPT ![s] = held[s].k]
  /\ worker' = [worker EXCEPT ![s] = "end"]
  /\ UNCHANGED <<kind, pointers, shop, input, output, held, handler, callers>>

-----------------------------------------------------------------------------
Finished ==
  /\ cur > Len(Sessions)
  /\ UNCHANGED vars

InputThread == StartSession \/ AssignThread \/ PushAgain \/ PushSpin \/ Push
OutputThread == PopSpin \/ Pop \/ Join \/ DeleteWorkshop \/ ClearPointers
ProcessingThread(s) == Construct(s) \/ Publish(s) \/ Wait(s) \/ Flush(s)
WorkshopThread(s) == WorkPop(s) \/ WorkPush(s) \/ WorkTerminate(s) \/ WorkChecksum(s)

Next ==
  \/ InputThread
  \/ OutputThread
  \/ NextSession
  \/ \E s \in Ids : ProcessingThread(s) \/ WorkshopThread(s)
  \/ Finished

Spec == Init /\ [][Next]_vars

(* The scheduler runs every thread that is not blocked.  The pointers are   *)
(* plain variables; the host is built with -g and no optimisation, so that  *)
(* a busy wait reads them again each time.                                  *)
FairSpec ==
  /\ Spec
  /\ WF_vars(InputThread)
  /\ WF_vars(OutputThread)
  /\ WF_vars(NextSession)
  /\ \A s \in Ids : /\ WF_vars(ProcessingThread(s))
                    /\ WF_vars(WorkshopThread(s))

-----------------------------------------------------------------------------
(* Properties *)

TypeOK ==
  /\ kind \in {"deflate", "lz4", "plain"}
  /\ cur \in 1..(Len(Sessions) + 1)
  /\ compressionWorkShop \in Ids \cup {Null}
  /\ decompressionWorkshop \in Ids \cup {Null}
  /\ processingThread \in Ids \cup {Null}
  /\ shop \in [Ids -> {"unborn", "live", "deleted"}]
  /\ input \in [Ids -> Seq(Item)]
  /\ output \in [Ids -> Seq(Item)]
  /\ checksum \in [Ids -> 0..(Chunks + 1)]
  /\ worker \in [Ids -> {"unborn", "pop", "push", "terminate", "checksum", "end", "joined"}]
  /\ held \in [Ids -> Item]
  /\ handler \in [Ids -> {"none", "construct", "publish", "wait", "flush", "end", "joined"}]
  /\ pusher \in {"call", "assign", "spin", "push", "done"}
  /\ pushed \in 0..Chunks
  /\ popper \in {"spin", "pop", "join", "delete", "clear", "done"}
  /\ received \in [Ids -> Seq(0..(Chunks + 1))]

(* A caller past its busy wait goes to the live workshop of its own session, *)
(* never to one of an earlier session nor to one already deleted.            *)
OwnWorkshop ==
  /\ pusher = "push" => Workshop = cur /\ shop[cur] = "live"
  /\ popper = "pop" => Workshop = cur /\ shop[cur] = "live"

(* A workshop is deleted only after its own thread and the processing       *)
(* thread that waits on it have been joined, and never with a call inside.  *)
DeletedAtRest ==
  \A s \in Ids : shop[s] = "deleted" =>
    /\ worker[s] = "joined" /\ handler[s] = "joined"
    /\ s = cur => pusher = "done"

(* The join in pop is of this session's thread, which has not been joined.  *)
JoinsOwnThread ==
  popper = "join" => processingThread = cur /\ handler[cur] # "joined"

(* When a session is over its output has been popped in full and in order:  *)
(* every chunk, and the empty deflate block of a compression once, although *)
(* the workshop pushes it twice, and never lz4's dummy byte.                *)
Expected(s) ==
  [k \in 1..(Chunks + IF kind = "deflate" /\ Sessions[s] = "compress" THEN 1 ELSE 0) |-> k]
Delivered ==
  \A s \in Ids : s < cur => received[s] = Expected(s)

(* Once pop has joined the session, the checksum that processContinuous     *)
(* leaves covers all the chunks: zlib's footer reads it (gzip's writes 0).   *)
ChecksumReady ==
  popper = "done" /\ kind = "deflate" /\ Dir = "compress" => checksum[cur] = Chunks

(* Every session ends. *)
AllSessionsEnd == <>(cur > Len(Sessions))
=============================================================================
