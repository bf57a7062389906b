------------------------------ MODULE AesChain ------------------------------
(***************************************************************************)
(* The AES functions (application/security/src/LibAes.cpp) and the switching   *)
(* of the device between libraries that every use of a kernel begins with       *)
(* (Application::getProgram, host/common).  A message is processed in several   *)
(* calls: the first one is given an iv, the later ones go on from the global    *)
(* IV, which the calls of all modes and threads share.                          *)
(*                                                                          *)
(* There are three clients: one encrypts a message, one decrypts what the       *)
(* first has made, in calls of other sizes maybe, and another one encrypts       *)
(* something else meanwhile.                                                   *)
(*                                                                          *)
(* A block is the set of the terms whose exclusive or it is.  The term           *)
(* <<"E", x>> is what the block cipher makes of x.  A register has bits, or,      *)
(* for CTR, a count of two words.                                              *)
(***************************************************************************)
EXTENDS Integers, Sequences, FiniteSets, Functions

CONSTANTS
  Blocks,     (* bound: the blocks of the message                            *)
  Others,     (* bound: the blocks of the other one                          *)
  Word,       (* the values of half a counter, 2^64 in the code              *)
  FirstCount  (* the counter that CTR begins with                            *)

ASSUME AesAssumption ==
  /\ Blocks \in Nat \ {0} /\ Others \in Nat \ {0}
  /\ Word \in Nat \ {0} /\ FirstCount \in 0..(Word * Word - 1)

Modes == {"Cbc", "Cfb8", "Cfb128", "Ofb", "Ecb", "Ctr"}  (* Cfb1 is like Cfb8 *)
Clients == {"enc", "dec", "other"}
Type(s) == IF s = "dec" THEN "DEC" ELSE "ENC"
NoOne == "no one"

VARIABLES
  mode, inPlace,     (* of each client; they do not change                   *)
  m_lib, mtx,        (* Application: the library loaded, the mutex's owner   *)
  program,           (* what each client's reference to the program is worth *)
  IV,                (* the global register                                  *)
  stage,             (* where each client is                                 *)
  calls,             (* the sizes of its calls, in blocks                    *)
  dest,              (* what it has got                                      *)
  disturbed          (* history: clients that another one's call fell between *)

config == <<mode, inPlace>>
device == <<m_lib, mtx, program>>
message == <<IV, dest, disturbed>>
aesVars == <<config, device, message, stage, calls>>

-----------------------------------------------------------------------------
(* The kernels *)

Xor(x, y) == (x \ y) \cup (y \ x)
Enc(x) == {<<"E", x>>}
Dec(y) == IF \E x \in {term[2] : term \in {t \in y : t[1] = "E"}} : y = Enc(x)
        THEN (CHOOSE term \in y : TRUE)[2] ELSE {<<"D", y>>}

(* Eight bits at a time: what becomes of a block depends on the register too. *)
E8(x, r) == {<<"E8", <<x, r>>>>}
D8(y, r) ==
  IF Cardinality(y) = 1 /\ \A term \in y : term[1] = "E8" /\ term[2][2] = r
  THEN (CHOOSE term \in y : TRUE)[2][1] ELSE {<<"D8", <<y, r>>>>}

Register(bits) == [bits |-> bits, count |-> 0]
Cipher(m, type, r, x) ==
  CASE m = "Cbc" -> IF type = "ENC" THEN Enc(Xor(x, r.bits)) ELSE Xor(Dec(x), r.bits)
    [] m = "Cfb8" -> IF type = "ENC" THEN E8(x, r.bits) ELSE D8(x, r.bits)
    [] m \in {"Cfb128", "Ofb"} -> Xor(x, Enc(r.bits))
    [] m = "Ecb" -> IF type = "ENC" THEN Enc(x) ELSE Dec(x)
    [] m = "Ctr" -> Xor(x, Enc({<<"counter", r.count>>} \cup r.bits))
NextRegister(m, type, r, x) ==
  CASE m = "Ofb" -> Register(Enc(r.bits))
    [] m = "Ctr" -> [r EXCEPT !.count = (@ + 1) % (Word * Word)]
    [] OTHER -> Register(IF type = "ENC" THEN Cipher(m, type, r, x) ELSE x)

(* A kernel's work on a sequence of blocks. *)
Kernel(m, type, iv, in) ==
  LET reg[i \in 0..Len(in)] ==
        IF i = 0 THEN iv ELSE NextRegister(m, type, reg[i - 1], in[i])
  IN [i \in 1..Len(in) |-> Cipher(m, type, reg[i - 1], in[i])]

-----------------------------------------------------------------------------
Total(s) == IF s = "other" THEN Others ELSE Blocks
Plain(s) == [i \in 1..Total(s) |-> {<<IF s = "other" THEN "q" ELSE "p", i>>}]
iv(s) ==
  IF mode[s] = "Ctr" THEN [bits |-> {}, count |-> FirstCount]
  ELSE Register({<<IF s = "other" THEN "jv" ELSE "iv", 0>>})
src(s) == IF s = "dec" THEN dest["enc"] ELSE Plain(s)

Ended(s) == stage[s] = "idle" /\ Len(dest[s]) = Total(s)
Active(s) == ~Ended(s) /\ calls[s] # <<>>
Lib(s) == mode[s]

AesInit ==
  /\ \E m \in Modes, other \in {"Cbc", "Ofb"} :
       mode \in {[s \in Clients |-> m], [s \in Clients |-> IF s = "other" THEN other ELSE m]}
  /\ inPlace \in BOOLEAN
  /\ m_lib = "EMPTY" /\ mtx = NoOne
  /\ program = [s \in Clients |-> "none"]
  /\ IV = Register({<<"zero", 0>>})
  /\ stage = [s \in Clients |-> "idle"]
  /\ calls = [s \in Clients |-> <<>>]
  /\ dest = [s \in Clients |-> <<>>]
  /\ disturbed = {}

-----------------------------------------------------------------------------
(* getProgram, and the kernel that is made of what it returns *)

(* A call of some blocks; the one that decrypts waits for its message.        *)
Call(s) ==
  /\ stage[s] = "idle" /\ ~Ended(s)
  /\ s = "dec" => Ended("enc")
  /\ \E n \in 1..(Total(s) - Len(dest[s])) : calls' = [calls EXCEPT ![s] = Append(@, n)]
  /\ stage' = [stage EXCEPT ![s] = "program"]
  /\ UNCHANGED <<config, device, message>>

(* Mutated, the mutex is not taken.                                           *)
AnyTime == TRUE
MayLock == mtx = NoOne
GetLoaded(s) ==
  /\ stage[s] = "program" /\ MayLock /\ m_lib = Lib(s)
  /\ program' = [program EXCEPT ![s] = "live"]
  /\ stage' = [stage EXCEPT ![s] = "kernel"]
  /\ UNCHANGED <<config, m_lib, mtx, message, calls>>

(* The program of another library is destroyed, whoever refers to it.         *)
Destroyed == [s \in Clients |-> IF program[s] = "live" THEN "dangling" ELSE program[s]]
Reset(s) ==
  /\ stage[s] = "program" /\ MayLock /\ m_lib # Lib(s)
  /\ mtx' = s
  /\ program' = Destroyed
  /\ stage' = [stage EXCEPT ![s] = "load"]
  /\ UNCHANGED <<config, m_lib, message, calls>>

Load(s) ==
  /\ stage[s] = "load"
  /\ program' = [Destroyed EXCEPT ![s] = "live"]
  /\ m_lib' = Lib(s)
  /\ mtx' = NoOne
  /\ stage' = [stage EXCEPT ![s] = "kernel"]
  /\ UNCHANGED <<config, message, calls>>

(* The kernel keeps its program.  What becomes of a dangling reference is      *)
(* open; the client is lost.                                                  *)
CreateKernel(s) ==
  /\ stage[s] = "kernel"
  /\ program' = [program EXCEPT ![s] = "none"]
  /\ stage' = [stage EXCEPT ![s] = IF program[s] = "live" THEN "run" ELSE "lost"]
  /\ UNCHANGED <<config, m_lib, mtx, message, calls>>

-----------------------------------------------------------------------------
(* The work of a call, and what it leaves in IV *)

size(s) == calls[s][Len(calls[s])]
in(s) == SubSeq(src(s), Len(dest[s]) + 1, Len(dest[s]) + size(s))
given(s) == IF Len(calls[s]) = 1 THEN iv(s) ELSE IV

Run(s) ==
  /\ stage[s] = "run"
  /\ dest' = [dest EXCEPT ![s] = @ \o Kernel(mode[s], Type(s), given(s), in(s))]
  /\ stage' = [stage EXCEPT ![s] = IF mode[s] = "Ecb" THEN "idle" ELSE "iv"]
  /\ UNCHANGED <<config, device, IV, disturbed, calls>>

(* The last block of the call in either buffer, which may be the same one.    *)
LastDest(s) == dest[s][Len(dest[s])]
LastSrc(s) == IF inPlace THEN LastDest(s) ELSE src(s)[Len(dest[s])]

Disturb(s) == disturbed' = disturbed \cup {t \in Clients \ {s} : Active(t)}

(* Mutated, the block that goes on the chain is always that of one buffer.    *)
OfDest(s) == LastDest(s)
OfSrc(s) == LastSrc(s)
ChainBlock(s) == IF Type(s) = "ENC" THEN LastDest(s) ELSE LastSrc(s)
KeepBlock(s) ==
  /\ stage[s] = "iv" /\ mode[s] \in {"Cbc", "Cfb8", "Cfb128"}
  /\ IV' = Register(ChainBlock(s))
  /\ Disturb(s)
  /\ stage' = [stage EXCEPT ![s] = "idle"]
  /\ UNCHANGED <<config, device, dest, calls>>

KeepDest(s) ==
  /\ stage[s] = "iv" /\ mode[s] = "Ofb"
  /\ IV' = Register(LastDest(s))
  /\ Disturb(s)
  /\ stage' = [stage EXCEPT ![s] = "xor"]
  /\ UNCHANGED <<config, device, dest, calls>>

XorSrc(s) ==
  /\ stage[s] = "xor"
  /\ IV' = [IV EXCEPT !.bits = Xor(@, LastSrc(s))]
  /\ Disturb(s)
  /\ stage' = [stage EXCEPT ![s] = "idle"]
  /\ UNCHANGED <<config, device, dest, calls>>

(* The counter goes on by the bytes of the call; the higher word is counted up *)
(* unless the lower one overflows.                                             *)
Low(count) == count % Word
High(count) == count \div Word
Advanced(count, bytes) ==
  LET carry == IF Word - 1 - Low(count) > bytes THEN 1 ELSE 0
  IN ((High(count) + carry) % Word) * Word + ((Low(count) + bytes) % Word)
KeepCounter(s) ==
  /\ stage[s] = "iv" /\ mode[s] = "Ctr"
  /\ IV' = [bits |-> given(s).bits, count |-> Advanced(given(s).count, 16 * size(s))]
  /\ Disturb(s)
  /\ stage' = [stage EXCEPT ![s] = "idle"]
  /\ UNCHANGED <<config, device, dest, calls>>

-----------------------------------------------------------------------------
Client(s) ==
  \/ Call(s)
  \/ GetLoaded(s) \/ Reset(s) \/ Load(s) \/ CreateKernel(s)
  \/ Run(s)
  \/ KeepBlock(s) \/ KeepDest(s) \/ XorSrc(s) \/ KeepCounter(s)

AesOver(s) == Ended(s) \/ stage[s] = "lost"
AesFinished ==
  /\ AesOver("enc") /\ AesOver("other") /\ (AesOver("dec") \/ stage["enc"] = "lost")
  /\ UNCHANGED aesVars

AesNext == (\E s \in Clients : Client(s)) \/ AesFinished

AesSpec == AesInit /\ [][AesNext]_aesVars

-----------------------------------------------------------------------------
(* Properties *)

(* As long as all clients use the same library, no reference that getProgram   *)
(* has given out dangles, although the mutex is given back before it is used.  *)
OneLibrary == Cardinality(Range(mode)) = 1
ProgramLives == OneLibrary => \A s \in Clients : program[s] # "dangling" /\ stage[s] # "lost"

(* The calls of a client that no other one comes between make of the message    *)
(* what a single call would, whatever their sizes: with the global IV they form *)
(* one chain.  Not so for CTR, nor where the code takes the last block of src   *)
(* for one that dest has overwritten.                                          *)
Chained(s) ==
  /\ s \notin disturbed
  /\ mode[s] = "Ctr" => Len(calls[s]) = 1
  /\ inPlace => mode[s] # "Ofb"
ChainContinues ==
  \A s \in Clients \ {"dec"} :
    Chained(s) => dest[s] = SubSeq(Kernel(mode[s], "ENC", iv(s), Plain(s)), 1, Len(dest[s]))

(* The message comes back from its decryption, if nobody came between the       *)
(* calls and the buffers are not the same; of CTR, if it was decrypted in calls *)
(* of the sizes that it was encrypted in.                                      *)
SameSizes ==
  \A i \in DOMAIN calls["dec"] : i \in DOMAIN calls["enc"] /\ calls["dec"][i] = calls["enc"][i]
MessageComesBack ==
  /\ {"enc", "dec"} \cap disturbed = {}
  /\ inPlace => mode["dec"] \in {"Ecb", "Ctr"}
  /\ mode["dec"] = "Ctr" => SameSizes
  => dest["dec"] = SubSeq(Plain("dec"), 1, Len(dest["dec"]))
=============================================================================
