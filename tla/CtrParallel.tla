------------------------------ MODULE CtrParallel ------------------------------
(***************************************************************************)
(* Sm4::ctr_crypt (src/src/sm4.cpp): the caller splits a large input into  *)
(* runs of blocks, starts a thread for each run but the first, encrypts    *)
(* the first itself, and joins the threads when their vector goes out of   *)
(* scope.  A step of a thread encrypts one counter block and combines it   *)
(* with its bytes.  Counters are numbers here; BlockCounter relates them   *)
(* to the code's 16-byte arrays.                                           *)
(***************************************************************************)
EXTENDS Integers, Sequences, FiniteSetsExt

CONSTANTS
  BlockSize,        \* kCtrBlockSize
  Threshold,        \* kParallelCtrThreshold
  BytesPerWorker,   \* kParallelBytesPerWorker
  MaxWorkers,       \* kMaxCtrWorkers
  Period,           \* how many values a counter has
  Sizes,            \* the lengths of the input
  Cores             \* what hardware_concurrency may report, 0 if it cannot tell

ASSUME ConstantsAssumption ==
  /\ BlockSize \in Nat \ {0}
  /\ Threshold \in Nat
  /\ BytesPerWorker \in Nat \ {0}
  /\ MaxWorkers \in Nat \ {0}
  /\ Period \in Nat \ {0}
  /\ Sizes \subseteq Nat
  /\ Cores \subseteq Nat

VARIABLES
  size, nonce, cores,   \* the call's arguments and the machine
  out,                  \* per byte, the keystream bytes it has been combined with
  pc,                   \* where the caller is
  worker,               \* the loop's variable
  job                   \* per thread (0: the caller), its ctr_crypt_range

vars == <<size, nonce, cores, out, pc, worker, job>>

Worker   == 0 .. MaxWorkers - 1
Position == 0 .. size - 1

CeilDiv(a, b) == (a + b - 1) \div b

TotalBlocks == CeilDiv(size, BlockSize)
WorkerCount == Min({Max({1, cores}), CeilDiv(size, BytesPerWorker), TotalBlocks, MaxWorkers})
Serial      == size < Threshold \/ WorkerCount <= 1

BlocksPerWorkerFloor == TotalBlocks \div WorkerCount
BlocksPerWorker      == CeilDiv(TotalBlocks, WorkerCount)

\* increment_counter and add_counter
Counter == 0 .. Period - 1
AddCounter(c, n) == (c + n) % Period

\* The bytes from start, count of them, the first offset of which are done.
ByteRange(c, start, count) == [counter |-> c, start |-> start, count |-> count, offset |-> 0]
NoRange  == ByteRange(0, 0, 0)
InRange  == [counter : Counter, start : Nat, count : Nat, offset : Nat]
Done(w)  == job[w].offset = job[w].count
AllDone  == \A w \in Worker : Done(w)

\* The run of blocks of a thread; the caller's, worker 0, is the same formula.
Share(w) ==
  LET first == w * BlocksPerWorker
      limit == Min({TotalBlocks, first + BlocksPerWorker})
      start == first * BlockSize
  IN  ByteRange(AddCounter(nonce, first), start, Min({size, limit * BlockSize}) - start)

TypeOK ==
  /\ size \in Sizes /\ cores \in Cores /\ nonce \in Counter
  /\ out \in [Position -> Seq(Counter \X (0 .. BlockSize - 1))]
  /\ pc \in {"call", "spawn", "join", "unwind", "returned", "threw"}
  /\ worker \in 0 .. MaxWorkers
  /\ job \in [Worker -> InRange]

Init ==
  /\ size \in Sizes /\ cores \in Cores /\ nonce \in Counter
  /\ out = [p \in Position |-> <<>>]
  /\ pc = "call"
  /\ worker = 0
  /\ job = [w \in Worker |-> NoRange]

-----------------------------------------------------------------------------
\* Input and output have the same length in every call of the program.
CtrCrypt ==
  /\ pc = "call"
  /\ \/ /\ size = 0
        /\ pc' = "returned"
        /\ UNCHANGED <<worker, job>>
     \/ /\ size > 0 /\ Serial
        /\ pc' = "join"
        /\ job' = [job EXCEPT ![0] = ByteRange(nonce, 0, size)]
        /\ UNCHANGED worker
     \/ /\ size > 0 /\ ~ Serial
        /\ pc' = "spawn"
        /\ worker' = 1
        /\ UNCHANGED job
  /\ UNCHANGED <<size, nonce, cores, out>>

MoreShares == worker < WorkerCount /\ worker * BlocksPerWorker < TotalBlocks

Spawn ==
  /\ pc = "spawn" /\ MoreShares
  /\ job' = [job EXCEPT ![worker] = Share(worker)]
  /\ worker' = worker + 1
  /\ UNCHANGED <<size, nonce, cores, out, pc>>

\* std::jthread's constructor throws; the vector's destructor joins the threads
\* that run.
SpawnFails ==
  /\ pc = "spawn" /\ MoreShares
  /\ pc' = "unwind"
  /\ UNCHANGED <<size, nonce, cores, out, worker, job>>

FirstShare ==
  /\ pc = "spawn" /\ ~ MoreShares
  /\ job' = [job EXCEPT ![0] = Share(0)]
  /\ pc' = "join"
  /\ UNCHANGED <<size, nonce, cores, out, worker>>

\* One turn of the loop in ctr_crypt_range.
WholeBlocks(w) == IF job[w].count - job[w].offset < BlockSize THEN 0 ELSE BlockSize
Take(w)        == Min({BlockSize, job[w].count - job[w].offset})

CryptBlock(w) ==
  LET at == job[w].start + job[w].offset IN
  /\ ~ Done(w)
  /\ out' = [p \in Position |-> IF at <= p /\ p < at + Take(w)
                                THEN Append(out[p], <<job[w].counter, p - at>>) ELSE out[p]]
  /\ job' = [job EXCEPT ![w].counter = AddCounter(@, 1),
                        ![w].offset = @ + Take(w)]
  /\ UNCHANGED <<size, nonce, cores, pc, worker>>

\* ~vector<jthread>: the caller waits for every thread.
Leave ==
  /\ AllDone
  /\ \/ pc = "join" /\ pc' = "returned"
     \/ pc = "unwind" /\ pc' = "threw"
  /\ UNCHANGED <<size, nonce, cores, out, worker, job>>

Caller == CtrCrypt \/ Spawn \/ SpawnFails \/ FirstShare \/ Leave

Next == Caller \/ \E w \in Worker : CryptBlock(w)

Spec == Init /\ [][Next]_vars

\* The system schedules every thread.
FairSpec == Spec /\ WF_vars(Caller) /\ \A w \in Worker : WF_vars(CryptBlock(w))

-----------------------------------------------------------------------------
Stream == INSTANCE CtrStream
            WITH result <- IF pc \in {"returned", "threw"} THEN pc ELSE "running"

\* However the threads interleave, every byte is combined once, with the
\* keystream byte of its own position, and the call returns only after the
\* last one: the shares cover the input, do not overlap, and start at the right
\* counter.
ImplementsCtr == Stream!Spec

\* The call returns or throws.
Terminates == <>(pc \in {"returned", "threw"})

-----------------------------------------------------------------------------
(***************************************************************************)
(* The inductive invariant, for the proofs in CtrProofs.                   *)
(***************************************************************************)

\* Blocks per share; a serial call is one share.
Width == IF Serial THEN TotalBlocks ELSE BlocksPerWorker
Lo(w) == (w * Width) * BlockSize
Hi(w) == Min({size, (w * Width + Width) * BlockSize})

Started(w)   == job[w].count > 0
DoneBytes(w) == job[w].start .. job[w].start + job[w].offset - 1

\* A thread works through its share block by block, its counter in step.
JobInv ==
  \A w \in Worker :
     IF Started(w)
     THEN /\ job[w].start = Lo(w) /\ Lo(w) < size
          /\ job[w].start + job[w].count = Hi(w)
          /\ job[w].offset <= job[w].count
          /\ ~ Done(w) => \E k \in 0 .. size :
                            /\ job[w].offset = k * BlockSize
                            /\ job[w].counter = AddCounter(nonce, w * Width + k)
     ELSE job[w].offset = 0

\* What has been written is what the threads have done.
OutInv == \A p \in Position : out[p] # <<>> <=> \E w \in Worker : p \in DoneBytes(w)

\* Before the join every share has its thread, and after it they are done.
CallerInv ==
  /\ pc = "call" => \A w \in Worker : ~ Started(w)
  /\ pc = "spawn" => /\ size > 0 /\ ~ Serial
                     /\ worker \in 1 .. WorkerCount
                     /\ \A w \in Worker : Started(w) <=> w \in 1 .. worker - 1
  /\ pc = "join" => /\ size > 0
                    /\ \A w \in Worker : w * Width < TotalBlocks => Started(w)
  /\ pc \in {"returned", "threw"} => AllDone

CtrInv == TypeOK /\ JobInv /\ OutInv /\ CallerInv
=============================================================================
