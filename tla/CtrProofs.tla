------------------------------- MODULE CtrProofs -------------------------------
(***************************************************************************)
(* Sm4::ctr_crypt implements CTR mode, for every input length, block size, *)
(* number of threads and interleaving.                                     *)
(***************************************************************************)
EXTENDS BlockCounter, Arithmetic, TLAPS

-----------------------------------------------------------------------------
(***************************************************************************)
(* Arithmetic.                                                             *)
(***************************************************************************)

\* increment_counter on a wrapped counter.
LEMMA Increment ==
  ASSUME NEW M \in Nat \ {0}, NEW x \in Nat
  PROVE  ((x % M) + 1) % M = (x + 1) % M
<1>1. PICK q \in Nat, r \in Nat : x = q * M + r /\ r < M /\ x % M = r
  BY DivMod
<1>2. CASE r + 1 < M
  <2>1. (r + 1) % M = r + 1
    BY <1>2
  <2>2. (q * M + (r + 1)) % M = r + 1
    BY <1>2, ModOf
  <2>3. q * M + (r + 1) = x + 1
    BY <1>1, Product
  <2> QED
    BY <1>1, <2>1, <2>2, <2>3
<1>3. CASE r + 1 = M
  <2>1. (r + 1) % M = 0
    BY <1>3
  <2>2. ((q + 1) * M + 0) % M = 0
    BY ModOf
  <2>3. (q + 1) * M + 0 = x + 1
    BY <1>1, <1>3
  <2> QED
    BY <1>1, <2>1, <2>2, <2>3
<1> QED
  BY <1>1, <1>2, <1>3

\* std::min and std::max.
LEMMA MinOfTwo ==
  ASSUME NEW a \in Int, NEW b \in Int
  PROVE  Min({a, b}) = IF a <= b THEN a ELSE b
BY DEF Min

\* The least of four numbers, as the shares are counted.
LEMMA MinOfFour ==
  ASSUME NEW a \in Int, NEW b \in Int, NEW c \in Int, NEW d \in Int
  PROVE  LET m == Min({a, b, c, d})
         IN  m \in {a, b, c, d} /\ m <= a /\ m <= b /\ m <= c /\ m <= d
<1>1. \E x \in {a, b, c, d} : \A y \in {a, b, c, d} : x <= y
  OBVIOUS
<1> QED
  BY <1>1 DEF Min

\* The greater of two numbers.
LEMMA MaxOfTwo ==
  ASSUME NEW a \in Int, NEW b \in Int
  PROVE  Max({a, b}) = IF a >= b THEN a ELSE b
BY DEF Max

\* Rounding up.
LEMMA CeilDivides ==
  ASSUME NEW a \in Nat, NEW b \in Nat \ {0}
  PROVE  /\ CeilDiv(a, b) \in Nat
         /\ a <= CeilDiv(a, b) * b
         /\ a > 0 => CeilDiv(a, b) > 0
         /\ (CeilDiv(a, b) - 1) * b < a
BY DEF CeilDiv

-----------------------------------------------------------------------------
(***************************************************************************)
(* The shares.                                                             *)
(***************************************************************************)

\* The shares are not empty, and enough of them cover the input.
LEMMA WidthFacts ==
  ASSUME TypeOK, size > 0
  PROVE  /\ TotalBlocks \in Nat \ {0} /\ size <= TotalBlocks * BlockSize
         /\ (TotalBlocks - 1) * BlockSize < size
         /\ WorkerCount \in Nat \ {0} /\ WorkerCount <= MaxWorkers
         /\ Width \in Nat \ {0} /\ TotalBlocks <= WorkerCount * Width
<1>1. size \in Nat /\ cores \in Nat
  BY ConstantsAssumption DEF TypeOK
<1>2. /\ TotalBlocks \in Nat \ {0} /\ size <= TotalBlocks * BlockSize
      /\ (TotalBlocks - 1) * BlockSize < size
  BY <1>1, CeilDivides, ConstantsAssumption DEF TotalBlocks
<1>3. WorkerCount \in Nat \ {0} /\ WorkerCount <= MaxWorkers
  <2> DEFINE c == Max({1, cores})
             s == CeilDiv(size, BytesPerWorker)
  <2>1. c \in Nat \ {0}
    BY <1>1, MaxOfTwo
  <2>2. s \in Nat \ {0}
    BY <1>1, CeilDivides, ConstantsAssumption
  <2> HIDE DEF c, s
  <2>3. c \in Int /\ s \in Int /\ TotalBlocks \in Int /\ MaxWorkers \in Int
    BY <2>1, <2>2, <1>2, ConstantsAssumption
  <2> DEFINE m == Min({c, s, TotalBlocks, MaxWorkers})
  <2>4. m \in {c, s, TotalBlocks, MaxWorkers} /\ m <= MaxWorkers
    BY <2>3, MinOfFour
  <2> QED
    BY <2>1, <2>2, <2>4, <1>2, ConstantsAssumption DEF WorkerCount, c, s
<1>4. BlocksPerWorker \in Nat \ {0} /\ TotalBlocks <= BlocksPerWorker * WorkerCount
  BY <1>2, <1>3, CeilDivides DEF BlocksPerWorker
<1>5. TotalBlocks <= WorkerCount * TotalBlocks
  BY <1>2, <1>3
<1>6. BlocksPerWorker * WorkerCount = WorkerCount * BlocksPerWorker
  BY <1>3, <1>4
<1> QED
  BY <1>2, <1>3, <1>4, <1>5, <1>6 DEF Width

\* Where the shares begin and end.
LEMMA Bounds ==
  ASSUME TypeOK, size > 0, NEW w \in Nat
  PROVE  /\ Lo(w) \in Nat /\ Hi(w) \in Nat
         /\ Hi(w) <= size /\ Hi(w) <= (w * Width + Width) * BlockSize
         /\ Hi(w) = size \/ Hi(w) = (w * Width + Width) * BlockSize
         /\ Lo(w) < size => Lo(w) < Hi(w)
         /\ w * Width \in Nat
<1>1. size \in Nat
  BY ConstantsAssumption DEF TypeOK
<1>2. Width \in Nat \ {0} /\ BlockSize \in Nat \ {0}
  BY WidthFacts, ConstantsAssumption
<1>3. w * Width \in Nat
  BY <1>2, Product
<1>4. Lo(w) \in Nat /\ (w * Width + Width) * BlockSize \in Nat
  BY <1>2, <1>3, Product DEF Lo
<1>5. Lo(w) < (w * Width + Width) * BlockSize
  <2>1. (w * Width) * BlockSize + BlockSize <= (w * Width + Width) * BlockSize
    BY <1>2, <1>3, Apart
  <2> QED
    BY <1>2, <1>4, <2>1 DEF Lo
<1>6. Hi(w) = IF size <= (w * Width + Width) * BlockSize
              THEN size ELSE (w * Width + Width) * BlockSize
  BY <1>1, <1>4, MinOfTwo DEF Hi
<1> QED
  BY <1>1, <1>3, <1>4, <1>5, <1>6

\* Shares do not overlap.
LEMMA SharesDisjoint ==
  ASSUME TypeOK, size > 0, NEW v \in Nat, NEW w \in Nat, v < w
  PROVE  Hi(v) <= Lo(w)
<1>1. Width \in Nat \ {0} /\ BlockSize \in Nat \ {0}
  BY WidthFacts, ConstantsAssumption
<1>2. v * Width + Width <= w * Width
  BY <1>1, Apart
<1>3. v * Width + Width \in Nat /\ w * Width \in Nat
  BY <1>1, Product
<1>4. (v * Width + Width) * BlockSize <= (w * Width) * BlockSize
  BY <1>1, <1>2, <1>3
<1>5. (v * Width + Width) * BlockSize \in Nat
  BY <1>1, <1>3, Product
<1> QED
  BY <1>4, <1>5, Bounds DEF Lo

\* Every byte is in the share of some thread.
LEMMA SharesCover ==
  ASSUME TypeOK, size > 0, NEW p \in Position
  PROVE  \E w \in Worker : w * Width < TotalBlocks /\ Lo(w) <= p /\ p < Hi(w)
<1>1. size \in Nat /\ p \in Nat /\ p < size
  BY ConstantsAssumption DEF TypeOK, Position
<1>2. Width \in Nat \ {0} /\ BlockSize \in Nat \ {0} /\ MaxWorkers \in Nat
  BY WidthFacts, ConstantsAssumption
<1>3. PICK b \in Nat, r \in Nat : p = b * BlockSize + r /\ r < BlockSize
  BY <1>1, <1>2, DivMod
<1>4. PICK w \in Nat, k \in Nat : b = w * Width + k /\ k < Width
  BY <1>2, DivMod
<1>5. b < TotalBlocks
  <2>1. TotalBlocks \in Nat /\ size <= TotalBlocks * BlockSize
    BY WidthFacts
  <2>2. CASE TotalBlocks <= b
    <3>1. TotalBlocks * BlockSize <= b * BlockSize
      BY <1>2, <2>1, <2>2
    <3>2. b * BlockSize \in Nat /\ TotalBlocks * BlockSize \in Nat
      BY <1>2, <2>1, Product
    <3> QED
      BY <1>1, <1>3, <2>1, <3>1, <3>2
  <2> QED
    BY <2>1, <2>2
<1>6. w * Width \in Nat /\ w * Width <= b
  BY <1>2, <1>4, Product
<1>7. w * Width < TotalBlocks
  BY <1>5, <1>6, WidthFacts
<1>8. w < WorkerCount
  <2>1. WorkerCount \in Nat /\ TotalBlocks \in Nat /\ TotalBlocks <= WorkerCount * Width
    BY WidthFacts
  <2>2. CASE WorkerCount <= w
    <3>1. WorkerCount * Width <= w * Width
      BY <1>2, <2>1, <2>2
    <3>2. WorkerCount * Width \in Nat
      BY <1>2, <2>1, Product
    <3> QED
      BY <1>6, <1>7, <2>1, <3>1, <3>2
  <2> QED
    BY <2>1, <2>2
<1>9. w \in Worker
  BY <1>2, <1>8, WidthFacts DEF Worker
<1>10. Lo(w) <= p
  <2>1. (w * Width) * BlockSize <= b * BlockSize
    BY <1>2, <1>6
  <2> QED
    BY <1>2, <1>3, <1>6, <2>1, Product DEF Lo
<1>11. p < Hi(w)
  <2>1. b < w * Width + Width
    BY <1>2, <1>4, <1>6
  <2>2. b * BlockSize + BlockSize <= (w * Width + Width) * BlockSize
    BY <1>2, <1>6, <2>1, Apart
  <2>3. b * BlockSize \in Nat /\ (w * Width + Width) * BlockSize \in Nat
    BY <1>2, <1>6, Product
  <2>4. p < (w * Width + Width) * BlockSize
    BY <1>2, <1>3, <2>2, <2>3
  <2> QED
    BY <1>1, <2>4, Bounds
<1> QED
  BY <1>7, <1>9, <1>10, <1>11

\* The shares depend on the arguments of the call only.
LEMMA Fixed ==
  ASSUME size' = size, cores' = cores
  PROVE  /\ TotalBlocks' = TotalBlocks /\ WorkerCount' = WorkerCount
         /\ Serial' = Serial /\ Width' = Width /\ Position' = Position
         /\ \A w : Lo(w)' = Lo(w) /\ Hi(w)' = Hi(w)
BY DEF TotalBlocks, WorkerCount, Serial, Width, BlocksPerWorker, Position, Lo, Hi, CeilDiv

\* What a worker is given.
LEMMA ShareFacts ==
  ASSUME TypeOK, size > 0, ~ Serial, NEW w \in Nat, w * BlocksPerWorker < TotalBlocks
  PROVE  /\ Share(w) \in InRange
         /\ Share(w).start = Lo(w) /\ Lo(w) < size
         /\ Share(w).start + Share(w).count = Hi(w)
         /\ Share(w).count > 0 /\ Share(w).offset = 0
         /\ Share(w).counter = AddCounter(nonce, w * Width + 0)
<1> DEFINE first == w * BlocksPerWorker
           limit == Min({TotalBlocks, first + BlocksPerWorker})
<1>1. Width = BlocksPerWorker
  BY DEF Width
<1>2. /\ TotalBlocks \in Nat \ {0} /\ BlocksPerWorker \in Nat \ {0}
      /\ BlockSize \in Nat \ {0} /\ size \in Nat /\ Period \in Nat \ {0} /\ nonce \in Nat
      /\ size <= TotalBlocks * BlockSize /\ (TotalBlocks - 1) * BlockSize < size
  BY <1>1, WidthFacts, ConstantsAssumption DEF TypeOK, Counter
<1>3. first \in Nat /\ first + BlocksPerWorker \in Nat
  BY <1>2, Product
<1>4. limit = IF TotalBlocks <= first + BlocksPerWorker
              THEN TotalBlocks ELSE first + BlocksPerWorker
  BY <1>2, <1>3, MinOfTwo
<1>5. Lo(w) = first * BlockSize /\ Hi(w) = Min({size, (first + BlocksPerWorker) * BlockSize})
  BY <1>1 DEF Lo, Hi
<1>6. Lo(w) < size
  <2>1. first <= TotalBlocks - 1
    BY <1>2, <1>3
  <2>2. first * BlockSize <= (TotalBlocks - 1) * BlockSize
    BY <1>2, <1>3, <2>1
  <2>3. first * BlockSize \in Nat /\ (TotalBlocks - 1) * BlockSize \in Nat
    BY <1>2, <1>3, Product
  <2> QED
    BY <1>2, <1>5, <2>2, <2>3
<1>7. Min({size, limit * BlockSize}) = Hi(w)
  <2>1. CASE TotalBlocks <= first + BlocksPerWorker
    <3>1. TotalBlocks * BlockSize <= (first + BlocksPerWorker) * BlockSize
      BY <1>2, <1>3, <2>1
    <3>2. TotalBlocks * BlockSize \in Nat /\ (first + BlocksPerWorker) * BlockSize \in Nat
      BY <1>2, <1>3, Product
    <3>3. Min({size, TotalBlocks * BlockSize}) = size
      BY <1>2, <3>2, MinOfTwo
    <3>4. Min({size, (first + BlocksPerWorker) * BlockSize}) = size
      BY <1>2, <3>1, <3>2, MinOfTwo
    <3> QED
      BY <1>4, <1>5, <2>1, <3>3, <3>4
  <2>2. CASE ~ (TotalBlocks <= first + BlocksPerWorker)
    BY <1>4, <1>5, <2>2
  <2> QED
    BY <2>1, <2>2
<1>8. Hi(w) \in Nat /\ Lo(w) \in Nat /\ Lo(w) < Hi(w)
  BY <1>6, Bounds
<1>9. AddCounter(nonce, first) \in Counter /\ first + 0 = first
  <2>1. nonce + first \in Nat
    BY <1>2, <1>3
  <2> HIDE DEF first
  <2> QED
    BY <1>2, <1>3, <2>1 DEF AddCounter, Counter
<1>10. Share(w) = [counter |-> AddCounter(nonce, first), start |-> Lo(w),
                   count |-> Hi(w) - Lo(w), offset |-> 0]
  BY <1>5, <1>7 DEF Share, ByteRange
<1> HIDE DEF first, limit
<1> QED
  BY <1>1, <1>6, <1>8, <1>9, <1>10 DEF InRange, first

\* What a serial call does.
LEMMA SerialFacts ==
  ASSUME TypeOK, size > 0, Serial
  PROVE  LET r == ByteRange(nonce, 0, size)
         IN  /\ r \in InRange
             /\ r.start = Lo(0) /\ Lo(0) < size /\ r.start + r.count = Hi(0)
             /\ r.count > 0 /\ r.offset = 0
             /\ r.counter = AddCounter(nonce, 0 * Width + 0)
<1>1. /\ Width = TotalBlocks /\ TotalBlocks \in Nat \ {0} /\ size <= TotalBlocks * BlockSize
      /\ BlockSize \in Nat \ {0} /\ size \in Nat /\ Period \in Nat \ {0} /\ nonce \in Counter
  BY WidthFacts, ConstantsAssumption DEF TypeOK, Width
<1>2. 0 * Width = 0 /\ 0 * BlockSize = 0
  BY <1>1
<1>3. Lo(0) = 0
  BY <1>2 DEF Lo
<1>4. Hi(0) = size
  <2>1. 0 * Width + Width = TotalBlocks
    BY <1>1, <1>2
  <2>2. TotalBlocks * BlockSize \in Nat
    BY <1>1, Product
  <2>3. Min({size, TotalBlocks * BlockSize}) = size
    BY <1>1, <2>2, MinOfTwo
  <2> QED
    BY <2>1, <2>3 DEF Hi
<1>5. AddCounter(nonce, 0 * Width + 0) = nonce
  <2>1. nonce % Period = nonce
    BY <1>1 DEF Counter
  <2> QED
    BY <1>1, <1>2, <2>1 DEF AddCounter, Counter
<1> QED
  BY <1>1, <1>3, <1>4, <1>5 DEF ByteRange, InRange

-----------------------------------------------------------------------------
(***************************************************************************)
(* A turn of ctr_crypt_range.                                              *)
(***************************************************************************)

\* A thread that is not done stands at the beginning of a block of its share,
\* and its turn takes exactly the bytes of that block.
LEMMA TurnFacts ==
  ASSUME CtrInv, NEW w \in Worker, ~ Done(w)
  PROVE  /\ Started(w) /\ size > 0
         /\ \E k \in 0 .. size :
              LET b  == w * Width + k
                  at == job[w].start + job[w].offset
              IN  /\ job[w].offset = k * BlockSize
                  /\ job[w].counter = AddCounter(nonce, b)
                  /\ b \in 0 .. size /\ at = b * BlockSize /\ at \in Nat
                  /\ at < job[w].start + job[w].count
                  /\ Take(w) \in Nat \ {0} /\ Take(w) <= job[w].count - job[w].offset
                  /\ \/ Take(w) = BlockSize
                     \/ Take(w) = job[w].count - job[w].offset
                  /\ \A p \in Position :
                       (at <= p /\ p < at + Take(w)) <=> p \in Stream!BlockBytes(b)
<1>1. /\ job[w] \in InRange /\ TypeOK /\ size \in Nat /\ w \in Nat
      /\ BlockSize \in Nat \ {0}
  BY ConstantsAssumption DEF CtrInv, TypeOK, Worker
<1>2. Started(w)
  BY <1>1 DEF CtrInv, JobInv, Done, Started, InRange
<1>3. /\ job[w].start = Lo(w) /\ Lo(w) < size
      /\ job[w].start + job[w].count = Hi(w)
      /\ job[w].offset <= job[w].count
  BY <1>2 DEF CtrInv, JobInv
<1>4. PICK k \in 0 .. size : /\ job[w].offset = k * BlockSize
                            /\ job[w].counter = AddCounter(nonce, w * Width + k)
  BY <1>2 DEF CtrInv, JobInv
<1>5. /\ job[w].start \in Nat /\ job[w].offset \in Nat /\ job[w].count \in Nat
      /\ job[w].offset < job[w].count
  BY <1>1, <1>3 DEF InRange, Done
<1>6. size > 0
  BY <1>1, <1>3, <1>5
<1>7. Width \in Nat \ {0} /\ w * Width \in Nat
  BY <1>1, <1>6, WidthFacts, Product
<1> DEFINE b  == w * Width + k
           at == job[w].start + job[w].offset
           e  == w * Width + Width
<1>8. b \in Nat /\ e \in Nat
  BY <1>1, <1>4, <1>7
<1>9. at = b * BlockSize
  <2>1. (w * Width) * BlockSize + k * BlockSize = (w * Width + k) * BlockSize
    BY <1>1, <1>4, <1>7
  <2> QED
    BY <1>3, <1>4, <2>1 DEF Lo
<1>10. /\ Hi(w) \in Nat /\ Hi(w) <= size
       /\ Hi(w) = size \/ Hi(w) = e * BlockSize
       /\ Hi(w) <= e * BlockSize
  BY <1>1, <1>6, Bounds
<1>11. at \in Nat /\ at < Hi(w) /\ b * BlockSize < size
  BY <1>3, <1>5, <1>9, <1>10, <1>1
<1>12. b \in 0 .. size
  <2>1. b <= b * BlockSize
    BY <1>1, <1>8
  <2> QED
    BY <1>1, <1>8, <1>9, <1>11, <2>1
<1>13. Take(w) = IF BlockSize <= job[w].count - job[w].offset
                 THEN BlockSize ELSE job[w].count - job[w].offset
  BY <1>1, <1>5, MinOfTwo DEF Take
<1>14. b * BlockSize + BlockSize <= e * BlockSize
  <2>1. CASE e <= b
    <3>1. e * BlockSize <= b * BlockSize
      BY <1>1, <1>8, <2>1
    <3>2. e * BlockSize \in Nat /\ b * BlockSize \in Nat
      BY <1>1, <1>8, Product
    <3> QED
      BY <1>9, <1>10, <1>11, <3>1, <3>2
  <2>2. CASE b < e
    BY <1>1, <1>8, <2>2, Apart
  <2> QED
    BY <1>8, <2>1, <2>2
<1>15. ASSUME NEW p \in Position
       PROVE  (at <= p /\ p < at + Take(w)) <=> p \in Stream!BlockBytes(b)
  <2>1. p \in Nat /\ p < size
    BY <1>1 DEF Position
  <2>2. p \in Stream!BlockBytes(b) <=> (at <= p /\ p < at + BlockSize)
    BY <1>9 DEF Stream!BlockBytes, Stream!Position, Position
  <2>3. CASE BlockSize <= job[w].count - job[w].offset
    BY <1>13, <2>2, <2>3
  <2>4. CASE ~ (BlockSize <= job[w].count - job[w].offset)
    <3>1. at + Take(w) = Hi(w)
      BY <1>3, <1>5, <1>13, <2>4
    <3>2. Hi(w) < at + BlockSize
      BY <1>1, <1>3, <1>5, <2>4
    <3>3. Hi(w) = size
      BY <1>1, <1>9, <1>10, <1>11, <1>14, <3>2
    <3> QED
      BY <1>1, <1>11, <2>1, <2>2, <3>1, <3>2, <3>3
  <2> QED
    BY <2>3, <2>4
<1>16. /\ Take(w) \in Nat \ {0} /\ Take(w) <= job[w].count - job[w].offset
       /\ Take(w) = BlockSize \/ Take(w) = job[w].count - job[w].offset
  BY <1>1, <1>5, <1>13
<1> QED
  BY <1>2, <1>3, <1>4, <1>5, <1>6, <1>9, <1>11, <1>12, <1>15, <1>16

\* The bytes of that block have not been touched.
LEMMA BlockUntouched ==
  ASSUME CtrInv, NEW w \in Worker, ~ Done(w), NEW p \in Position,
         job[w].start + job[w].offset <= p, p < job[w].start + job[w].count
  PROVE  out[p] = <<>> /\ \A v \in Worker : p \notin DoneBytes(v)
<1>1. Started(w) /\ size > 0 /\ TypeOK
  BY TurnFacts DEF CtrInv
<1>2. /\ job \in [Worker -> InRange] /\ size \in Nat /\ p \in Nat /\ p < size
      /\ Worker \subseteq Nat
  BY <1>1, ConstantsAssumption DEF TypeOK, Worker, Position
<1>3. Lo(w) <= p /\ p < Hi(w) /\ Lo(w) \in Nat /\ Hi(w) \in Nat
  BY <1>1, <1>2, Bounds DEF CtrInv, JobInv, InRange
<1>4. ASSUME NEW v \in Worker, p \in DoneBytes(v)
      PROVE  FALSE
  <2>1. job[v] \in InRange /\ job[w] \in InRange
    BY <1>2
  <2>2. v # w
    BY <1>4, <2>1 DEF DoneBytes, InRange
  <2>3. Started(v)
    BY <1>2, <1>4, <2>1 DEF CtrInv, JobInv, Started, DoneBytes, InRange
  <2>4. Lo(v) <= p /\ p < Hi(v)
    BY <1>2, <1>4, <2>1, <2>3 DEF CtrInv, JobInv, DoneBytes, InRange
  <2>5. Lo(v) \in Nat /\ Hi(v) \in Nat /\ v \in Nat /\ w \in Nat
    BY <1>1, <1>2, Bounds
  <2>6. Hi(v) <= Lo(w) \/ Hi(w) <= Lo(v)
    BY <1>1, <2>2, <2>5, SharesDisjoint
  <2> QED
    BY <1>2, <1>3, <2>4, <2>5, <2>6
<1>5. out[p] = <<>>
  BY <1>4 DEF CtrInv, OutInv
<1> QED
  BY <1>4, <1>5

-----------------------------------------------------------------------------
(***************************************************************************)
(* The invariant.                                                          *)
(***************************************************************************)

\* Before the call nothing is written and no share is given out.
LEMMA InvInit == Init => CtrInv
<1> SUFFICES ASSUME Init PROVE CtrInv
  OBVIOUS
<1>1. NoRange \in InRange /\ NoRange.count = 0 /\ NoRange.offset = 0 /\ NoRange.start = 0
  BY ConstantsAssumption DEF NoRange, ByteRange, InRange, Counter
<1>2. TypeOK
  BY <1>1, ConstantsAssumption DEF Init, TypeOK
<1>3. JobInv
  BY <1>1 DEF Init, JobInv, Started
<1>4. OutInv
  BY <1>1 DEF Init, OutInv, DoneBytes
<1>5. CallerInv
  BY <1>1 DEF Init, CallerInv, Started
<1> QED
  BY <1>2, <1>3, <1>4, <1>5 DEF CtrInv

\* A thread is given a fresh share.
LEMMA StartStep ==
  ASSUME CtrInv, UNCHANGED <<size, nonce, cores, out>>, size > 0,
         NEW w \in Worker, NEW r \in InRange, ~ Started(w),
         job' = [job EXCEPT ![w] = r],
         r.start = Lo(w), Lo(w) < size, r.start + r.count = Hi(w), r.count > 0,
         r.offset = 0, r.counter = AddCounter(nonce, w * Width + 0)
  PROVE  job' \in [Worker -> InRange] /\ JobInv' /\ OutInv'
<1>1. job \in [Worker -> InRange] /\ size \in Nat /\ TypeOK /\ BlockSize \in Nat
  BY ConstantsAssumption DEF CtrInv, TypeOK
<1>2. /\ job' \in [Worker -> InRange] /\ job'[w] = r
      /\ \A v \in Worker : v # w => job'[v] = job[v]
  BY <1>1
<1>3. /\ Width' = Width /\ Position' = Position
      /\ \A v : Lo(v)' = Lo(v) /\ Hi(v)' = Hi(v)
  BY Fixed
<1>4. ASSUME NEW v \in Worker
      PROVE  JobInv!(v)'
  <2>1. CASE v = w
    <3>1. r.offset = 0 * BlockSize /\ 0 \in 0 .. size /\ r.count \in Nat
      BY <1>1 DEF InRange
    <3> QED
      BY <1>2, <1>3, <2>1, <3>1 DEF Started, Done, AddCounter
  <2>2. CASE v # w
    BY <1>2, <1>3, <2>2 DEF CtrInv, JobInv, Started, Done, AddCounter
  <2> QED
    BY <2>1, <2>2
<1>5. JobInv'
  BY <1>4 DEF JobInv
<1>6. \A v \in Worker : DoneBytes(v)' = DoneBytes(v)
  <2>1. job[w].offset = 0 /\ job[w].start \in Nat /\ r.start \in Nat
    BY <1>1 DEF CtrInv, JobInv, InRange
  <2> QED
    BY <1>2, <2>1 DEF DoneBytes
<1>7. OutInv'
  BY <1>3, <1>6 DEF CtrInv, OutInv
<1> QED
  BY <1>2, <1>5, <1>7

\* The serial call hands the whole input to the caller.
LEMMA CtrCryptInv ==
  ASSUME CtrInv, CtrCrypt
  PROVE  CtrInv'
<1>1. TypeOK /\ JobInv /\ OutInv /\ CallerInv /\ pc = "call"
  BY DEF CtrInv, CtrCrypt
<1>2. UNCHANGED <<size, nonce, cores, out>> /\ size \in Nat
  BY <1>1, ConstantsAssumption DEF CtrCrypt, TypeOK
<1>3. /\ Width' = Width /\ Position' = Position /\ Serial' = Serial
      /\ TotalBlocks' = TotalBlocks /\ WorkerCount' = WorkerCount
      /\ \A v : Lo(v)' = Lo(v) /\ Hi(v)' = Hi(v)
  BY <1>2, Fixed
<1>4. \A w \in Worker : ~ Started(w)
  BY <1>1 DEF CallerInv
<1>5. 0 \in Worker
  BY ConstantsAssumption DEF Worker
<1>6. CASE size > 0 /\ Serial /\ pc' = "join" /\ job' = [job EXCEPT ![0] = ByteRange(nonce, 0, size)]
           /\ UNCHANGED worker
  <2> DEFINE r == ByteRange(nonce, 0, size)
  <2>1. /\ r \in InRange /\ r.start = Lo(0) /\ Lo(0) < size /\ r.start + r.count = Hi(0)
        /\ r.count > 0 /\ r.offset = 0 /\ r.counter = AddCounter(nonce, 0 * Width + 0)
    BY <1>1, <1>6, SerialFacts
  <2> HIDE DEF r
  <2>2. job' = [job EXCEPT ![0] = r]
    BY <1>6 DEF r
  <2>3. job' \in [Worker -> InRange] /\ JobInv' /\ OutInv'
    BY <1>2, <1>4, <1>5, <1>6, <2>1, <2>2, StartStep
  <2>4. TypeOK'
    BY <1>1, <1>2, <1>3, <1>6, <2>3 DEF TypeOK
  <2>5. ASSUME NEW w \in Worker, w * Width < TotalBlocks
        PROVE  Started(w)'
    <3>1. Width = TotalBlocks /\ TotalBlocks \in Nat \ {0} /\ w \in Nat
      BY <1>1, <1>6, WidthFacts DEF Width, Worker
    <3>2. w = 0
      <4>1. CASE w >= 1
        <5>1. w * Width >= Width
          BY <3>1, <4>1
        <5> QED
          BY <2>5, <3>1, <5>1, Product
      <4> QED
        BY <3>1, <4>1
    <3> QED
      BY <1>1, <2>1, <2>2, <3>2 DEF Started, TypeOK
  <2>6. CallerInv'
    BY <1>2, <1>3, <1>6, <2>5 DEF CallerInv
  <2> QED
    BY <2>3, <2>4, <2>6 DEF CtrInv
<1>7. CASE UNCHANGED job
  <2>1. TypeOK'
    <3>1. worker' \in 0 .. MaxWorkers
      BY <1>1, <1>7, ConstantsAssumption DEF CtrCrypt, TypeOK
    <3> QED
      BY <1>1, <1>2, <1>3, <1>7, <3>1 DEF CtrCrypt, TypeOK
  <2>2. JobInv'
    BY <1>1, <1>2, <1>3, <1>7 DEF JobInv, Started, Done, AddCounter
  <2>3. OutInv'
    BY <1>1, <1>2, <1>3, <1>7 DEF OutInv, DoneBytes
  <2>4. CallerInv'
    <3>1. \A w \in Worker : ~ Started(w)'
      BY <1>4, <1>7 DEF Started
    <3>2. CASE size = 0 /\ pc' = "returned"
      <4>1. AllDone'
        BY <1>1, <1>7, <3>1 DEF AllDone, Done, JobInv, Started, TypeOK, InRange
      <4> QED
        BY <3>2, <4>1 DEF CallerInv
    <3>3. CASE size > 0 /\ ~ Serial /\ pc' = "spawn" /\ worker' = 1
      <4>1. WorkerCount \in Nat \ {0}
        BY <1>1, <3>3, WidthFacts
      <4> QED
        BY <1>2, <1>3, <3>1, <3>3, <4>1 DEF CallerInv, Worker
    <3>4. CASE size > 0 /\ Serial /\ job' = [job EXCEPT ![0] = ByteRange(nonce, 0, size)]
      <4>1. job'[0].count = size
        BY <1>1, <1>5, <3>4 DEF ByteRange, TypeOK
      <4> QED
        BY <1>5, <3>1, <3>4, <4>1 DEF Started
    <3> QED
      BY <3>2, <3>3, <3>4 DEF CtrCrypt
  <2> QED
    BY <2>1, <2>2, <2>3, <2>4 DEF CtrInv
<1> QED
  BY <1>6, <1>7 DEF CtrCrypt

\* A new thread gets a share nobody has, with the counter of its first block.
LEMMA SpawnInv ==
  ASSUME CtrInv, Spawn
  PROVE  CtrInv'
<1>1. TypeOK /\ CallerInv /\ pc = "spawn" /\ MoreShares
  BY DEF CtrInv, Spawn
<1>2. UNCHANGED <<size, nonce, cores, out, pc>> /\ worker' = worker + 1
  BY DEF Spawn
<1>3. /\ size > 0 /\ ~ Serial /\ worker \in 1 .. WorkerCount
      /\ \A w \in Worker : Started(w) <=> w \in 1 .. worker - 1
  BY <1>1 DEF CallerInv
<1>4. WorkerCount \in Nat /\ WorkerCount <= MaxWorkers /\ MaxWorkers \in Nat
  BY <1>1, <1>3, WidthFacts, ConstantsAssumption
<1>5. worker \in Worker /\ worker \in Nat /\ worker < WorkerCount
  BY <1>1, <1>3, <1>4 DEF MoreShares, Worker
<1>6. ~ Started(worker)
  BY <1>3, <1>5
<1> DEFINE r == Share(worker)
<1>7. /\ r \in InRange /\ r.start = Lo(worker) /\ Lo(worker) < size
      /\ r.start + r.count = Hi(worker) /\ r.count > 0 /\ r.offset = 0
      /\ r.counter = AddCounter(nonce, worker * Width + 0)
  BY <1>1, <1>3, <1>5, ShareFacts DEF MoreShares
<1>8. job' = [job EXCEPT ![worker] = r]
  BY DEF Spawn
<1> HIDE DEF r
<1>9. job' \in [Worker -> InRange] /\ JobInv' /\ OutInv'
  BY <1>2, <1>3, <1>5, <1>6, <1>7, <1>8, StartStep
<1>10. /\ Position' = Position /\ Serial' = Serial /\ WorkerCount' = WorkerCount
  BY <1>2, Fixed
<1>11. TypeOK'
  BY <1>1, <1>2, <1>4, <1>5, <1>9, <1>10 DEF TypeOK
<1>12. \A w \in Worker : Started(w)' <=> w \in 1 .. worker' - 1
  <2> SUFFICES ASSUME NEW w \in Worker
               PROVE  Started(w)' <=> w \in 1 .. worker' - 1
    OBVIOUS
  <2>1. w \in Nat
    BY DEF Worker
  <2>2. CASE w = worker
    BY <1>1, <1>2, <1>3, <1>5, <1>7, <1>8, <2>2 DEF Started, TypeOK
  <2>3. CASE w # worker
    <3>1. Started(w)' <=> Started(w)
      BY <1>1, <1>8, <2>3 DEF Started, TypeOK
    <3> QED
      BY <1>2, <1>3, <1>5, <2>1, <2>3, <3>1
  <2> QED
    BY <2>2, <2>3
<1>13. CallerInv'
  BY <1>1, <1>2, <1>3, <1>4, <1>5, <1>10, <1>12 DEF CallerInv
<1> QED
  BY <1>9, <1>11, <1>13 DEF CtrInv

\* With the caller's own share every share is given out.
LEMMA FirstShareInv ==
  ASSUME CtrInv, FirstShare
  PROVE  CtrInv'
<1>1. TypeOK /\ CallerInv /\ pc = "spawn" /\ ~ MoreShares
  BY DEF CtrInv, FirstShare
<1>2. UNCHANGED <<size, nonce, cores, out, worker>> /\ pc' = "join"
  BY DEF FirstShare
<1>3. /\ size > 0 /\ ~ Serial /\ worker \in 1 .. WorkerCount
      /\ \A w \in Worker : Started(w) <=> w \in 1 .. worker - 1
  BY <1>1 DEF CallerInv
<1>4. /\ WorkerCount \in Nat /\ WorkerCount <= MaxWorkers /\ TotalBlocks \in Nat \ {0}
      /\ Width \in Nat \ {0} /\ TotalBlocks <= WorkerCount * Width
      /\ Width = BlocksPerWorker
  BY <1>1, <1>3, WidthFacts DEF Width
<1>5. 0 \in Worker /\ ~ Started(0)
  BY <1>3, ConstantsAssumption DEF Worker
<1> DEFINE r == Share(0)
<1>6. /\ r \in InRange /\ r.start = Lo(0) /\ Lo(0) < size
      /\ r.start + r.count = Hi(0) /\ r.count > 0 /\ r.offset = 0
      /\ r.counter = AddCounter(nonce, 0 * Width + 0)
  <2>1. 0 * BlocksPerWorker < TotalBlocks
    BY <1>4
  <2> QED
    BY <1>1, <1>3, <2>1, ShareFacts
<1>7. job' = [job EXCEPT ![0] = r]
  BY DEF FirstShare
<1> HIDE DEF r
<1>8. job' \in [Worker -> InRange] /\ JobInv' /\ OutInv'
  BY <1>2, <1>3, <1>5, <1>6, <1>7, StartStep
<1>9. /\ Position' = Position /\ TotalBlocks' = TotalBlocks /\ Width' = Width
  BY <1>2, Fixed
<1>10. TypeOK'
  BY <1>1, <1>2, <1>8, <1>9 DEF TypeOK
<1>11. ASSUME NEW w \in Worker, w * Width < TotalBlocks
       PROVE  Started(w)'
  <2>1. w \in Nat /\ worker \in Nat
    BY <1>3, <1>4 DEF Worker
  <2>2. CASE w = 0
    BY <1>1, <1>6, <1>7, <2>2 DEF Started, TypeOK
  <2>3. CASE w # 0
    <3>1. w < worker
      <4>1. SUFFICES ASSUME worker <= w PROVE FALSE
        BY <2>1
      <4>2. worker * Width <= w * Width
        BY <1>4, <2>1, <4>1
      <4>3. TotalBlocks <= worker * Width
        BY <1>1, <1>3, <1>4, <2>1, Product DEF MoreShares
      <4> QED
        BY <1>4, <1>11, <2>1, <4>2, <4>3, Product
    <3>2. Started(w)
      BY <1>3, <2>1, <2>3, <3>1
    <3> QED
      BY <1>1, <1>7, <2>3, <3>2 DEF Started, TypeOK
  <2> QED
    BY <2>2, <2>3
<1>12. CallerInv'
  BY <1>2, <1>3, <1>9, <1>11 DEF CallerInv
<1> QED
  BY <1>8, <1>10, <1>12 DEF CtrInv

\* A turn of the loop keeps a thread in its share and its counter in step.
LEMMA CryptBlockInv ==
  ASSUME CtrInv, NEW w \in Worker, CryptBlock(w)
  PROVE  CtrInv'
<1>1. /\ TypeOK /\ JobInv /\ OutInv /\ CallerInv /\ ~ Done(w)
      /\ UNCHANGED <<size, nonce, cores, pc, worker>>
  BY DEF CtrInv, CryptBlock
<1>2. /\ Position' = Position /\ TotalBlocks' = TotalBlocks /\ Width' = Width
      /\ Serial' = Serial /\ WorkerCount' = WorkerCount
      /\ \A v : Lo(v)' = Lo(v) /\ Hi(v)' = Hi(v)
  BY <1>1, Fixed
<1>3. /\ job \in [Worker -> InRange] /\ size \in Nat /\ nonce \in Nat
      /\ BlockSize \in Nat \ {0} /\ Period \in Nat \ {0}
  BY <1>1, ConstantsAssumption DEF TypeOK, Counter
<1> DEFINE at == job[w].start + job[w].offset
           t  == Take(w)
<1>4. PICK k \in 0 .. size :
        /\ job[w].offset = k * BlockSize
        /\ job[w].counter = AddCounter(nonce, w * Width + k)
        /\ w * Width + k \in 0 .. size
        /\ at \in Nat /\ at < job[w].start + job[w].count
        /\ t \in Nat \ {0} /\ t <= job[w].count - job[w].offset
        /\ t = BlockSize \/ t = job[w].count - job[w].offset
        /\ \A p \in Position :
             (at <= p /\ p < at + t) <=> p \in Stream!BlockBytes(w * Width + k)
  BY <1>1, TurnFacts
<1>5. Started(w)
  BY <1>1, TurnFacts
<1>6. /\ job' = [job EXCEPT ![w].counter = AddCounter(@, 1), ![w].offset = @ + t]
      /\ out' = [p \in Position |-> IF at <= p /\ p < at + t
                                    THEN Append(out[p], <<job[w].counter, p - at>>) ELSE out[p]]
  BY DEF CryptBlock
<1> HIDE DEF t
<1>7. /\ job[w].start \in Nat /\ job[w].count \in Nat /\ job[w].offset \in Nat
      /\ job[w].counter \in Counter
  BY <1>3 DEF InRange
<1>8. /\ job'[w] = [job[w] EXCEPT !.counter = AddCounter(@, 1), !.offset = @ + t]
      /\ \A v \in Worker : v # w => job'[v] = job[v]
  BY <1>3, <1>6
<1>9. /\ job'[w].start = job[w].start /\ job'[w].count = job[w].count
      /\ job'[w].offset = job[w].offset + t
      /\ job'[w].counter = AddCounter(job[w].counter, 1)
  BY <1>3, <1>8 DEF InRange
<1>10. AddCounter(job[w].counter, 1) = AddCounter(nonce, w * Width + (k + 1))
  <2>1. nonce + (w * Width + k) \in Nat
    BY <1>3, <1>4
  <2>2. w * Width \in Nat
    <3>1. Width \in Nat /\ w \in Nat
      BY <1>1, <1>5, TurnFacts, WidthFacts DEF Worker
    <3> QED
      BY <3>1, Product
  <2>3. (nonce + (w * Width + k)) + 1 = nonce + (w * Width + (k + 1))
    BY <1>3, <2>2
  <2> QED
    BY <1>3, <1>4, <2>1, <2>3, Increment DEF AddCounter
<1>11. job' \in [Worker -> InRange]
  <2>1. AddCounter(job[w].counter, 1) \in Counter
    BY <1>3, <1>7 DEF AddCounter, Counter
  <2>2. job[w].offset + t \in Nat
    BY <1>4, <1>7
  <2>3. job'[w] \in InRange
    BY <1>3, <1>8, <2>1, <2>2 DEF InRange
  <2>4. \A v \in Worker : job'[v] \in InRange
    BY <1>3, <1>8, <2>3
  <2>5. job' = [v \in Worker |-> job'[v]]
    BY <1>3, <1>6
  <2> QED
    BY <2>4, <2>5
<1>12. JobInv'
  <2> SUFFICES ASSUME NEW v \in Worker PROVE JobInv!(v)'
    BY DEF JobInv
  <2>1. CASE v # w
    BY <1>1, <1>2, <1>8, <2>1 DEF JobInv, Started, Done, AddCounter
  <2>2. CASE v = w
    <3>1. /\ Started(w)' /\ job'[w].start = Lo(w)' /\ Lo(w)' < size'
          /\ job'[w].start + job'[w].count = Hi(w)'
      BY <1>1, <1>2, <1>5, <1>9 DEF JobInv, Started
    <3>2. job'[w].offset <= job'[w].count
      BY <1>4, <1>7, <1>9
    <3>3. ASSUME ~ Done(w)'
          PROVE  \E j \in 0 .. size : /\ job'[w].offset = j * BlockSize
                                      /\ job'[w].counter = AddCounter(nonce, w * Width + j)
      <4>1. t = BlockSize /\ job'[w].offset < job'[w].count
        BY <1>4, <1>7, <1>9, <3>2, <3>3 DEF Done
      <4>2. job'[w].offset = (k + 1) * BlockSize
        BY <1>3, <1>4, <1>9, <4>1
      <4>3. job'[w].count <= size
        <5>1. Hi(w) <= size /\ w \in Nat
          BY <1>1, <1>5, TurnFacts, Bounds DEF Worker
        <5>2. Hi(w) \in Nat
          BY <1>1, <5>1, TurnFacts, Bounds
        <5> QED
          BY <1>1, <1>2, <1>3, <1>7, <1>9, <3>1, <5>1, <5>2
      <4>4. k + 1 <= (k + 1) * BlockSize
        BY <1>3
      <4>5. k + 1 \in 0 .. size
        BY <1>3, <1>7, <1>9, <4>1, <4>2, <4>3, <4>4
      <4> QED
        BY <1>9, <1>10, <4>2, <4>5
    <3> QED
      BY <1>1, <1>2, <2>2, <3>1, <3>2, <3>3 DEF AddCounter
  <2> QED
    BY <2>1, <2>2
<1>13. \A p \in Position : out[p] \in Seq(Counter \X (0 .. BlockSize - 1))
  BY <1>1 DEF TypeOK
<1>14. ASSUME NEW p \in Position, at <= p, p < at + t
       PROVE  out[p] = <<>> /\ \A v \in Worker : p \notin DoneBytes(v)
  <2>1. p < job[w].start + job[w].count
    BY <1>3, <1>4, <1>7, <1>14 DEF Position
  <2> QED
    BY <1>1, <1>14, <2>1, BlockUntouched
<1>15. TypeOK'
  <2>1. ASSUME NEW p \in Position, at <= p, p < at + t
        PROVE  out'[p] \in Seq(Counter \X (0 .. BlockSize - 1))
    <3>1. p - at \in 0 .. BlockSize - 1
      <4>1. t <= BlockSize
        BY <1>3, <1>4, <1>7, MinOfTwo DEF Take, t
      <4> QED
        BY <1>3, <1>4, <2>1, <4>1 DEF Position
    <3>2. <<job[w].counter, p - at>> \in Counter \X (0 .. BlockSize - 1)
      BY <1>7, <3>1
    <3>3. out'[p] = Append(out[p], <<job[w].counter, p - at>>)
      BY <1>6, <2>1
    <3> HIDE DEF at
    <3> QED
      BY <1>13, <3>2, <3>3
  <2>2. out' \in [Position -> Seq(Counter \X (0 .. BlockSize - 1))]
    <3> HIDE DEF at
    <3> QED
      BY <1>6, <1>13, <2>1
  <2> QED
    BY <1>1, <1>2, <1>11, <2>2 DEF TypeOK
<1>16. OutInv'
  <2> SUFFICES ASSUME NEW p \in Position
               PROVE  out'[p] # <<>> <=> \E v \in Worker : p \in DoneBytes(v)'
    BY <1>2 DEF OutInv
  <2>1. \A v \in Worker : v # w => DoneBytes(v)' = DoneBytes(v)
    BY <1>8 DEF DoneBytes
  <2>2. p \in DoneBytes(w)' <=> (p \in DoneBytes(w) \/ (at <= p /\ p < at + t))
    BY <1>3, <1>4, <1>7, <1>9 DEF DoneBytes, Position
  <2>3. CASE at <= p /\ p < at + t
    <3>1. out'[p] = Append(<<>>, <<job[w].counter, p - at>>)
      BY <1>6, <1>14, <2>3
    <3>2. out'[p] # <<>>
      BY <3>1
    <3> QED
      BY <2>2, <2>3, <3>2
  <2>4. CASE ~ (at <= p /\ p < at + t)
    <3>1. out'[p] = out[p]
      BY <1>6, <2>4
    <3> QED
      BY <1>1, <2>1, <2>2, <2>4, <3>1 DEF OutInv
  <2> QED
    BY <2>3, <2>4
<1>17. CallerInv'
  <2>1. \A v \in Worker : Started(v)' <=> Started(v)
    BY <1>8, <1>9 DEF Started
  <2>2. ~ AllDone
    BY <1>1 DEF AllDone
  <2> QED
    BY <1>1, <1>2, <2>1, <2>2 DEF CallerInv
<1> QED
  BY <1>12, <1>15, <1>16, <1>17 DEF CtrInv

\* Every step keeps the invariant.
LEMMA InvStep == CtrInv /\ [Next]_vars => CtrInv'
<1> SUFFICES ASSUME CtrInv, [Next]_vars PROVE CtrInv'
  OBVIOUS
<1>1. CASE CtrCrypt
  BY <1>1, CtrCryptInv
<1>2. CASE Spawn
  BY <1>2, SpawnInv
<1>3. CASE FirstShare
  BY <1>3, FirstShareInv
<1>4. ASSUME NEW w \in Worker, CryptBlock(w)
      PROVE  CtrInv'
  BY <1>4, CryptBlockInv
<1>5. CASE SpawnFails \/ Leave \/ UNCHANGED vars
  <2>1. UNCHANGED <<size, nonce, cores, out, worker, job>>
    BY <1>5 DEF SpawnFails, Leave, vars
  <2>2. /\ Position' = Position /\ TotalBlocks' = TotalBlocks /\ Width' = Width
        /\ Serial' = Serial /\ WorkerCount' = WorkerCount
        /\ \A v : Lo(v)' = Lo(v) /\ Hi(v)' = Hi(v)
    BY <2>1, Fixed
  <2>3. TypeOK'
    BY <1>5, <2>1, <2>2 DEF CtrInv, TypeOK, SpawnFails, Leave, vars
  <2>4. JobInv' /\ OutInv'
    BY <2>1, <2>2 DEF CtrInv, JobInv, OutInv, Started, Done, DoneBytes, AddCounter
  <2>5. CallerInv'
    <3>1. AllDone' <=> AllDone
      BY <2>1 DEF AllDone, Done
    <3>2. \A w \in Worker : Started(w)' <=> Started(w)
      BY <2>1 DEF Started
    <3>3. pc' = pc \/ pc' = "unwind" \/ (AllDone /\ pc' \in {"returned", "threw"})
      BY <1>5 DEF SpawnFails, Leave, vars
    <3>4. CASE pc' = pc
      BY <2>1, <2>2, <3>1, <3>2, <3>4 DEF CtrInv, CallerInv
    <3>5. CASE pc' = "unwind"
      BY <3>5 DEF CallerInv
    <3>6. CASE AllDone /\ pc' \in {"returned", "threw"}
      BY <3>1, <3>6 DEF CallerInv
    <3> QED
      BY <3>3, <3>4, <3>5, <3>6
  <2> QED
    BY <2>3, <2>4, <2>5 DEF CtrInv
<1> QED
  BY <1>1, <1>2, <1>3, <1>4, <1>5 DEF Next, Caller

\* At every instant of a call the shares that have been started are disjoint
\* runs of whole blocks, each with its own counter, and what is written is what
\* their threads have done.
THEOREM CtrInvHolds == Spec => []CtrInv
BY InvInit, InvStep, PTL DEF Spec

\* Every reachable state of a call is well typed: no counter leaves its range
\* and no keystream byte its block.
THEOREM CtrTypeCorrect == Spec => []TypeOK
<1>1. CtrInv => TypeOK
  BY DEF CtrInv
<1> QED
  BY <1>1, CtrInvHolds, PTL

-----------------------------------------------------------------------------
(***************************************************************************)
(* The refinement.                                                         *)
(***************************************************************************)

\* The call starts as CTR mode does.
LEMMA StreamInit == Init => Stream!Init
BY ConstantsAssumption DEF Init, Stream!Init, Counter, Position, Stream!Position

\* A thread's turn combines one block.
LEMMA StreamTurn ==
  ASSUME CtrInv, NEW w \in Worker, CryptBlock(w)
  PROVE  \E b \in 0 .. size : Stream!Combine(b)
<1>1. ~ Done(w) /\ UNCHANGED <<size, nonce, cores, pc, worker>>
  BY DEF CryptBlock
<1> DEFINE at == job[w].start + job[w].offset
<1>2. PICK k \in 0 .. size :
        LET b == w * Width + k
        IN  /\ job[w].counter = AddCounter(nonce, b)
            /\ b \in 0 .. size /\ at = b * BlockSize /\ at \in Nat
            /\ at < job[w].start + job[w].count
            /\ Take(w) \in Nat \ {0} /\ Take(w) <= job[w].count - job[w].offset
            /\ \A p \in Position :
                 (at <= p /\ p < at + Take(w)) <=> p \in Stream!BlockBytes(b)
  BY <1>1, TurnFacts
<1> DEFINE b == w * Width + k
<1>3. /\ job[w] \in InRange /\ size \in Nat /\ BlockSize \in Nat /\ TypeOK
      /\ Started(w) /\ size > 0 /\ w \in Nat
  BY <1>1, TurnFacts, ConstantsAssumption DEF CtrInv, TypeOK, Worker
<1>4. pc \notin {"returned", "threw"}
  BY <1>1 DEF CtrInv, CallerInv, AllDone
<1>5. Stream!BlockBytes(b) \subseteq Position /\ Stream!Position = Position
  BY DEF Stream!BlockBytes, Stream!Position, Position
<1>6. Stream!BlockBytes(b) # {}
  <2>1. Hi(w) <= size /\ Hi(w) \in Nat
    BY <1>3, Bounds
  <2>2. job[w].start + job[w].count = Hi(w)
    BY <1>3 DEF CtrInv, JobInv
  <2>3. at \in Position
    BY <1>2, <1>3, <2>1, <2>2 DEF Position
  <2>4. at <= at /\ at < at + Take(w)
    BY <1>2
  <2> HIDE DEF at, b
  <2> QED
    BY <1>2, <2>3, <2>4 DEF b
<1>7. ASSUME NEW p \in Stream!BlockBytes(b)
      PROVE  out[p] = <<>> /\ out'[p] = <<Stream!Keystream(b, p - b * BlockSize)>>
  <2>1. p \in Position /\ at <= p /\ p < at + Take(w) /\ p \in Nat
    BY <1>2, <1>3, <1>5, <1>7 DEF Position
  <2>2. p < job[w].start + job[w].count
    BY <1>2, <1>3, <2>1 DEF InRange
  <2>3. out[p] = <<>>
    BY <1>1, <2>1, <2>2, BlockUntouched
  <2>4. out'[p] = Append(out[p], <<job[w].counter, p - at>>)
    BY <2>1 DEF CryptBlock
  <2>5. <<job[w].counter, p - at>> = Stream!Keystream(b, p - b * BlockSize)
    BY <1>2 DEF Stream!Keystream, AddCounter
  <2> HIDE DEF at, b
  <2> QED
    BY <2>3, <2>4, <2>5
<1>8. ASSUME NEW p \in Position, p \notin Stream!BlockBytes(b)
      PROVE  out'[p] = out[p]
  BY <1>2, <1>8 DEF CryptBlock
<1>9. out' = [p \in Position |-> IF p \in Stream!BlockBytes(b)
                                THEN <<Stream!Keystream(b, p - b * BlockSize)>> ELSE out[p]]
  <2>1. out' = [p \in Position |-> out'[p]]
    BY DEF CryptBlock
  <2> HIDE DEF b
  <2> QED
    BY <1>7, <1>8, <2>1
<1>10. Stream!Combine(b)
  BY <1>1, <1>4, <1>5, <1>6, <1>7, <1>9 DEF Stream!Combine
<1> QED
  BY <1>2, <1>10

\* When the threads are joined the whole output is written.
LEMMA AllWritten ==
  ASSUME CtrInv, pc = "join", AllDone, NEW p \in Position
  PROVE  out[p] # <<>>
<1>1. size > 0 /\ TypeOK
  BY DEF CtrInv, CallerInv
<1>2. PICK w \in Worker : w * Width < TotalBlocks /\ Lo(w) <= p /\ p < Hi(w)
  BY <1>1, SharesCover
<1>3. Started(w)
  BY <1>2 DEF CtrInv, CallerInv
<1>4. p \in DoneBytes(w)
  <2>1. /\ job[w].start = Lo(w) /\ job[w].start + job[w].offset = Hi(w)
    BY <1>3 DEF CtrInv, JobInv, AllDone, Done
  <2>2. job[w].start \in Nat /\ job[w].offset \in Nat
    BY <1>1 DEF TypeOK, InRange
  <2>3. p \in Int
    BY <1>1 DEF Position
  <2>4. job[w].start <= p /\ p < job[w].start + job[w].offset
    BY <1>2, <2>1
  <2>5. p \in job[w].start .. job[w].start + job[w].offset - 1
    BY <2>2, <2>3, <2>4
  <2> QED
    BY <2>5 DEF DoneBytes
<1> QED
  BY <1>4 DEF CtrInv, OutInv

\* Every step of ctr_crypt is a step of CTR mode, or none.
LEMMA StreamStep == CtrInv /\ [Next]_vars => [Stream!Next]_Stream!vars
<1> SUFFICES ASSUME CtrInv, [Next]_vars PROVE [Stream!Next]_Stream!vars
  OBVIOUS
<1>1. ASSUME NEW w \in Worker, CryptBlock(w)
      PROVE  Stream!Next
  BY <1>1, StreamTurn DEF Stream!Next
<1>2. CASE Leave
  <2>1. CASE pc = "join"
    BY <1>2, <2>1, AllWritten DEF Leave, Stream!Next, Stream!Return, Stream!Position, Position
  <2>2. CASE pc = "unwind"
    BY <1>2, <2>2 DEF Leave, Stream!Next, Stream!Throw
  <2> QED
    BY <1>2, <2>1, <2>2 DEF Leave
<1>3. CASE CtrCrypt
  <2>1. CASE size = 0 /\ pc' = "returned"
    <3>1. Stream!Position = {}
      BY <2>1 DEF Stream!Position
    <3> QED
      BY <1>3, <2>1, <3>1 DEF CtrCrypt, Stream!Next, Stream!Return
  <2>2. CASE pc' \in {"join", "spawn"}
    BY <1>3, <2>2 DEF CtrCrypt, Stream!vars
  <2> QED
    BY <1>3, <2>1, <2>2 DEF CtrCrypt
<1>4. CASE Spawn \/ SpawnFails \/ FirstShare \/ UNCHANGED vars
  BY <1>4 DEF Spawn, SpawnFails, FirstShare, vars, Stream!vars
<1> QED
  BY <1>1, <1>2, <1>3, <1>4 DEF Next, Caller

\* ctr_crypt implements CTR mode: whatever the length of the input, the number
\* of cores and the interleaving of the threads, each byte is combined once,
\* with the keystream byte of its own position, and the call returns only when
\* all are.
THEOREM CtrImplemented == Spec => ImplementsCtr
<1>1. CtrInv /\ [Next]_vars => [Stream!Next]_Stream!vars
  BY StreamStep
<1> QED
  BY <1>1, CtrInvHolds, StreamInit, PTL DEF Spec, ImplementsCtr, Stream!Spec
-----------------------------------------------------------------------------
(***************************************************************************)
(* The counters' bytes.                                                    *)
(***************************************************************************)

\* The numbers that the first bytes of an array stand for.
Prefixes(v, a) ==
  /\ v \in [0 .. Bytes -> Nat] /\ v[0] = 0
  /\ \A i \in Place : v[i] = v[i - 1] * Base + a[i]

LEMMA ValueRead ==
  ASSUME NEW a \in Block16
  PROVE  \E v : Prefixes(v, a) /\ Value(a) = v[Bytes]
<1> USE CounterAssumption DEF Place
<1> DEFINE Next1(i, m) == m * Base + a[i]
           h == [p \in (1 .. Bytes) \X Nat |-> Next1(p[1], p[2])]
           UpTo(F) == F = [i \in 0 .. Bytes |-> IF i = 0 THEN 0 ELSE F[i - 1] * Base + a[i]]
           upTo == CHOOSE F : UpTo(F)
<1>1. \A i \in 1 .. Bytes, m \in Nat : Next1(i, m) \in Nat
  <2> TAKE i \in 1 .. Bytes, m \in Nat
  <2>1. a[i] \in Nat /\ m * Base \in Nat
    BY Product DEF Block16
  <2> QED
    BY <2>1
<1>2. /\ h \in [(1 .. Bytes) \X Nat -> Nat]
      /\ \A i \in 1 .. Bytes, m \in Nat : h[<<i, m>>] = m * Base + a[i]
  BY <1>1
<1> HIDE DEF h
<1>3. PICK f : Iterates(f, Nat, 0, Bytes, h)
  BY <1>2, IterationExists
<1>4. f \in [0 .. Bytes -> Nat] /\ f[0] = 0 /\ \A i \in 1 .. Bytes : f[i] = h[<<i, f[i - 1]>>]
  BY <1>3 DEF Iterates
<1>5. ASSUME NEW i \in 1 .. Bytes
      PROVE  f[i] = f[i - 1] * Base + a[i]
  <2>1. i - 1 \in 0 .. Bytes
    OBVIOUS
  <2>2. f[i - 1] \in Nat
    BY <1>4, <2>1
  <2> QED
    BY <1>2, <1>4, <2>2
<1>6. UpTo(f)
  <2>1. f = [i \in 0 .. Bytes |-> f[i]]
    BY <1>4
  <2>2. \A i \in 0 .. Bytes : f[i] = IF i = 0 THEN 0 ELSE f[i - 1] * Base + a[i]
    BY <1>4, <1>5
  <2> QED
    BY <2>1, <2>2
<1> HIDE DEF UpTo
<1>7. UpTo(upTo)
  BY <1>6
<1>8. Value(a) = upTo[Bytes]
  BY DEF Value, UpTo
<1> HIDE DEF upTo
<1>9. upTo = [i \in 0 .. Bytes |-> IF i = 0 THEN 0 ELSE upTo[i - 1] * Base + a[i]]
  BY <1>7 DEF UpTo
<1>10. upTo[0] = 0 /\ \A i \in 1 .. Bytes : upTo[i] = upTo[i - 1] * Base + a[i]
  BY <1>9
<1> DEFINE T == {k \in 0 .. Bytes : upTo[k] \in Nat}
<1>11. 0 \in T
  BY <1>10
<1>12. ASSUME NEW k \in 0 .. Bytes - 1, k \in T
       PROVE  k + 1 \in T
  <2>1. k + 1 \in 1 .. Bytes /\ k + 1 \in 0 .. Bytes /\ (k + 1) - 1 = k
    OBVIOUS
  <2>2. upTo[k + 1] = upTo[k] * Base + a[k + 1]
    BY <1>10, <2>1
  <2>3. upTo[k] * Base + a[k + 1] \in Nat
    BY <1>1, <1>12, <2>1
  <2> QED
    BY <2>1, <2>2, <2>3
<1>13. \A k \in 0 .. Bytes : k \in T
  <2> HIDE DEF T
  <2> QED
    BY <1>11, <1>12, InductionTo
<1>14. upTo \in [0 .. Bytes -> Nat]
  BY <1>9, <1>13
<1> QED
  BY <1>8, <1>10, <1>14 DEF Prefixes

\* How many values the first bytes have.
Powers(p) ==
  /\ p \in [0 .. Bytes -> Nat \ {0}] /\ p[0] = 1 /\ p[Bytes] = Period
  /\ \A i \in Place : p[i] = p[i - 1] * Base

LEMMA PeriodIsPower == \E p : Powers(p)
<1> USE CounterAssumption DEF Place
<1> DEFINE top == [i \in Place |-> Base - 1]
<1>1. top \in Block16 /\ \A i \in Place : top[i] = Base - 1
  BY DEF Block16
<1>2. Period = Value(top) + 1
  OBVIOUS
<1> HIDE DEF top
<1>3. PICK v : Prefixes(v, top) /\ Value(top) = v[Bytes]
  BY <1>1, ValueRead
<1> DEFINE p == [i \in 0 .. Bytes |-> v[i] + 1]
<1>4. /\ p \in [0 .. Bytes -> Nat \ {0}] /\ p[0] = 1 /\ p[Bytes] = Period
      /\ \A i \in 0 .. Bytes : p[i] = v[i] + 1
  <2>1. /\ \A i \in 0 .. Bytes : v[i] \in Nat /\ v[i] + 1 \in Nat \ {0}
        /\ v[0] = 0 /\ v[Bytes] + 1 = Period /\ 0 \in 0 .. Bytes /\ Bytes \in 0 .. Bytes
    <3>1. v \in [0 .. Bytes -> Nat] /\ v[0] = 0
      BY <1>3 DEF Prefixes
    <3>2. Period = v[Bytes] + 1
      BY <1>2, <1>3
    <3>3. \A i \in 0 .. Bytes : v[i] \in Nat
      BY <3>1
    <3>4. Bytes \in 0 .. Bytes /\ 0 \in 0 .. Bytes
      OBVIOUS
    <3> QED
      BY <3>1, <3>2, <3>3, <3>4
  <2>2. \A i \in 0 .. Bytes : p[i] = v[i] + 1
    OBVIOUS
  <2>3. p \in [0 .. Bytes -> Nat \ {0}]
    BY <2>1
  <2> HIDE DEF p
  <2> QED
    BY <2>1, <2>2, <2>3
<1> HIDE DEF p
<1>5. ASSUME NEW i \in Place PROVE p[i] = p[i - 1] * Base
  <2>1. i \in 0 .. Bytes /\ i - 1 \in 0 .. Bytes
    OBVIOUS
  <2>2. PICK m \in Nat : m = v[i - 1]
    BY <1>3, <2>1 DEF Prefixes
  <2>3. v[i] = m * Base + (Base - 1)
    BY <1>1, <1>3, <2>2 DEF Prefixes
  <2>4. p[i] = m * Base + (Base - 1) + 1 /\ p[i - 1] = m + 1
    BY <1>4, <2>1, <2>2, <2>3
  <2>5. (m + 1) * Base = m * Base + Base /\ m * Base \in Nat
    OBVIOUS
  <2> QED
    BY <2>4, <2>5
<1> QED
  BY <1>4, <1>5 DEF Powers

LEMMA ValueBounded ==
  ASSUME NEW a \in Block16
  PROVE  Value(a) \in Counter
<1> USE CounterAssumption DEF Place
<1>1. PICK v : Prefixes(v, a) /\ Value(a) = v[Bytes]
  BY ValueRead
<1>2. PICK p : Powers(p)
  BY PeriodIsPower
<1> DEFINE T == {k \in 0 .. Bytes : v[k] < p[k]}
<1>3. 0 \in T
  BY <1>1, <1>2 DEF Prefixes, Powers
<1>4. ASSUME NEW k \in 0 .. Bytes - 1, k \in T
      PROVE  k + 1 \in T
  <2>1. k + 1 \in Place /\ k + 1 \in 0 .. Bytes /\ (k + 1) - 1 = k /\ k \in 0 .. Bytes
    OBVIOUS
  <2>2. PICK m \in Nat, q \in Nat : m = v[k] /\ q = p[k]
    BY <1>1, <1>2, <2>1 DEF Prefixes, Powers
  <2>3. m < q
    BY <1>4, <2>2
  <2>4. m * Base + Base <= q * Base /\ m * Base \in Nat
    BY <2>3, Apart, Product
  <2>5. a[k + 1] \in Nat /\ a[k + 1] < Base
    BY <2>1 DEF Block16
  <2>6. v[k + 1] = m * Base + a[k + 1] /\ p[k + 1] = q * Base
    BY <1>1, <1>2, <2>1, <2>2 DEF Prefixes, Powers
  <2>7. PICK x \in Nat, y \in Nat : x = m * Base /\ y = q * Base
    BY Product
  <2>8. v[k + 1] = x + a[k + 1] /\ p[k + 1] = y /\ x + Base <= y
    BY <2>4, <2>6, <2>7
  <2>9. v[k + 1] < p[k + 1]
    <3>1. PICK b \in Nat : b = a[k + 1] /\ b < Base
      BY <2>5
    <3>2. x + b < y
      BY <2>8, <3>1
    <3> QED
      BY <2>8, <3>1, <3>2
  <2> QED
    BY <2>1, <2>9
<1>5. \A k \in 0 .. Bytes : k \in T
  <2> HIDE DEF T
  <2> QED
    BY <1>3, <1>4, InductionTo
<1>6. v[Bytes] \in Nat /\ v[Bytes] < p[Bytes]
  BY <1>1, <1>5 DEF Prefixes
<1>7. p[Bytes] = Period /\ Period \in Nat \ {0}
  BY <1>2, ConstantsAssumption DEF Powers
<1> HIDE DEF T
<1>8. v[Bytes] \in 0 .. Period - 1
  BY <1>6, <1>7
<1> QED
  BY <1>1, <1>8 DEF Counter

\* Array r is array a with d[Bytes] added: d[i - 1] is what the bytes from the
\* i-th on carry to those before them.
Carries(a, r, d) ==
  /\ d \in [0 .. Bytes -> Nat]
  /\ \A i \in Place : a[i] + d[i] = r[i] + d[i - 1] * Base

LEMMA Carried ==
  ASSUME NEW a \in Block16, NEW r \in Block16, NEW d, Carries(a, r, d)
  PROVE  Value(r) = AddCounter(Value(a), d[Bytes])
<1> USE CounterAssumption DEF Place
<1>1. PICK v : Prefixes(v, a) /\ Value(a) = v[Bytes]
  BY ValueRead
<1>2. PICK u : Prefixes(u, r) /\ Value(r) = u[Bytes]
  BY ValueRead
<1>3. PICK p : Powers(p)
  BY PeriodIsPower
<1>4. PICK e \in Nat : e = d[0]
  BY DEF Carries
<1> DEFINE T == {k \in 0 .. Bytes : v[k] + d[k] = u[k] + e * p[k]}
<1>5. 0 \in T
  <2>1. v[0] = 0 /\ u[0] = 0 /\ p[0] = 1 /\ d[0] = e
    BY <1>1, <1>2, <1>3, <1>4 DEF Prefixes, Powers
  <2> QED
    BY <2>1
<1>6. ASSUME NEW k \in 0 .. Bytes - 1, k \in T
      PROVE  k + 1 \in T
  <2>1. k + 1 \in Place /\ k + 1 \in 0 .. Bytes /\ (k + 1) - 1 = k /\ k \in 0 .. Bytes
    OBVIOUS
  <2>2. PICK x \in Nat : x = v[k]
    BY <1>1, <2>1 DEF Prefixes
  <2>3. PICK y \in Nat : y = u[k]
    BY <1>2, <2>1 DEF Prefixes
  <2>4. PICK q \in Nat : q = p[k]
    BY <1>3, <2>1 DEF Powers
  <2>5. PICK c \in Nat : c = d[k]
    BY <2>1 DEF Carries
  <2>6. PICK f \in Nat : f = d[k + 1]
    BY <2>1 DEF Carries
  <2>7. a[k + 1] \in Nat /\ r[k + 1] \in Nat
    BY <2>1 DEF Block16
  <2>8. v[k + 1] = x * Base + a[k + 1]
    BY <1>1, <2>1, <2>2 DEF Prefixes
  <2>9. u[k + 1] = y * Base + r[k + 1]
    BY <1>2, <2>1, <2>3 DEF Prefixes
  <2>10. p[k + 1] = q * Base
    BY <1>3, <2>1, <2>4 DEF Powers
  <2>11. a[k + 1] + f = r[k + 1] + c * Base
    BY <2>1, <2>5, <2>6 DEF Carries
  <2>12. x + c = y + e * q
    BY <1>6, <2>2, <2>3, <2>4, <2>5
  <2>13. (x * Base + a[k + 1]) + f = (y * Base + r[k + 1]) + e * (q * Base)
    <3>1. PICK z \in Nat : z = e * q
      BY Product
    <3>2. e * (q * Base) = z * Base
      BY <3>1
    <3>3. (x + c) * Base = x * Base + c * Base /\ (y + z) * Base = y * Base + z * Base
      OBVIOUS
    <3>4. x * Base + c * Base = y * Base + z * Base
      BY <2>12, <3>1, <3>3
    <3>5. x * Base \in Nat /\ c * Base \in Nat /\ y * Base \in Nat /\ z * Base \in Nat
      BY Product
    <3>6. PICK X \in Nat, Y \in Nat, C \in Nat, Z \in Nat, E \in Nat :
            X = x * Base /\ Y = y * Base /\ C = c * Base /\ Z = z * Base /\ E = e * (q * Base)
      BY <3>2, <3>5
    <3>7. PICK b \in Nat, s \in Nat : b = a[k + 1] /\ s = r[k + 1]
      BY <2>7
    <3>8. X + C = Y + Z /\ b + f = s + C /\ E = Z
      BY <2>11, <3>2, <3>4, <3>6, <3>7
    <3>9. (X + b) + f = (Y + s) + E
      BY <3>8
    <3> QED
      BY <3>6, <3>7, <3>9
  <2>14. v[k + 1] + d[k + 1] = u[k + 1] + e * p[k + 1]
    BY <2>6, <2>8, <2>9, <2>10, <2>13
  <2> QED
    BY <2>1, <2>14
<1>7. \A k \in 0 .. Bytes : k \in T
  <2> HIDE DEF T
  <2> QED
    BY <1>5, <1>6, InductionTo
<1>8. Value(a) + d[Bytes] = Value(r) + e * Period
  BY <1>1, <1>2, <1>3, <1>7 DEF Powers
<1>9. Value(r) \in Nat /\ Value(r) < Period /\ Period \in Nat \ {0}
  BY ValueBounded, ConstantsAssumption DEF Counter
<1>10. (e * Period + Value(r)) % Period = Value(r)
  BY <1>9, ModOf
<1>11. Value(r) + e * Period = e * Period + Value(r)
  BY <1>9, Product
<1> QED
  BY <1>8, <1>10, <1>11 DEF AddCounter

\* increment_counter.
LEMMA IncrementedIs ==
  ASSUME NEW a \in Block16
  PROVE  Incremented(a) \in Block16 /\ Value(Incremented(a)) = AddCounter(Value(a), 1)
<1> USE CounterAssumption DEF Place
<1> DEFINE r == Incremented(a)
           d == [k \in 0 .. Bytes |-> IF CarriesTo(a, k) THEN 1 ELSE 0]
<1>1. /\ d \in [0 .. Bytes -> Nat]
      /\ \A k \in 0 .. Bytes : d[k] = IF CarriesTo(a, k) THEN 1 ELSE 0
  OBVIOUS
<1>2. d[Bytes] = 1
  BY <1>1 DEF CarriesTo
<1>3. ASSUME NEW i \in Place
      PROVE  r[i] \in 0 .. Base - 1 /\ a[i] + d[i] = r[i] + d[i - 1] * Base
  <2>1. i \in 0 .. Bytes /\ i - 1 \in 0 .. Bytes /\ a[i] \in 0 .. Base - 1
    BY DEF Block16
  <2>2. r[i] = IF CarriesTo(a, i) THEN (a[i] + 1) % Base ELSE a[i]
    BY DEF Incremented
  <2>3. CarriesTo(a, i - 1) <=> CarriesTo(a, i) /\ a[i] = Base - 1
    <3>1. \A j \in Place : j > i - 1 <=> j > i \/ j = i
      BY <2>1
    <3> QED
      BY <3>1 DEF CarriesTo
  <2> HIDE DEF d, r
  <2>4. CASE CarriesTo(a, i) /\ a[i] = Base - 1
    <3>1. d[i] = 1 /\ d[i - 1] = 1 /\ r[i] = Base % Base
      BY <1>1, <2>1, <2>2, <2>3, <2>4
    <3>2. Base % Base = 0
      OBVIOUS
    <3> QED
      BY <2>4, <3>1, <3>2
  <2>5. CASE CarriesTo(a, i) /\ a[i] # Base - 1
    <3>1. d[i] = 1 /\ d[i - 1] = 0 /\ r[i] = (a[i] + 1) % Base
      BY <1>1, <2>1, <2>2, <2>3, <2>5
    <3>2. (a[i] + 1) % Base = a[i] + 1
      BY <2>1, <2>5
    <3> QED
      BY <2>1, <2>5, <3>1, <3>2
  <2>6. CASE ~ CarriesTo(a, i)
    <3>1. d[i] = 0 /\ d[i - 1] = 0 /\ r[i] = a[i]
      BY <1>1, <2>1, <2>2, <2>3, <2>6
    <3> QED
      BY <2>1, <3>1
  <2> QED
    BY <2>4, <2>5, <2>6
<1>4. r \in Block16
  BY <1>3 DEF Incremented, Block16
<1> HIDE DEF d
<1>5. Carries(a, r, d)
  BY <1>1, <1>3 DEF Carries
<1> HIDE DEF r
<1>6. Value(r) = AddCounter(Value(a), 1)
  BY <1>2, <1>4, <1>5, Carried
<1> QED
  BY <1>4, <1>6 DEF r

\* Every counter has its array: the one before, incremented.
LEMMA DigitsOf ==
  ASSUME NEW n \in Counter
  PROVE  Digits(n) \in Block16 /\ Value(Digits(n)) = n
<1> USE CounterAssumption, ConstantsAssumption DEF Place
<1> DEFINE T == {k \in 0 .. Period - 1 : \E a \in Block16 : Value(a) = k}
<1>1. 0 \in T
  <2> DEFINE zero == [i \in Place |-> 0]
  <2>1. zero \in Block16 /\ \A i \in Place : zero[i] = 0
    BY DEF Block16
  <2> HIDE DEF zero
  <2>2. PICK v : Prefixes(v, zero) /\ Value(zero) = v[Bytes]
    BY <2>1, ValueRead
  <2> DEFINE U == {k \in 0 .. Bytes : v[k] = 0}
  <2>3. 0 \in U
    BY <2>2 DEF Prefixes
  <2>4. ASSUME NEW k \in 0 .. Bytes - 1, k \in U PROVE k + 1 \in U
    <3>1. k + 1 \in Place /\ k + 1 \in 0 .. Bytes /\ (k + 1) - 1 = k
      OBVIOUS
    <3>2. v[k + 1] = 0 * Base + 0
      BY <2>1, <2>2, <2>4, <3>1 DEF Prefixes
    <3> QED
      BY <3>1, <3>2
  <2>5. \A k \in 0 .. Bytes : k \in U
    <3> HIDE DEF U
    <3> QED
      BY <2>3, <2>4, InductionTo
  <2> QED
    BY <2>1, <2>2, <2>5
<1>2. ASSUME NEW k \in 0 .. (Period - 1) - 1, k \in T PROVE k + 1 \in T
  <2>1. PICK a \in Block16 : Value(a) = k
    BY <1>2
  <2>2. Incremented(a) \in Block16 /\ Value(Incremented(a)) = (k + 1) % Period
    BY <2>1, IncrementedIs DEF AddCounter
  <2>3. (k + 1) % Period = k + 1
    OBVIOUS
  <2> QED
    BY <2>2, <2>3
<1>3. \A k \in 0 .. Period - 1 : k \in T
  <2> HIDE DEF T
  <2>1. Period - 1 \in Nat
    OBVIOUS
  <2> QED
    BY <1>1, <1>2, <2>1, InductionTo
<1> QED
  BY <1>3 DEF Counter, Digits

\* One turn of add_counter's loop.
Sums == [counter : Block16, blocks : 0 .. Word - 1]

Turn(acc, s, i) ==
  /\ s \in Sums
  /\ acc.counter[i] + acc.blocks = s.counter[i] + s.blocks * Base
  /\ \A j \in Place : j # i => s.counter[j] = acc.counter[j]

LEMMA AddByteIs ==
  ASSUME NEW acc \in Sums, NEW i \in Place
  PROVE  Turn(acc, AddByte(acc, i), i)
<1> USE CounterAssumption DEF Place
<1>1. PICK c \in Block16, n \in 0 .. Word - 1 : c = acc.counter /\ n = acc.blocks
  BY DEF Sums
<1>2. PICK b \in 0 .. Base - 1 : b = c[i]
  BY DEF Block16
<1>3. PICK m \in Nat, low \in Nat : n = m * Base + low /\ low < Base /\ n % Base = low
  <2>1. n \in Nat /\ Base \in Nat \ {0}
    OBVIOUS
  <2> QED
    BY <2>1, DivMod
<1>4. n \div Base = m
  BY <1>3
<1>5. PICK sum \in Nat : sum = b + low
  OBVIOUS
<1>6. PICK q \in Nat, s \in Nat : sum = q * Base + s /\ s < Base /\ sum % Base = s
  BY DivMod
<1>7. sum \div Base = q
  BY <1>6
<1>8. q = 0 \/ q = 1
  <2>1. sum < Base + Base
    BY <1>3, <1>5
  <2>2. ~ (1 < q)
    <3>1. ASSUME 1 < q PROVE FALSE
      <4>1. 1 * Base + Base <= q * Base /\ q * Base \in Nat
        BY <3>1, Apart, Product
      <4> QED
        BY <1>6, <2>1, <4>1
    <3> QED
      BY <3>1
  <2> QED
    BY <2>2
<1>9. m + q \in Nat /\ m + q <= n
  <2>1. m = 0 \/ m + 1 <= m * Base
    BY Apart
  <2>2. n = 0 => q = 0
    <3>1. ASSUME n = 0, q = 1 PROVE FALSE
      <4>1. m * Base \in Nat
        BY Product
      <4>2. low = 0
        BY <1>3, <3>1, <4>1
      <4> QED
        BY <1>5, <1>6, <3>1, <4>2
    <3> QED
      BY <1>8, <3>1
  <2>3. m * Base \in Nat
    BY Product
  <2> QED
    BY <1>3, <1>8, <2>1, <2>2, <2>3
<1>10. (m + q) % Word = m + q
  BY <1>9
<1> DEFINE t == [counter |-> [c EXCEPT ![i] = s], blocks |-> m + q]
<1>11. AddByte(acc, i) = t
  BY <1>1, <1>2, <1>3, <1>4, <1>5, <1>6, <1>7, <1>10 DEF AddByte
<1>12. t.blocks = m + q /\ t.counter[i] = s /\ \A j \in Place : j # i => t.counter[j] = c[j]
  BY DEF Block16
<1>13. t \in Sums
  <2>1. s \in 0 .. Base - 1
    BY <1>6
  <2>2. [c EXCEPT ![i] = s] \in Block16
    BY <2>1 DEF Block16
  <2>3. m + q \in 0 .. Word - 1
    BY <1>9
  <2> QED
    BY <2>2, <2>3 DEF Sums
<1>14. b + n = s + (m + q) * Base
  <2>1. (m + q) * Base = m * Base + q * Base /\ m * Base \in Nat /\ q * Base \in Nat
    BY Product
  <2> QED
    BY <1>3, <1>5, <1>6, <2>1
<1> HIDE DEF t
<1> QED
  BY <1>1, <1>2, <1>11, <1>12, <1>13, <1>14 DEF Turn

\* The loop.
Turns(f, a, n) ==
  /\ f \in [0 .. Bytes -> Sums] /\ f[0] = [counter |-> a, blocks |-> n]
  /\ \A k \in 1 .. Bytes : Turn(f[k - 1], f[k], Bytes + 1 - k)

LEMMA AddedRead ==
  ASSUME NEW a \in Block16, NEW n \in 0 .. Word - 1
  PROVE  \E f : Turns(f, a, n) /\ Added(a, n) = f[Bytes].counter
<1> USE CounterAssumption
<1> DEFINE x == [counter |-> a, blocks |-> n]
           h == [p \in (1 .. Bytes) \X Sums |-> AddByte(p[2], Bytes + 1 - p[1])]
           After(F) == F = [k \in 0 .. Bytes |-> IF k = 0 THEN x
                                                 ELSE AddByte(F[k - 1], Bytes + 1 - k)]
           after == CHOOSE F : After(F)
<1>1. x \in Sums
  BY DEF Sums
<1>2. ASSUME NEW k \in 1 .. Bytes, NEW s \in Sums
      PROVE  /\ AddByte(s, Bytes + 1 - k) \in Sums
             /\ Turn(s, AddByte(s, Bytes + 1 - k), Bytes + 1 - k)
  <2>1. Bytes + 1 - k \in Place
    BY DEF Place
  <2>2. Turn(s, AddByte(s, Bytes + 1 - k), Bytes + 1 - k)
    BY <2>1, AddByteIs
  <2> QED
    BY <2>2 DEF Turn
<1>3. /\ h \in [(1 .. Bytes) \X Sums -> Sums]
      /\ \A k \in 1 .. Bytes, s \in Sums : h[<<k, s>>] = AddByte(s, Bytes + 1 - k)
  BY <1>2
<1> HIDE DEF h, x
<1>4. PICK f : Iterates(f, Sums, x, Bytes, h)
  BY <1>1, <1>3, IterationExists
<1>5. f \in [0 .. Bytes -> Sums] /\ f[0] = x /\ \A k \in 1 .. Bytes : f[k] = h[<<k, f[k - 1]>>]
  BY <1>4 DEF Iterates
<1>6. ASSUME NEW k \in 1 .. Bytes
      PROVE  f[k] = AddByte(f[k - 1], Bytes + 1 - k)
  <2>1. k - 1 \in 0 .. Bytes
    OBVIOUS
  <2>2. PICK s \in Sums : s = f[k - 1]
    BY <1>5, <2>1
  <2> QED
    BY <1>3, <1>5, <2>2
<1>7. After(f)
  <2>1. f = [k \in 0 .. Bytes |-> f[k]]
    BY <1>5
  <2>2. \A k \in 0 .. Bytes : f[k] = IF k = 0 THEN x ELSE AddByte(f[k - 1], Bytes + 1 - k)
    BY <1>5, <1>6
  <2> QED
    BY <2>1, <2>2
<1> HIDE DEF After
<1>8. After(after)
  BY <1>7
<1>9. Added(a, n) = after[Bytes].counter
  BY DEF Added, After, x
<1> HIDE DEF after
<1>10. after = [k \in 0 .. Bytes |-> IF k = 0 THEN x ELSE AddByte(after[k - 1], Bytes + 1 - k)]
  BY <1>8 DEF After
<1>11. /\ after[0] = x
       /\ \A k \in 1 .. Bytes : after[k] = AddByte(after[k - 1], Bytes + 1 - k)
  BY <1>10
<1> DEFINE T == {k \in 0 .. Bytes : after[k] \in Sums}
<1>12. 0 \in T
  BY <1>1, <1>11
<1>13. ASSUME NEW k \in 0 .. Bytes - 1, k \in T
       PROVE  k + 1 \in T
  <2>1. k + 1 \in 1 .. Bytes /\ k + 1 \in 0 .. Bytes /\ (k + 1) - 1 = k
    OBVIOUS
  <2>2. PICK s \in Sums : s = after[k]
    BY <1>13
  <2>3. after[k + 1] = AddByte(s, Bytes + 1 - (k + 1))
    BY <1>11, <2>1, <2>2
  <2> QED
    BY <1>2, <2>1, <2>3
<1>14. \A k \in 0 .. Bytes : k \in T
  <2> HIDE DEF T
  <2> QED
    BY <1>12, <1>13, InductionTo
<1>15. after \in [0 .. Bytes -> Sums]
  BY <1>10, <1>14
<1>16. ASSUME NEW k \in 1 .. Bytes
       PROVE  Turn(after[k - 1], after[k], Bytes + 1 - k)
  <2>1. k - 1 \in 0 .. Bytes
    OBVIOUS
  <2>2. PICK s \in Sums : s = after[k - 1]
    BY <1>15, <2>1
  <2> QED
    BY <1>2, <1>11, <2>2
<1> QED
  BY <1>9, <1>11, <1>15, <1>16 DEF Turns, x

\* add_counter.
LEMMA AddedIs ==
  ASSUME NEW a \in Block16, NEW n \in 0 .. Word - 1
  PROVE  Value(Added(a, n)) = AddCounter(Value(a), n)
<1> USE CounterAssumption
<1>1. PICK f : Turns(f, a, n) /\ Added(a, n) = f[Bytes].counter
  BY AddedRead
<1> DEFINE d == [j \in 0 .. Bytes |-> f[Bytes - j].blocks]
<1>2. ASSUME NEW k \in 0 .. Bytes
      PROVE  f[k].counter \in Block16 /\ f[k].blocks \in Nat
  BY <1>1 DEF Turns, Sums
<1>3. d \in [0 .. Bytes -> Nat] /\ \A k \in 0 .. Bytes : d[Bytes - k] = f[k].blocks
  <2>1. ASSUME NEW k \in 0 .. Bytes
        PROVE  Bytes - k \in 0 .. Bytes /\ Bytes - (Bytes - k) = k
    OBVIOUS
  <2> QED
    BY <1>2, <2>1
<1> HIDE DEF d
\* Behind the place that the loop has come to the sums are done, and before it
\* are the bytes of a.
<1> DEFINE DoneAt(k, i) == IF i > Bytes - k
                           THEN a[i] + d[i] = f[k].counter[i] + d[i - 1] * Base
                           ELSE f[k].counter[i] = a[i]
           T == {k \in 0 .. Bytes : \A i \in Place : DoneAt(k, i)}
<1>4. 0 \in T
  <2>1. f[0].counter = a
    BY <1>1 DEF Turns
  <2>2. \A i \in Place : ~ (i > Bytes - 0)
    BY DEF Place
  <2> QED
    BY <2>1, <2>2
<1>5. ASSUME NEW k \in 0 .. Bytes - 1, k \in T
      PROVE  k + 1 \in T
  <2>1. /\ k + 1 \in 1 .. Bytes /\ k + 1 \in 0 .. Bytes /\ (k + 1) - 1 = k
        /\ Bytes + 1 - (k + 1) = Bytes - k /\ Bytes - k \in Place /\ k \in 0 .. Bytes
        /\ (Bytes - k) - 1 = Bytes - (k + 1)
    BY DEF Place
  <2>2. Turn(f[k], f[k + 1], Bytes - k)
    BY <1>1, <2>1 DEF Turns
  <2>3. ASSUME NEW i \in Place PROVE DoneAt(k + 1, i)
    <3>1. DoneAt(k, i)
      BY <1>5
    <3>2. CASE i = Bytes - k
      <4>1. i > Bytes - (k + 1) /\ ~ (i > Bytes - k)
        BY <3>2
      <4>2. f[k].counter[i] = a[i]
        BY <3>1, <4>1
      <4>3. f[k].counter[i] + f[k].blocks = f[k + 1].counter[i] + f[k + 1].blocks * Base
        BY <2>2, <3>2 DEF Turn
      <4>4. d[i] = f[k].blocks /\ d[i - 1] = f[k + 1].blocks
        BY <1>3, <2>1, <3>2
      <4> QED
        BY <4>1, <4>2, <4>3, <4>4
    <3>3. CASE i # Bytes - k
      <4>1. f[k + 1].counter[i] = f[k].counter[i]
        BY <2>2, <3>3 DEF Turn
      <4>2. i > Bytes - (k + 1) <=> i > Bytes - k
        BY <3>3 DEF Place
      <4> QED
        BY <3>1, <4>1, <4>2
    <3> QED
      BY <3>2, <3>3
  <2> QED
    BY <2>1, <2>3
<1>6. \A k \in 0 .. Bytes : k \in T
  <2> HIDE DEF T
  <2> QED
    BY <1>4, <1>5, InductionTo
<1>7. \A i \in Place : a[i] + d[i] = f[Bytes].counter[i] + d[i - 1] * Base
  <2>1. \A i \in Place : i > Bytes - Bytes
    BY DEF Place
  <2> QED
    BY <1>6, <2>1
<1>8. Carries(a, f[Bytes].counter, d)
  BY <1>3, <1>7 DEF Carries
<1>9. d[Bytes] = n
  <2>1. d[Bytes - 0] = f[0].blocks /\ Bytes - 0 = Bytes
    BY <1>3
  <2> QED
    BY <1>1, <2>1 DEF Turns
<1> QED
  BY <1>1, <1>2, <1>8, <1>9, Carried

\* increment_counter and add_counter do to an array what CtrParallel does to the
\* number it stands for, whatever the number of bytes and the length of the input.
THEOREM CountersAreRight == Spec => []CountersAreNumbers
<1>1. CtrInv => CountersAreNumbers
  <2> SUFFICES ASSUME CtrInv, NEW w \in Worker
               PROVE  /\ Value(Incremented(Digits(job[w].counter))) = AddCounter(job[w].counter, 1)
                      /\ Started(w) =>
                           Value(Added(Digits(nonce), w * Width)) = AddCounter(nonce, w * Width)
    BY DEF CountersAreNumbers
  <2> USE CounterAssumption, ConstantsAssumption
  <2>1. job[w].counter \in Counter /\ nonce \in Counter /\ size \in Nat /\ size < Word
    BY DEF CtrInv, TypeOK, InRange
  <2>2. Value(Incremented(Digits(job[w].counter))) = AddCounter(job[w].counter, 1)
    BY <2>1, DigitsOf, IncrementedIs
  <2>3. ASSUME Started(w)
        PROVE  Value(Added(Digits(nonce), w * Width)) = AddCounter(nonce, w * Width)
    <3>1. job[w].start = Lo(w) /\ Lo(w) < size /\ job[w].start \in Nat
      BY <2>3 DEF CtrInv, JobInv, TypeOK, InRange
    <3>2. PICK n \in Nat : n = w * Width
      <4>1. Width \in Nat
        BY <2>1, <3>1, WidthFacts DEF CtrInv
      <4> QED
        BY <4>1, Product DEF Worker
    <3>3. n <= n * BlockSize
      BY Apart
    <3>4. n * BlockSize < size /\ n * BlockSize \in Nat
      BY <3>1, <3>2, Product DEF Lo
    <3>5. n \in 0 .. Word - 1
      BY <2>1, <3>3, <3>4
    <3>6. Digits(nonce) \in Block16 /\ Value(Digits(nonce)) = nonce
      BY <2>1, DigitsOf
    <3> QED
      BY <3>2, <3>5, <3>6, AddedIs
  <2> QED
    BY <2>2, <2>3
<1> QED
  BY <1>1, CtrInvHolds, PTL
=============================================================================
