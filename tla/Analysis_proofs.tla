--------------------------- MODULE Analysis_proofs ---------------------------
(***************************************************************************)
(* The analysis of one diff, for every request, every output of the tools, *)
(* every reply of the language model and every limit: what is split into   *)
(* batches, shown in a prompt, joined, deduplicated, ranked, capped and     *)
(* tabulated adds up.                                                       *)
(***************************************************************************)
EXTENDS Analysis, Merger_proofs

-----------------------------------------------------------------------------
(* Sums *)

(* The sum of a list of naturals, as the loop that adds them up.            *)
LEMMA SumLoop ==
  ASSUME NEW s \in Seq(Nat)
  PROVE  \E acc \in [0..Len(s) -> Nat] :
           /\ acc[0] = 0 /\ acc[Len(s)] = SumSeq(s)
           /\ \A n \in 1..Len(s) : acc[n] = acc[n - 1] + s[n]
<1> DEFINE N == Len(s)
           X == Nat
           h == [p \in (1..N) \X X |-> p[2] + s[p[1]]]
           Sol(f) == f = [T \in SUBSET (1..N) |->
                            IF T = {} THEN 0 ELSE f[T \ {Max(T)}] + s[Max(T)]]
           iter == CHOOSE f : Sol(f)
<1>1. N \in Nat /\ DOMAIN s = 1..N /\ 0 \in X /\ \A n \in 1..N : s[n] \in X
  OBVIOUS
<1>2. SumSeq(s) = iter[1..N]
  BY <1>1 DEF SumSeq, FoldLeft, MapThenFoldSet
<1>3. \A n \in 1..N, x \in X : h[n, x] = x + s[n]
  BY <1>1
<1>4. h \in [(1..N) \X X -> X]
  BY <1>1
<1> HIDE DEF h, N, X
<1>5. PICK f \in [SUBSET (1..N) -> X] : FoldOf(f, N, 0, h)
  BY <1>1, <1>4, FoldExists
<1>6. Sol(f)
  <2>1. \A T \in SUBSET (1..N) : f[T \ {Max(T)}] \in X
    OBVIOUS
  <2>2. \A T \in SUBSET (1..N) : T # {} => h[Max(T), f[T \ {Max(T)}]] = f[T \ {Max(T)}] + s[Max(T)]
    BY <1>1, <1>3, <2>1, MaxOfPart
  <2>3. \A T \in SUBSET (1..N) : f[T] = IF T = {} THEN 0 ELSE f[T \ {Max(T)}] + s[Max(T)]
    BY <1>5, <2>2 DEF FoldOf
  <2> QED
    BY <2>3
<1> HIDE DEF Sol
<1>7. Sol(iter)
  BY <1>6
<1> HIDE DEF iter
<1>8. FoldWithin(iter, N, X, 0, h)
  <2> SUFFICES ASSUME NEW T \in SUBSET (1..N)
               PROVE  /\ T = {} => iter[T] = 0
                      /\ T # {} /\ iter[T \ {Max(T)}] \in X
                           => iter[T] = h[Max(T), iter[T \ {Max(T)}]]
    BY DEF FoldWithin
  <2>1. iter[T] = IF T = {} THEN 0 ELSE iter[T \ {Max(T)}] + s[Max(T)]
    BY <1>7 DEF Sol
  <2>2. T # {} => Max(T) \in 1..N
    BY <1>1, MaxOfPart
  <2> QED
    BY <1>3, <2>1, <2>2
<1>9. PICK acc \in [0..N -> X] : LoopOf(acc, N, 0, h) /\ acc[N] = iter[1..N]
  <2>1. LoopEndsWith(iter[1..N], N, X, 0, h)
    BY <1>1, <1>4, <1>8, FoldIsLoop
  <2> QED
    BY <2>1 DEF LoopEndsWith
<1>10. \A n \in 1..N : acc[n] = acc[n - 1] + s[n]
  <2>1. \A n \in 1..N : acc[n] = h[n, acc[n - 1]] /\ acc[n - 1] \in X
    BY <1>1, <1>9, UpTo DEF LoopOf
  <2> QED
    BY <1>3, <2>1
<1> QED
  BY <1>2, <1>9, <1>10 DEF LoopOf, N, X

(* The empty list adds up to nothing.                                       *)
LEMMA SumEmpty == SumSeq(<<>>) = 0
<1>1. <<>> \in Seq(Nat) /\ Len(<<>>) = 0
  OBVIOUS
<1> QED
  BY <1>1, SumLoop

(* One more number adds itself to the sum.                                  *)
LEMMA SumAppend ==
  ASSUME NEW s \in Seq(Nat), NEW x \in Nat
  PROVE  SumSeq(s) \in Nat /\ SumSeq(Append(s, x)) = SumSeq(s) + x
<1> DEFINE N == Len(s)
           t == Append(s, x)
<1>1. N \in Nat /\ t \in Seq(Nat) /\ Len(t) = N + 1 /\ t[N + 1] = x
      /\ \A n \in 1..N : t[n] = s[n]
  OBVIOUS
<1> HIDE DEF t
<1>2. PICK a \in [0..N -> Nat] :
        /\ a[0] = 0 /\ a[N] = SumSeq(s)
        /\ \A n \in 1..N : a[n] = a[n - 1] + s[n]
  BY SumLoop
<1>3. PICK b \in [0..Len(t) -> Nat] :
        /\ b[0] = 0 /\ b[Len(t)] = SumSeq(t)
        /\ \A n \in 1..Len(t) : b[n] = b[n - 1] + t[n]
  BY <1>1, SumLoop, Zenon
<1> HIDE DEF N
<1> DEFINE Same == {n \in 0..N : a[n] = b[n]}
<1>4. 0 \in Same
  BY <1>1, <1>2, <1>3
<1>5. ASSUME NEW n \in 1..N, n - 1 \in Same
      PROVE  n \in Same
  <2>1. a[n - 1] = b[n - 1] /\ n \in 0..N /\ n \in 1..Len(t) /\ t[n] = s[n]
    BY <1>1, <1>5, UpTo
  <2>2. a[n] = a[n - 1] + s[n] /\ b[n] = b[n - 1] + t[n]
    BY <1>2, <1>3, <2>1
  <2> QED
    BY <2>1, <2>2
<1>6. 0..N \subseteq Same
  <2> HIDE DEF Same
  <2> QED
    BY <1>1, <1>4, <1>5, InductionUpTo
<1>7. N + 1 \in 1..Len(t) /\ (N + 1) - 1 = N /\ N \in 0..N
  BY <1>1
<1>8. a[N] = b[N] /\ b[N + 1] = b[N] + t[N + 1]
  BY <1>3, <1>6, <1>7
<1>9. SumSeq(t) = SumSeq(s) + x /\ SumSeq(s) \in Nat
  BY <1>1, <1>2, <1>3, <1>7, <1>8
<1> QED
  BY <1>9 DEF t

-----------------------------------------------------------------------------
(* Batches *)

BatchState == [done : Seq(Seq(File)), batch : Seq(File), size : Nat]
NoBatches == [done |-> <<>>, batch |-> <<>>, size |-> 0]

(* The loop of _create_batches keeps its list, batch and size well typed.   *)
LEMMA BatchStateType ==
  /\ NoBatches \in BatchState
  /\ \A acc \in BatchState, f \in File : AddToBatches(acc, f) \in BatchState
<1>1. NoBatches \in BatchState
  BY DEF NoBatches, BatchState
<1>2. ASSUME NEW acc \in BatchState, NEW f \in File
      PROVE  AddToBatches(acc, f) \in BatchState
  <2>1. acc.done \in Seq(Seq(File)) /\ acc.batch \in Seq(File) /\ acc.size \in Nat /\ f.size \in Nat
    BY DEF BatchState, File
  <2>2. /\ <<f>> \in Seq(File) /\ Append(acc.batch, f) \in Seq(File)
        /\ Append(acc.done, acc.batch) \in Seq(Seq(File)) /\ acc.size + f.size \in Nat
    BY <2>1
  <2> QED
    BY <2>1, <2>2 DEF BatchState, AddToBatches
<1> QED
  BY <1>1, <1>2

(* _create_batches as its loop.                                             *)
LEMMA BatchLoop ==
  ASSUME NEW files \in Seq(File)
  PROVE  \E acc \in [0..Len(files) -> BatchState] :
           /\ acc[0] = NoBatches
           /\ \A n \in 1..Len(files) : acc[n] = AddToBatches(acc[n - 1], files[n])
           /\ CreateBatches(files) = IF acc[Len(files)].batch = <<>> THEN acc[Len(files)].done
                                     ELSE Append(acc[Len(files)].done, acc[Len(files)].batch)
<1> DEFINE N == Len(files)
           X == BatchState
           h == [p \in (1..N) \X X |-> AddToBatches(p[2], files[p[1]])]
           Sol(f) == f = [T \in SUBSET (1..N) |->
                            IF T = {} THEN NoBatches
                            ELSE AddToBatches(f[T \ {Max(T)}], files[Max(T)])]
           iter == CHOOSE f : Sol(f)
           end == iter[1..N]
<1>1. /\ N \in Nat /\ DOMAIN files = 1..N /\ NoBatches \in X
      /\ \A n \in 1..N, x \in X : AddToBatches(x, files[n]) \in X
  BY BatchStateType
<1>2. CreateBatches(files) = IF end.batch = <<>> THEN end.done ELSE Append(end.done, end.batch)
  <2>1. FoldLeft(AddToBatches, NoBatches, files) = end
    BY <1>1 DEF FoldLeft, MapThenFoldSet
  <2> QED
    BY <2>1 DEF CreateBatches, NoBatches
<1>3. \A n \in 1..N, x \in X : h[n, x] = AddToBatches(x, files[n])
  OBVIOUS
<1>4. h \in [(1..N) \X X -> X]
  BY <1>1
<1> HIDE DEF h, N, X
<1>5. PICK f \in [SUBSET (1..N) -> X] : FoldOf(f, N, NoBatches, h)
  BY <1>1, <1>4, FoldExists
<1>6. Sol(f)
  <2>1. \A T \in SUBSET (1..N) : f[T \ {Max(T)}] \in X
    OBVIOUS
  <2>2. \A T \in SUBSET (1..N) :
          T # {} => h[Max(T), f[T \ {Max(T)}]] = AddToBatches(f[T \ {Max(T)}], files[Max(T)])
    BY <1>1, <1>3, <2>1, MaxOfPart
  <2>3. \A T \in SUBSET (1..N) :
          f[T] = IF T = {} THEN NoBatches ELSE AddToBatches(f[T \ {Max(T)}], files[Max(T)])
    BY <1>5, <2>2 DEF FoldOf
  <2> QED
    BY <2>3
<1> HIDE DEF Sol
<1>7. Sol(iter)
  BY <1>6
<1> HIDE DEF iter
<1>8. FoldWithin(iter, N, X, NoBatches, h)
  <2> SUFFICES ASSUME NEW T \in SUBSET (1..N)
               PROVE  /\ T = {} => iter[T] = NoBatches
                      /\ T # {} /\ iter[T \ {Max(T)}] \in X
                           => iter[T] = h[Max(T), iter[T \ {Max(T)}]]
    BY DEF FoldWithin
  <2>1. iter[T] = IF T = {} THEN NoBatches ELSE AddToBatches(iter[T \ {Max(T)}], files[Max(T)])
    BY <1>7 DEF Sol
  <2>2. T # {} => Max(T) \in 1..N
    BY <1>1, MaxOfPart
  <2> QED
    BY <1>3, <2>1, <2>2
<1>9. PICK acc \in [0..N -> X] : LoopOf(acc, N, NoBatches, h) /\ acc[N] = iter[1..N]
  <2>1. LoopEndsWith(iter[1..N], N, X, NoBatches, h)
    BY <1>1, <1>4, <1>8, FoldIsLoop
  <2> QED
    BY <2>1 DEF LoopEndsWith
<1>10. \A n \in 1..N : acc[n] = AddToBatches(acc[n - 1], files[n])
  <2>1. \A n \in 1..N : acc[n] = h[n, acc[n - 1]] /\ acc[n - 1] \in X
    BY <1>1, <1>9, UpTo DEF LoopOf
  <2> QED
    BY <1>3, <2>1
<1>11. acc[0] = NoBatches
  BY <1>9 DEF LoopOf
<1> QED
  BY <1>2, <1>9, <1>10, <1>11 DEF N, X

(* The characters of a batch with one more file.                            *)
LEMMA CharactersAppend ==
  ASSUME NEW batch \in Seq(File), NEW f \in File
  PROVE  /\ Characters(<<>>) = 0
         /\ Characters(batch) \in Nat
         /\ Characters(<<f>>) = f.size
         /\ Characters(Append(batch, f)) = Characters(batch) + f.size
<1> DEFINE sizes(b) == [n \in DOMAIN b |-> b[n].size]
<1>1. ASSUME NEW b \in Seq(File)
      PROVE  /\ sizes(b) \in Seq(Nat)
             /\ sizes(Append(b, f)) = Append(sizes(b), f.size)
  <2>1. Len(b) \in Nat /\ DOMAIN b = 1..Len(b) /\ \A n \in 1..Len(b) : b[n].size \in Nat
    <3>1. \A g \in File : g.size \in Nat
      BY DEF File
    <3>2. Len(b) \in Nat /\ DOMAIN b = 1..Len(b) /\ \A n \in 1..Len(b) : b[n] \in File
      OBVIOUS
    <3> QED
      BY <3>1, <3>2
  <2>2. sizes(b) \in Seq(Nat) /\ Len(sizes(b)) = Len(b)
    BY <2>1
  <2>3. /\ DOMAIN Append(b, f) = 1..(Len(b) + 1) /\ Append(b, f)[Len(b) + 1] = f
        /\ \A n \in 1..Len(b) : Append(b, f)[n] = b[n]
    BY <2>1
  <2>4. sizes(Append(b, f)) = [n \in 1..(Len(b) + 1) |-> Append(b, f)[n].size]
    BY <2>3
  <2>5. \A n \in 1..(Len(b) + 1) : Append(sizes(b), f.size)[n] = Append(b, f)[n].size
    BY <2>1, <2>2, <2>3
  <2>6. Append(sizes(b), f.size) = [n \in 1..(Len(b) + 1) |-> Append(sizes(b), f.size)[n]]
    BY <2>2
  <2> QED
    BY <2>2, <2>4, <2>5, <2>6
<1>2. f.size \in Nat
  BY DEF File
<1>3. sizes(<<>>) = <<>> /\ <<>> \in Seq(File) /\ Append(<<>>, f) = <<f>>
  OBVIOUS
<1>4. \A b \in Seq(File) : Characters(b) = SumSeq(sizes(b))
  BY DEF Characters
<1>5. Append(batch, f) \in Seq(File) /\ <<f>> \in Seq(File)
  OBVIOUS
<1> HIDE DEF sizes
<1>6. ASSUME NEW b \in Seq(File), Append(b, f) \in Seq(File)
      PROVE  Characters(b) \in Nat /\ Characters(Append(b, f)) = Characters(b) + f.size
  BY <1>1, <1>2, <1>4, <1>6, SumAppend
<1>7. Characters(<<>>) = 0
  BY <1>3, <1>4, SumEmpty
<1>8. Characters(<<f>>) = f.size
  <2>1. Characters(<<f>>) = Characters(<<>>) + f.size
    BY <1>3, <1>5, <1>6
  <2> QED
    BY <1>2, <1>7, <2>1
<1> QED
  BY <1>5, <1>6, <1>7, <1>8

\* A batch within the limits, and two neighbours that would not fit in one.
WithinLimits(batch) ==
  /\ Len(batch) \in 1..MaxFilesPerBatch
  /\ Len(batch) > 1 => Characters(batch) <= MaxDiffChars
NoRoomFor(batch, next) ==
  \/ Len(batch) = MaxFilesPerBatch
  \/ Characters(batch) + next[1].size > MaxDiffChars

\* What _create_batches has after n files.
BatchInv(files, n, acc) ==
  /\ FlattenSeq(acc.done) \o acc.batch = SubSeq(files, 1, n)
  /\ acc.size = Characters(acc.batch)
  /\ acc.batch = <<>> => acc.done = <<>>
  /\ acc.batch # <<>> => WithinLimits(acc.batch)
  /\ \A k \in DOMAIN acc.done :
       /\ WithinLimits(acc.done[k])
       /\ k > 1 => NoRoomFor(acc.done[k - 1], acc.done[k])
  /\ acc.done # <<>> => NoRoomFor(acc.done[Len(acc.done)], acc.batch)

(* One turn of the loop of _create_batches: the file joins the current      *)
(* batch, or closes it and opens the next.                                  *)
LEMMA BatchStep ==
  ASSUME NEW files \in Seq(File), NEW n \in 1..Len(files), NEW acc \in BatchState,
         BatchInv(files, n - 1, acc)
  PROVE  BatchInv(files, n, AddToBatches(acc, files[n]))
<1> DEFINE f == files[n]
           next == AddToBatches(acc, f)
           D == Len(acc.done)
<1>1. /\ acc.done \in Seq(Seq(File)) /\ acc.batch \in Seq(File) /\ acc.size \in Nat
      /\ f \in File /\ f.size \in Nat
  <2>1. f \in File
    OBVIOUS
  <2> HIDE DEF f
  <2> QED
    BY <2>1 DEF BatchState, File
<1>2. MaxDiffChars \in Nat \ {0} /\ MaxFilesPerBatch \in Nat \ {0}
  BY LimitsAssumption
<1>3. SubSeq(files, 1, n) = Append(SubSeq(files, 1, n - 1), f)
  BY SubSeqGrows
<1>4. /\ Characters(<<f>>) = f.size
      /\ Characters(Append(acc.batch, f)) = Characters(acc.batch) + f.size
      /\ Characters(acc.batch) \in Nat
  BY <1>1, CharactersAppend
<1>5. /\ FlattenSeq(acc.done) \in Seq(File)
      /\ FlattenSeq(Append(acc.done, acc.batch)) = FlattenSeq(acc.done) \o acc.batch
  BY <1>1, FlattenAppend
<1> HIDE DEF f
<1>6. CASE /\ acc.batch # <<>>
           /\ Len(acc.batch) >= MaxFilesPerBatch \/ acc.size + f.size > MaxDiffChars
  <2>1. next = [done |-> Append(acc.done, acc.batch), batch |-> <<f>>, size |-> f.size]
    BY <1>6 DEF AddToBatches
  <2> DEFINE more == Append(acc.done, acc.batch)
  <2>2. /\ D \in Nat /\ DOMAIN acc.done = 1..D /\ more \in Seq(Seq(File))
        /\ DOMAIN more = 1..(D + 1) /\ Len(more) = D + 1 /\ more # <<>>
        /\ more[D + 1] = acc.batch
        /\ \A k \in 1..D : more[k] = acc.done[k]
    <3>1. IsGrown(Seq(File), acc.done, acc.batch, more)
      BY <1>1, AppendLemma
    <3> QED
      BY <3>1 DEF IsGrown
  <2> HIDE DEF more, D
  <2>3. FlattenSeq(more) \o <<f>> = SubSeq(files, 1, n)
    <3>1. FlattenSeq(more) = SubSeq(files, 1, n - 1)
      BY <1>5 DEF BatchInv, more
    <3>2. \A s \in Seq(File) : s \o <<f>> = Append(s, f)
      BY <1>1
    <3>3. SubSeq(files, 1, n - 1) \in Seq(File)
      BY SubSeqGrows
    <3> QED
      BY <1>3, <3>1, <3>2, <3>3
  <2>4. WithinLimits(<<f>>) /\ <<f>> # <<>>
    <3>1. Len(<<f>>) = 1
      OBVIOUS
    <3> QED
      BY <1>2, <3>1 DEF WithinLimits
  <2>5. WithinLimits(acc.batch)
    BY <1>6 DEF BatchInv
  <2>6. NoRoomFor(acc.batch, <<f>>)
    <3>1. <<f>>[1] = f /\ Len(acc.batch) \in Nat
      BY <1>1
    <3> QED
      BY <1>1, <1>2, <1>4, <1>6, <2>5, <3>1 DEF BatchInv, NoRoomFor, WithinLimits
  <2>7. ASSUME NEW k \in 1..(D + 1)
        PROVE  /\ WithinLimits(more[k])
               /\ k > 1 => NoRoomFor(more[k - 1], more[k])
    <3>1. CASE k \in 1..D
      <4>1. k > 1 => k - 1 \in 1..D
        BY <2>2
      <4> QED
        BY <2>2, <3>1, <4>1 DEF BatchInv
    <3>2. CASE k = D + 1
      <4>1. k > 1 => (k - 1 = D /\ D \in 1..D /\ acc.done # <<>>)
        BY <2>2, <3>2
      <4>2. k > 1 => NoRoomFor(acc.done[D], acc.batch)
        BY <4>1 DEF BatchInv, D
      <4> QED
        BY <2>2, <2>5, <3>2, <4>1, <4>2
    <3> QED
      BY <2>2, <3>1, <3>2
  <2>8. next.done = more /\ next.batch = <<f>> /\ next.size = f.size
    BY <2>1 DEF more
  <2> HIDE DEF next
  <2>9. BatchInv(files, n, next)
    BY <1>4, <2>2, <2>3, <2>4, <2>6, <2>7, <2>8 DEF BatchInv
  <2> QED
    BY <2>9 DEF next, f
<1>7. CASE ~ /\ acc.batch # <<>>
             /\ Len(acc.batch) >= MaxFilesPerBatch \/ acc.size + f.size > MaxDiffChars
  <2> DEFINE grown == Append(acc.batch, f)
  <2>1. next = [done |-> acc.done, batch |-> grown, size |-> acc.size + f.size]
    BY <1>7 DEF AddToBatches
  <2>2. /\ grown \in Seq(File) /\ Len(grown) = Len(acc.batch) + 1 /\ grown # <<>>
        /\ Len(acc.batch) \in Nat /\ (acc.batch = <<>> <=> Len(acc.batch) = 0)
        /\ acc.batch # <<>> => grown[1] = acc.batch[1]
    <3>1. IsGrown(File, acc.batch, f, grown)
      BY <1>1, AppendLemma
    <3> QED
      BY <3>1 DEF IsGrown
  <2>3. FlattenSeq(acc.done) \o grown = SubSeq(files, 1, n)
    <3>1. FlattenSeq(acc.done) \o acc.batch = SubSeq(files, 1, n - 1)
      BY DEF BatchInv
    <3>2. FlattenSeq(acc.done) \o grown = Append(FlattenSeq(acc.done) \o acc.batch, f)
      <4>1. \A r, s \in Seq(File) : r \o Append(s, f) = Append(r \o s, f)
        BY <1>1, ConcatLemma
      <4> QED
        BY <1>1, <1>5, <4>1
    <3> QED
      BY <1>3, <3>1, <3>2
  <2> HIDE DEF grown
  <2>4. Characters(grown) = Characters(acc.batch) + f.size
    BY <1>4 DEF grown
  <2>5. WithinLimits(grown)
    <3>1. acc.size = Characters(acc.batch) /\ (acc.batch # <<>> => WithinLimits(acc.batch))
      BY DEF BatchInv
    <3> QED
      BY <1>1, <1>2, <1>7, <2>2, <2>4, <3>1 DEF WithinLimits
  <2>6. acc.done # <<>> => NoRoomFor(acc.done[Len(acc.done)], grown)
    BY <2>2 DEF BatchInv, NoRoomFor
  <2>7. next.done = acc.done /\ next.batch = grown /\ next.size = acc.size + f.size
    BY <2>1
  <2> HIDE DEF next
  <2>8. BatchInv(files, n, next)
    BY <2>2, <2>3, <2>4, <2>5, <2>6, <2>7 DEF BatchInv
  <2> QED
    BY <2>8 DEF next, f
<1> QED
  BY <1>6, <1>7 DEF f

(* _create_batches: the files in order, within the limits, no room between. *)
LEMMA BatchesLemma ==
  ASSUME NEW files \in Seq(File)
  PROVE  /\ CreateBatches(files) \in Seq(Seq(File))
         /\ FlattenSeq(CreateBatches(files)) = files
         /\ \A n \in DOMAIN CreateBatches(files) :
              /\ WithinLimits(CreateBatches(files)[n])
              /\ n > 1 => NoRoomFor(CreateBatches(files)[n - 1], CreateBatches(files)[n])
<1> DEFINE N == Len(files)
<1>1. PICK acc \in [0..N -> BatchState] :
        /\ acc[0] = NoBatches
        /\ \A n \in 1..N : acc[n] = AddToBatches(acc[n - 1], files[n])
        /\ CreateBatches(files) = IF acc[N].batch = <<>> THEN acc[N].done
                                  ELSE Append(acc[N].done, acc[N].batch)
  BY BatchLoop
<1>2. N \in Nat
  OBVIOUS
<1> HIDE DEF N
<1> DEFINE Good == {n \in 0..N : BatchInv(files, n, acc[n])}
<1>3. 0 \in Good
  <2>1. SubSeq(files, 1, 0) = <<>> /\ <<>> \o <<>> = <<>>
    OBVIOUS
  <2>2. FlattenSeq(<<>>) = <<>> /\ Characters(<<>>) = 0
    <3>1. Characters(<<>>) = SumSeq(<<>>)
      <4>1. [n \in DOMAIN <<>> |-> <<>>[n].size] = <<>>
        OBVIOUS
      <4> QED
        BY <4>1 DEF Characters
    <3> QED
      BY <3>1, FlattenEmpty, SumEmpty
  <2>3. /\ NoBatches.done = <<>> /\ NoBatches.batch = <<>> /\ NoBatches.size = 0
        /\ DOMAIN <<>> = {}
    BY DEF NoBatches
  <2>4. BatchInv(files, 0, NoBatches)
    BY <2>1, <2>2, <2>3 DEF BatchInv
  <2> QED
    BY <1>1, <1>2, <2>4, NothingUpTo
<1>4. ASSUME NEW n \in 1..N, n - 1 \in Good
      PROVE  n \in Good
  <2>1. n \in 0..N /\ n - 1 \in 0..N /\ n \in 1..Len(files)
    BY <1>2, UpTo DEF N
  <2>2. acc[n - 1] \in BatchState /\ BatchInv(files, n - 1, acc[n - 1])
    BY <1>1, <1>4, <2>1
  <2>3. BatchInv(files, n, AddToBatches(acc[n - 1], files[n]))
    BY <2>1, <2>2, BatchStep
  <2> QED
    BY <1>1, <2>1, <2>3
<1>5. 0..N \subseteq Good
  <2> HIDE DEF Good
  <2> QED
    BY <1>2, <1>3, <1>4, InductionUpTo
<1>6. acc[N] \in BatchState /\ BatchInv(files, N, acc[N])
  BY <1>1, <1>2, <1>5, UpTo
<1> DEFINE end == acc[N]
           B == CreateBatches(files)
           D == Len(end.done)
<1>7. end.done \in Seq(Seq(File)) /\ end.batch \in Seq(File)
  BY <1>6 DEF BatchState
<1>8. SubSeq(files, 1, N) = files
  BY DEF N
<1>9. B = IF end.batch = <<>> THEN end.done ELSE Append(end.done, end.batch)
  BY <1>1
<1>10. BatchInv(files, N, end)
  BY <1>6
<1> HIDE DEF end, B
<1>11. B \in Seq(Seq(File))
  BY <1>7, <1>9
<1>12. FlattenSeq(B) = files
  <2>1. FlattenSeq(end.done) \o end.batch = files
    BY <1>8, <1>10 DEF BatchInv
  <2>2. /\ FlattenSeq(end.done) \in Seq(File)
        /\ FlattenSeq(Append(end.done, end.batch)) = FlattenSeq(end.done) \o end.batch
    BY <1>7, FlattenAppend
  <2>3. FlattenSeq(end.done) \o <<>> = FlattenSeq(end.done)
    BY <2>2
  <2> QED
    BY <1>9, <2>1, <2>2, <2>3
<1>13. ASSUME NEW k \in DOMAIN B
       PROVE  /\ WithinLimits(B[k])
              /\ k > 1 => NoRoomFor(B[k - 1], B[k])
  <2>1. CASE end.batch = <<>>
    BY <1>9, <1>10, <2>1 DEF BatchInv
  <2>2. CASE end.batch # <<>>
    <3>1. /\ D \in Nat /\ DOMAIN end.done = 1..D /\ DOMAIN B = 1..(D + 1)
          /\ B[D + 1] = end.batch /\ \A j \in 1..D : B[j] = end.done[j]
      BY <1>7, <1>9, <2>2
    <3>2. D > 0 => end.done # <<>>
      BY <1>7
    <3> HIDE DEF D
    <3>3. CASE k \in 1..D
      <4>1. k > 1 => k - 1 \in 1..D
        BY <3>1
      <4> QED
        BY <1>10, <3>1, <3>3, <4>1 DEF BatchInv
    <3>4. CASE k = D + 1
      <4>1. k > 1 => (k - 1 = D /\ D \in 1..D /\ end.done # <<>>)
        BY <3>1, <3>2, <3>4
      <4>2. k > 1 => NoRoomFor(end.done[D], end.batch)
        BY <1>10, <4>1 DEF BatchInv, D
      <4>3. WithinLimits(end.batch)
        BY <1>10, <2>2 DEF BatchInv
      <4> QED
        BY <3>1, <3>4, <4>1, <4>2, <4>3
    <3> QED
      BY <3>1, <3>3, <3>4
  <2> QED
    BY <2>1, <2>2
<1> QED
  BY <1>11, <1>12, <1>13 DEF B

-----------------------------------------------------------------------------
(* The prompt *)

Shown == [path : Nat, chars : Nat]
PromptState == [total : Nat, shown : Seq(Shown)]
EmptyPrompt == [total |-> 0, shown |-> <<>>]

\* What a prompt shows of a file while there is room for characters.
Part(f, room) == [path |-> f.path, chars |-> IF f.size > room THEN room ELSE f.size]

(* One turn of the loop of _build_prompt.                                   *)
LEMMA AddToPromptLemma ==
  ASSUME NEW p \in PromptState, NEW f \in File
  PROVE  /\ AddToPrompt(p, f) \in PromptState
         /\ p.total >= MaxDiffChars => AddToPrompt(p, f) = p
         /\ p.total < MaxDiffChars =>
              /\ Part(f, MaxDiffChars - p.total) \in Shown
              /\ AddToPrompt(p, f).shown = Append(p.shown, Part(f, MaxDiffChars - p.total))
              /\ AddToPrompt(p, f).total =
                   IF f.size > MaxDiffChars - p.total
                   THEN MaxDiffChars + HeaderChars + FenceChars + CutNoteChars
                   ELSE p.total + HeaderChars + FenceChars + f.size
<1> DEFINE room == MaxDiffChars - p.total
           part == Part(f, room)
           extra == IF f.size > room THEN room + CutNoteChars ELSE f.size
           next == AddToPrompt(p, f)
<1>1. /\ p.total \in Nat /\ p.shown \in Seq(Shown) /\ f.size \in Nat /\ f.path \in Nat
  BY DEF PromptState, File
<1>2. /\ MaxDiffChars \in Nat /\ HeaderChars \in Nat /\ FenceChars \in Nat /\ CutNoteChars \in Nat
  BY LimitsAssumption
<1>3. CASE p.total >= MaxDiffChars
  <2>1. next = p
    BY <1>3 DEF AddToPrompt
  <2>2. ~(p.total < MaxDiffChars)
    BY <1>1, <1>2, <1>3
  <2> QED
    BY <2>1, <2>2
<1>4. CASE p.total < MaxDiffChars
  <2>1. ~(p.total >= MaxDiffChars) /\ room \in Nat
    BY <1>1, <1>2, <1>4
  <2>2. next = [total |-> p.total + HeaderChars + FenceChars + extra,
                shown |-> Append(p.shown, part)]
    BY <2>1 DEF AddToPrompt, Part
  <2>3. part \in Shown
    BY <1>1, <2>1 DEF Part, Shown
  <2>4. p.total + HeaderChars + FenceChars + extra \in Nat
    <3>1. room + CutNoteChars \in Nat
      BY <1>2, <2>1
    <3>2. extra \in Nat
      BY <1>1, <3>1
    <3> HIDE DEF extra
    <3> QED
      BY <1>1, <1>2, <3>2
  <2>5. p.total + HeaderChars + FenceChars + extra
           = IF f.size > room THEN MaxDiffChars + HeaderChars + FenceChars + CutNoteChars
             ELSE p.total + HeaderChars + FenceChars + f.size
    BY <1>1, <1>2
  <2> HIDE DEF part, extra, room
  <2>6. Append(p.shown, part) \in Seq(Shown)
    BY <1>1, <2>3
  <2>7. next \in PromptState
    BY <2>2, <2>4, <2>6 DEF PromptState
  <2> HIDE DEF next
  <2>8. next.shown = Append(p.shown, part)
        /\ next.total = p.total + HeaderChars + FenceChars + extra
    BY <2>2
  <2> QED
    BY <2>1, <2>3, <2>5, <2>7, <2>8 DEF part, room, next
<1> QED
  BY <1>1, <1>2, <1>3, <1>4

(* _build_prompt as its loop.                                               *)
LEMMA PromptLoop ==
  ASSUME NEW files \in Seq(File)
  PROVE  \E acc \in [0..Len(files) -> PromptState] :
           /\ acc[0] = EmptyPrompt /\ acc[Len(files)] = BuildPrompt(files)
           /\ \A n \in 1..Len(files) : acc[n] = AddToPrompt(acc[n - 1], files[n])
<1> DEFINE N == Len(files)
           X == PromptState
           h == [p \in (1..N) \X X |-> AddToPrompt(p[2], files[p[1]])]
           Sol(f) == f = [T \in SUBSET (1..N) |->
                            IF T = {} THEN EmptyPrompt
                            ELSE AddToPrompt(f[T \ {Max(T)}], files[Max(T)])]
           iter == CHOOSE f : Sol(f)
<1>1. /\ N \in Nat /\ DOMAIN files = 1..N /\ EmptyPrompt \in X
      /\ \A n \in 1..N, x \in X : AddToPrompt(x, files[n]) \in X
  <2>1. \A n \in 1..N : files[n] \in File
    OBVIOUS
  <2>2. EmptyPrompt \in X
    BY DEF EmptyPrompt, PromptState
  <2> QED
    BY <2>1, <2>2, AddToPromptLemma
<1>2. BuildPrompt(files) = iter[1..N]
  BY <1>1 DEF BuildPrompt, EmptyPrompt, FoldLeft, MapThenFoldSet
<1>3. \A n \in 1..N, x \in X : h[n, x] = AddToPrompt(x, files[n])
  OBVIOUS
<1>4. h \in [(1..N) \X X -> X]
  BY <1>1
<1> HIDE DEF h, N, X
<1>5. PICK f \in [SUBSET (1..N) -> X] : FoldOf(f, N, EmptyPrompt, h)
  BY <1>1, <1>4, FoldExists
<1>6. Sol(f)
  <2>1. \A T \in SUBSET (1..N) : f[T \ {Max(T)}] \in X
    OBVIOUS
  <2>2. \A T \in SUBSET (1..N) :
          T # {} => h[Max(T), f[T \ {Max(T)}]] = AddToPrompt(f[T \ {Max(T)}], files[Max(T)])
    BY <1>1, <1>3, <2>1, MaxOfPart
  <2>3. \A T \in SUBSET (1..N) :
          f[T] = IF T = {} THEN EmptyPrompt ELSE AddToPrompt(f[T \ {Max(T)}], files[Max(T)])
    BY <1>5, <2>2 DEF FoldOf
  <2> QED
    BY <2>3
<1> HIDE DEF Sol
<1>7. Sol(iter)
  BY <1>6
<1> HIDE DEF iter
<1>8. FoldWithin(iter, N, X, EmptyPrompt, h)
  <2> SUFFICES ASSUME NEW T \in SUBSET (1..N)
               PROVE  /\ T = {} => iter[T] = EmptyPrompt
                      /\ T # {} /\ iter[T \ {Max(T)}] \in X
                           => iter[T] = h[Max(T), iter[T \ {Max(T)}]]
    BY DEF FoldWithin
  <2>1. iter[T] = IF T = {} THEN EmptyPrompt ELSE AddToPrompt(iter[T \ {Max(T)}], files[Max(T)])
    BY <1>7 DEF Sol
  <2>2. T # {} => Max(T) \in 1..N
    BY <1>1, MaxOfPart
  <2> QED
    BY <1>3, <2>1, <2>2
<1>9. PICK acc \in [0..N -> X] : LoopOf(acc, N, EmptyPrompt, h) /\ acc[N] = iter[1..N]
  <2>1. LoopEndsWith(iter[1..N], N, X, EmptyPrompt, h)
    BY <1>1, <1>4, <1>8, FoldIsLoop
  <2> QED
    BY <2>1 DEF LoopEndsWith
<1>10. \A n \in 1..N : acc[n] = AddToPrompt(acc[n - 1], files[n])
  <2>1. \A n \in 1..N : acc[n] = h[n, acc[n - 1]] /\ acc[n - 1] \in X
    BY <1>1, <1>9, UpTo DEF LoopOf
  <2> QED
    BY <1>3, <2>1
<1>11. acc[0] = EmptyPrompt
  BY <1>9 DEF LoopOf
<1> QED
  BY <1>2, <1>9, <1>10, <1>11 DEF N, X

\* What _build_prompt has after n files.
PromptInv(batch, n, p) ==
  /\ Len(p.shown) <= n
  /\ n > 0 => Len(p.shown) > 0
  /\ n = 0 => p.total = 0
  /\ Len(p.shown) < n => p.total >= MaxDiffChars
  /\ \A k \in 1..Len(p.shown) :
       /\ p.shown[k].path = batch[k].path
       /\ p.shown[k].chars < batch[k].size => k = Len(p.shown) /\ p.total > MaxDiffChars
  /\ p.total <= MaxDiffChars + HeaderChars + FenceChars + CutNoteChars

(* One turn of the loop of _build_prompt: a file is shown whole, is cut,    *)
(* or, the limit reached, is left out with all that follow.                 *)
LEMMA PromptStep ==
  ASSUME NEW batch \in Seq(File), NEW n \in 1..Len(batch), NEW p \in PromptState,
         PromptInv(batch, n - 1, p)
  PROVE  PromptInv(batch, n, AddToPrompt(p, batch[n]))
<1> DEFINE f == batch[n]
           next == AddToPrompt(p, f)
           part == Part(f, MaxDiffChars - p.total)
           L == Len(p.shown)
<1>1. f \in File /\ n \in Nat /\ n > 0
  OBVIOUS
<1> HIDE DEF f
<1>2. /\ p.total \in Nat /\ p.shown \in Seq(Shown) /\ L \in Nat
      /\ f.size \in Nat /\ f.path \in Nat
  BY <1>1 DEF PromptState, File
<1>3. /\ MaxDiffChars \in Nat \ {0} /\ HeaderChars \in Nat \ {0} /\ FenceChars \in Nat
      /\ CutNoteChars \in Nat
  BY LimitsAssumption
<1>4. /\ L <= n - 1
      /\ n - 1 > 0 => L > 0
      /\ n - 1 = 0 => p.total = 0
      /\ L < n - 1 => p.total >= MaxDiffChars
      /\ \A k \in 1..L :
           /\ p.shown[k].path = batch[k].path
           /\ p.shown[k].chars < batch[k].size => k = L /\ p.total > MaxDiffChars
      /\ p.total <= MaxDiffChars + HeaderChars + FenceChars + CutNoteChars
  BY DEF PromptInv
<1> HIDE DEF L
<1>5. CASE p.total >= MaxDiffChars
  <2>1. next = p
    BY <1>1, <1>5, AddToPromptLemma
  <2>2. L <= n /\ L > 0
    BY <1>1, <1>2, <1>3, <1>4, <1>5
  <2>3. PromptInv(batch, n, p)
    BY <1>1, <1>4, <1>5, <2>2 DEF PromptInv, L
  <2> QED
    BY <2>1, <2>3 DEF f
<1>6. CASE p.total < MaxDiffChars
  <2>1. /\ part \in Shown /\ next.shown = Append(p.shown, part)
        /\ next.total = IF f.size > MaxDiffChars - p.total
                        THEN MaxDiffChars + HeaderChars + FenceChars + CutNoteChars
                        ELSE p.total + HeaderChars + FenceChars + f.size
    BY <1>1, <1>6, AddToPromptLemma
  <2>2. L = n - 1
    BY <1>1, <1>2, <1>3, <1>4, <1>6
  <2>3. /\ part.path = f.path
        /\ part.chars = IF f.size > MaxDiffChars - p.total THEN MaxDiffChars - p.total ELSE f.size
    BY DEF Part
  <2>4. IsGrown(Shown, p.shown, part, Append(p.shown, part))
    BY <1>2, <2>1, AppendLemma
  <2> HIDE DEF part, next
  <2>5. /\ Len(next.shown) = n /\ next.shown[n] = part
        /\ \A k \in 1..L : next.shown[k] = p.shown[k]
    BY <1>1, <2>1, <2>2, <2>4 DEF IsGrown, L
  <2>6. /\ next.total <= MaxDiffChars + HeaderChars + FenceChars + CutNoteChars
        /\ part.chars < f.size => next.total > MaxDiffChars
    BY <1>2, <1>3, <1>6, <2>1, <2>3
  <2>7. ASSUME NEW k \in 1..n
        PROVE  /\ next.shown[k].path = batch[k].path
               /\ next.shown[k].chars < batch[k].size => k = n /\ next.total > MaxDiffChars
    <3>1. CASE k = n
      BY <2>3, <2>5, <2>6, <3>1 DEF f
    <3>2. CASE k # n
      <4>1. k \in 1..L
        BY <1>1, <2>2, <3>2
      <4>2. ~(p.total > MaxDiffChars)
        BY <1>2, <1>3, <1>6
      <4> QED
        BY <1>4, <2>5, <4>1, <4>2
    <3> QED
      BY <3>1, <3>2
  <2>8. n <= n /\ n > 0 /\ ~(n < n) /\ n # 0
    BY <1>1
  <2>9. PromptInv(batch, n, next)
    BY <2>5, <2>6, <2>7, <2>8 DEF PromptInv
  <2> QED
    BY <2>9 DEF next, f
<1> QED
  BY <1>2, <1>3, <1>5, <1>6

(* _build_prompt: the files from the first on, nothing left out or cut      *)
(* while there is room, and not much over the limit.                        *)
LEMMA PromptLemma ==
  ASSUME NEW batch \in Seq(File)
  PROVE  BuildPrompt(batch) \in PromptState /\ PromptInv(batch, Len(batch), BuildPrompt(batch))
<1> DEFINE N == Len(batch)
<1>1. PICK acc \in [0..N -> PromptState] :
        /\ acc[0] = EmptyPrompt /\ acc[N] = BuildPrompt(batch)
        /\ \A n \in 1..N : acc[n] = AddToPrompt(acc[n - 1], batch[n])
  BY PromptLoop
<1>2. N \in Nat
  OBVIOUS
<1> HIDE DEF N
<1> DEFINE Good == {n \in 0..N : PromptInv(batch, n, acc[n])}
<1>3. 0 \in Good
  <2>1. EmptyPrompt.total = 0 /\ EmptyPrompt.shown = <<>> /\ Len(<<>>) = 0
    BY DEF EmptyPrompt
  <2>2. 0 <= MaxDiffChars + HeaderChars + FenceChars + CutNoteChars /\ 1..0 = {}
    BY LimitsAssumption
  <2>3. 0 <= 0 /\ ~(0 < 0) /\ ~(0 > 0)
    OBVIOUS
  <2>4. PromptInv(batch, 0, EmptyPrompt)
    BY <2>1, <2>2, <2>3 DEF PromptInv
  <2> QED
    BY <1>1, <1>2, <2>4, NothingUpTo
<1>4. ASSUME NEW n \in 1..N, n - 1 \in Good
      PROVE  n \in Good
  <2>1. n \in 0..N /\ n - 1 \in 0..N /\ n \in 1..Len(batch)
    BY <1>2, UpTo DEF N
  <2>2. acc[n - 1] \in PromptState /\ PromptInv(batch, n - 1, acc[n - 1])
    BY <1>1, <1>4, <2>1
  <2>3. PromptInv(batch, n, AddToPrompt(acc[n - 1], batch[n]))
    BY <2>1, <2>2, PromptStep
  <2> QED
    BY <1>1, <2>1, <2>3
<1>5. 0..N \subseteq Good
  <2> HIDE DEF Good
  <2> QED
    BY <1>2, <1>3, <1>4, InductionUpTo
<1>6. acc[N] \in PromptState /\ PromptInv(batch, N, acc[N])
  BY <1>1, <1>2, <1>5, UpTo
<1> QED
  BY <1>1, <1>6 DEF N

-----------------------------------------------------------------------------
(* Lists of findings *)

FindingsBy(source) == {f \in Finding : f.source = source}

(* Every message of a tool becomes a finding of that tool.                  *)
LEMMA FindingOfType ==
  ASSUME NEW t \in Tools, NEW m \in ToolMessage
  PROVE  FindingOf(t, m) \in FindingsBy(t)
<1>1. /\ m.rule \in STRING /\ m.level \in STRING /\ m.path \in Nat
      /\ m.line \in Int /\ m.text \in STRING
  BY DEF ToolMessage
<1>2. t \in Sources
  BY DEF Tools, Sources, SourcePriority
<1>3. SeverityOf(t, m) \in Severities
  <2>1. Severities = {"CRITICAL", "HIGH", "MEDIUM", "LOW", "INFO"}
    BY DEF Severities, SeverityScore
  <2>2. PylintSeverity(m) \in Severities
    BY <2>1 DEF PylintSeverity, Lookup
  <2>3. Flake8Severity(m) \in Severities
    BY <2>1 DEF Flake8Severity, Lookup
  <2>4. MypySeverity(m) \in Severities
    BY <2>1 DEF MypySeverity
  <2>5. EslintSeverity(m) \in Severities
    BY <2>1 DEF EslintSeverity
  <2>6. SarifSeverity(m) \in Severities
    BY <2>1 DEF SarifSeverity, Lookup
  <2> QED
    BY <2>2, <2>3, <2>4, <2>5, <2>6 DEF SeverityOf
<1>4. ConfidenceOf(t, m) \in 0..100
  BY DEF ConfidenceOf, Tools
<1>5. TagOf(t, m) \in Tags
  BY <1>1 DEF TagOf, Tags
<1>6. [tag |-> TagOf(t, m), text |-> m.text] \in [tag : Tags, text : STRING]
  BY <1>1, <1>5
<1> QED
  BY <1>1, <1>2, <1>3, <1>4, <1>6 DEF FindingOf, Finding, FindingsBy

Endings == {"running", "silent", "raised", "reported"}
ToolResult(t) == [ending : Endings, findings : Seq(FindingsBy(t))]

(* A parser makes a list of findings of its tool, whatever the tool prints. *)
LEMMA ToolFindingsType ==
  ASSUME NEW t \in Tools, NEW messages \in Seq(ToolMessage)
  PROVE  ToolFindings(t, messages) \in Seq(FindingsBy(t))
<1> DEFINE K == {n \in DOMAIN messages : ~Skipped(t, messages[n])}
           kept == AtPositions(messages, K)
<1>1. kept \in Seq(ToolMessage)
  BY AtPositionsLemma
<1>2. ToolFindings(t, messages) = [n \in DOMAIN kept |-> FindingOf(t, kept[n])]
  BY DEF ToolFindings, Filter
<1> HIDE DEF kept
<1>3. Len(kept) \in Nat /\ DOMAIN kept = 1..Len(kept) /\ \A n \in 1..Len(kept) : kept[n] \in ToolMessage
  BY <1>1
<1>4. \A n \in 1..Len(kept) : FindingOf(t, kept[n]) \in FindingsBy(t)
  BY <1>3, FindingOfType
<1> QED
  BY <1>2, <1>3, <1>4

(* What a reply becomes: findings of the language model.                    *)
LEMMA ParseType ==
  ASSUME NEW reply \in Replies, NEW batch \in Seq(File), NEW findings \in ParseResponse(reply, batch)
  PROVE  findings \in Seq(FindingsBy("llm_review"))
<1> DEFINE K == {n \in DOMAIN reply.items : Complete(reply.items[n])}
           items == IF reply.kind = "items" THEN AtPositions(reply.items, K) ELSE <<>>
           paths == UNION {Resolutions(items[n].path, batch) : n \in DOMAIN items}
<1>1. reply.items \in Seq(ReplyItem)
  BY InputAssumption
<1>2. AtPositions(reply.items, K) \in Seq(ReplyItem)
  BY <1>1, AtPositionsLemma
<1>3. items \in Seq(ReplyItem)
  BY <1>2
<1>4. PICK resolved \in [DOMAIN items -> paths] :
        /\ \A n \in DOMAIN items : resolved[n] \in Resolutions(items[n].path, batch)
        /\ findings = [n \in DOMAIN items |-> LLMFinding(items[n], resolved[n])]
  BY DEF ParseResponse, Filter
<1> HIDE DEF items, paths
<1>5. Len(items) \in Nat /\ DOMAIN items = 1..Len(items) /\ \A n \in 1..Len(items) : items[n] \in ReplyItem
  BY <1>3
<1>6. ASSUME NEW path \in Nat
      PROVE  Resolutions(path, batch) \subseteq Nat
  <2>1. \A n \in DOMAIN batch : batch[n].path \in Nat
    <3>1. \A f \in File : f.path \in Nat
      BY DEF File
    <3> QED
      BY <3>1
  <2> QED
    BY <2>1 DEF Resolutions
<1>7. ASSUME NEW item \in ReplyItem, NEW path \in Nat
      PROVE  LLMFinding(item, path) \in FindingsBy("llm_review")
  <2>1. item.line \in Int /\ item.tag \in STRING /\ item.text \in STRING
    BY DEF ReplyItem
  <2>2. "llm_review" \in Sources /\ "MEDIUM" \in Severities
    BY DEF Sources, SourcePriority, Severities, SeverityScore
  <2>3. (IF item.severity \in Severities THEN item.severity ELSE "MEDIUM") \in Severities
    BY <2>2
  <2>4. (IF item.confidence \in DOMAIN Confidences THEN Confidences[item.confidence] ELSE 65) \in 0..100
    <3>1. \A c \in DOMAIN Confidences : Confidences[c] \in {90, 65, 40}
      BY DEF Confidences
    <3>2. {90, 65, 40} \subseteq 0..100 /\ 65 \in 0..100
      OBVIOUS
    <3> QED
      BY <3>1, <3>2
  <2>5. [tag |-> item.tag, text |-> item.text] \in [tag : Tags, text : STRING]
    BY <2>1 DEF Tags
  <2> QED
    BY <2>1, <2>2, <2>3, <2>4, <2>5 DEF LLMFinding, Finding, FindingsBy
<1>8. \A n \in 1..Len(items) : items[n].path \in Nat
  <2>1. \A item \in ReplyItem : item.path \in Nat
    BY DEF ReplyItem
  <2> QED
    BY <1>5, <2>1
<1>9. \A n \in 1..Len(items) : LLMFinding(items[n], resolved[n]) \in FindingsBy("llm_review")
  BY <1>4, <1>5, <1>6, <1>7, <1>8
<1> QED
  BY <1>4, <1>5, <1>9

-----------------------------------------------------------------------------
(* The batches of a diff *)

(* The files the language model reviews are files of the diff.              *)
LEMMA ReviewableType ==
  ASSUME NEW files \in Seq(File)
  PROVE  Reviewable(files) \in Seq(File)
  BY AtPositionsLemma DEF Reviewable, Filter

(* The batches are lists of files.                                          *)
LEMMA BatchesType ==
  ASSUME diff \in Seq(File)
  PROVE  /\ Batches \in Seq(Seq(File)) /\ Len(Batches) \in Nat /\ DOMAIN Batches = 1..Len(Batches)
         /\ \A n \in 1..Len(Batches) : Batches[n] \in Seq(File) /\ WithinLimits(Batches[n])
<1>1. Batches \in Seq(Seq(File)) /\ \A n \in DOMAIN Batches : WithinLimits(Batches[n])
  BY ReviewableType, BatchesLemma DEF Batches
<1> QED
  BY <1>1

(* _create_batches keeps every reviewable file, in order, within both       *)
(* limits, and opens a batch only when the file would not fit: for a diff   *)
(* of any length.                                                           *)
LEMMA BatchesCover ==
  ASSUME diff \in Seq(File)
  PROVE  BatchesCoverDiff
<1>1. /\ FlattenSeq(Batches) = Reviewable(diff)
      /\ \A n \in DOMAIN Batches :
           /\ WithinLimits(Batches[n])
           /\ n > 1 => NoRoomFor(Batches[n - 1], Batches[n])
  BY ReviewableType, BatchesLemma DEF Batches
<1> QED
  BY <1>1 DEF BatchesCoverDiff, WithinLimits, NoRoomFor

(* _build_prompt keeps its limit for every batch of every diff.             *)
LEMMA PromptsFit ==
  ASSUME diff \in Seq(File)
  PROVE  PromptFits
<1> SUFFICES ASSUME NEW n \in DOMAIN Batches
             PROVE  LET prompt == BuildPrompt(Batches[n])
                        shown == [k \in DOMAIN prompt.shown |-> prompt.shown[k].path]
                    IN  /\ shown # <<>>
                        /\ IsPrefix(shown, PathsOf(Batches[n]))
                        /\ Len(shown) < Len(Batches[n]) => prompt.total >= MaxDiffChars
                        /\ \A k \in DOMAIN shown :
                             prompt.shown[k].chars < Batches[n][k].size
                               => k = Len(shown) /\ prompt.total > MaxDiffChars
                        /\ prompt.total <= MaxDiffChars + HeaderChars + FenceChars + CutNoteChars
  BY DEF PromptFits
<1> DEFINE batch == Batches[n]
           prompt == BuildPrompt(batch)
           L == Len(prompt.shown)
           shown == [k \in DOMAIN prompt.shown |-> prompt.shown[k].path]
           paths == PathsOf(batch)
<1>1. batch \in Seq(File) /\ Len(batch) \in Nat /\ Len(batch) >= 1
  <2>1. batch \in Seq(File) /\ WithinLimits(batch)
    BY BatchesType
  <2> HIDE DEF batch
  <2> QED
    BY <2>1, LimitsAssumption DEF WithinLimits
<1> HIDE DEF batch
<1>2. prompt \in PromptState /\ PromptInv(batch, Len(batch), prompt)
  BY <1>1, PromptLemma
<1> HIDE DEF prompt
<1>3. L \in Nat /\ DOMAIN prompt.shown = 1..L
  BY <1>2 DEF PromptState
<1>4. /\ L <= Len(batch) /\ L > 0
      /\ L < Len(batch) => prompt.total >= MaxDiffChars
      /\ \A k \in 1..L :
           /\ prompt.shown[k].path = batch[k].path
           /\ prompt.shown[k].chars < batch[k].size => k = L /\ prompt.total > MaxDiffChars
      /\ prompt.total <= MaxDiffChars + HeaderChars + FenceChars + CutNoteChars
  BY <1>1, <1>2 DEF PromptInv
<1>5. shown = [k \in 1..L |-> prompt.shown[k].path]
  BY <1>3
<1>6. paths = [k \in 1..Len(batch) |-> batch[k].path]
  BY <1>1 DEF PathsOf
<1> HIDE DEF L, shown, paths
<1>7. Len(shown) = L /\ DOMAIN shown = 1..L /\ shown # <<>>
  BY <1>3, <1>4, <1>5
<1>8. Len(paths) = Len(batch)
  BY <1>1, <1>6
<1>9. SubSeq(shown, 1, L) = SubSeq(paths, 1, L)
  <2>1. \A k \in 1..L : shown[k] = paths[k]
    <3>1. \A k \in 1..L : k \in 1..Len(batch)
      BY <1>1, <1>3, <1>4
    <3> QED
      BY <1>4, <1>5, <1>6, <3>1
  <2>2. SubSeq(shown, 1, L) = [k \in 1..L |-> shown[k]]
    BY <1>3, <1>5
  <2>3. SubSeq(paths, 1, L) = [k \in 1..L |-> paths[k]]
    BY <1>1, <1>3, <1>4, <1>6
  <2> QED
    BY <2>1, <2>2, <2>3
<1>10. IsPrefix(shown, paths)
  BY <1>4, <1>7, <1>8, <1>9 DEF IsPrefix
<1> QED
  BY <1>4, <1>7, <1>10 DEF batch, prompt, paths, shown

-----------------------------------------------------------------------------
(* The inductive invariant *)

DiffShape == diff \in Seq(File) /\ enabled \subseteq Tools

\* A tool has findings of its own only, and only if it reported; what was not
\* started stays as it is.
ToolShape ==
  /\ result \in [Tools -> [ending : Endings, findings : Seq(Finding)]]
  /\ \A t \in Tools :
       /\ result[t].findings \in Seq(FindingsBy(t))
       /\ result[t].ending # "reported" => result[t].findings = <<>>
       /\ result[t] # Running => t \in StartedTools

LLMShape ==
  /\ nextBatch \in 1..(Len(Batches) + 1)
  /\ failedBatches \subseteq 1..(nextBatch - 1)
  /\ llmFindings \in Seq(FindingsBy("llm_review"))
  /\ filesReviewed \in Seq(Nat) /\ promptTokens \in Nat
  /\ FailedBatchCostsItsFiles
  /\ llmFindings # <<>> => filesReviewed # <<>>

\* The merge comes last, and of all the results.
MergedShape ==
  \/ merged = NotMerged
  \/ /\ AllReturned
     /\ merged = Merge(JoinTools(StartedStatic, result),
                       JoinTools(StartedSecurity, result), LLMResult)

IInv == DiffShape /\ ToolShape /\ LLMShape /\ MergedShape

-----------------------------------------------------------------------------
(* The batches that did not fail *)

Passed(n, failed) == AtPositions([k \in 1..(n - 1) |-> k], {k \in 1..(n - 1) : k \notin failed})

BatchPaths(batches) == [n \in DOMAIN batches |-> PathsOf(batches[n])]
BatchTokens(batches) == [n \in DOMAIN batches |-> BuildPrompt(batches[n]).total]

(* Before the first turn of review() no batch has been passed.              *)
LEMMA NonePassed == Passed(1, {}) = <<>>
<1>1. 1..(1 - 1) = {} /\ Cardinality({}) = 0 /\ 1..0 = {}
  BY FS_EmptySet
<1>2. {k \in 1..(1 - 1) : k \notin {}} = {}
  BY <1>1
<1>3. Passed(1, {}) = [n \in {} |-> [k \in 1..(1 - 1) |-> k][Ascending({})[n]]]
  BY <1>1, <1>2 DEF Passed, AtPositions
<1> QED
  BY <1>3

(* One more turn of review() adds the batch to those that did not fail, or  *)
(* leaves them as they are.                                                 *)
LEMMA PassedLemma ==
  ASSUME NEW N \in Nat, NEW n \in 1..(N + 1), NEW failed \in SUBSET (1..(n - 1))
  PROVE  /\ Passed(n, failed) \in Seq(1..N)
         /\ n <= N => /\ Passed(n + 1, failed \cup {n}) = Passed(n, failed)
                      /\ Passed(n + 1, failed) = Append(Passed(n, failed), n)
<1> DEFINE id(m) == [k \in 1..(m - 1) |-> k]
           K(m, f) == {k \in 1..(m - 1) : k \notin f}
<1>1. id(n) \in Seq(1..N) /\ Len(id(n)) = n - 1 /\ DOMAIN id(n) = 1..(n - 1)
  <2>1. n - 1 \in Nat /\ 1..(n - 1) \subseteq 1..N
    OBVIOUS
  <2> QED
    BY <2>1
<1>2. K(n, failed) \in SUBSET DOMAIN id(n)
  BY <1>1
<1>3. Passed(n, failed) = AtPositions(id(n), K(n, failed)) /\ Passed(n, failed) \in Seq(1..N)
  BY <1>1, <1>2, AtPositionsLemma DEF Passed
<1>4. ASSUME n <= N
      PROVE  /\ Passed(n + 1, failed \cup {n}) = Passed(n, failed)
             /\ Passed(n + 1, failed) = Append(Passed(n, failed), n)
  <2>1. id(n + 1) = Append(id(n), n)
    OBVIOUS
  <2>2. K(n + 1, failed \cup {n}) = K(n, failed) /\ K(n + 1, failed) = K(n, failed) \cup {n}
    OBVIOUS
  <2>3. n \in 1..N /\ Len(id(n)) + 1 = n
    BY <1>1, <1>4
  <2>4. /\ Passed(n + 1, failed \cup {n}) = AtPositions(id(n + 1), K(n + 1, failed \cup {n}))
        /\ Passed(n + 1, failed) = AtPositions(id(n + 1), K(n + 1, failed))
    BY DEF Passed
  <2> HIDE DEF id, K
  <2>5. /\ AtPositions(Append(id(n), n), K(n, failed)) = AtPositions(id(n), K(n, failed))
        /\ AtPositions(Append(id(n), n), K(n, failed) \cup {Len(id(n)) + 1})
             = Append(AtPositions(id(n), K(n, failed)), n)
    <3> DEFINE V == 1..N
    <3>1. id(n) \in Seq(V) /\ n \in V
      BY <1>1, <2>3
    <3> HIDE DEF V
    <3> QED
      BY <1>2, <3>1, AtPositionsGrow
  <2> QED
    BY <1>3, <2>1, <2>2, <2>3, <2>4, <2>5
<1> QED
  BY <1>3, <1>4

(* The lists that FailedBatchCostsItsFiles names.                            *)
LEMMA CostsUnfold ==
  ASSUME NEW batches \in Seq(Seq(File)), NEW n \in 1..(Len(batches) + 1),
         NEW failed \in SUBSET (1..(n - 1))
  PROVE  LET passed == Filter([k \in 1..(n - 1) |-> k], LAMBDA k : k \notin failed)
         IN  /\ passed = Passed(n, failed)
             /\ [k \in DOMAIN passed |-> PathsOf(batches[passed[k]])]
                  = Mapped(BatchPaths(batches), Passed(n, failed))
             /\ [k \in DOMAIN passed |-> BuildPrompt(batches[passed[k]]).total]
                  = Mapped(BatchTokens(batches), Passed(n, failed))
<1> DEFINE passed == Filter([k \in 1..(n - 1) |-> k], LAMBDA k : k \notin failed)
           P == Passed(n, failed)
           id == [k \in 1..(n - 1) |-> k]
           K == {k \in DOMAIN id : id[k] \notin failed}
<1>1. K = {k \in 1..(n - 1) : k \notin failed}
  OBVIOUS
<1>2. passed = AtPositions(id, K)
  BY DEF Filter
<1>3. passed = P
  BY <1>1, <1>2 DEF Passed
<1>4. Len(batches) \in Nat /\ DOMAIN batches = 1..Len(batches)
  OBVIOUS
<1>5. P \in Seq(1..Len(batches))
  BY <1>4, PassedLemma
<1> HIDE DEF passed, P
<1>6. \A k \in DOMAIN P : P[k] \in DOMAIN batches
  BY <1>4, <1>5
<1>7. /\ [k \in DOMAIN P |-> PathsOf(batches[P[k]])] = Mapped(BatchPaths(batches), P)
      /\ [k \in DOMAIN P |-> BuildPrompt(batches[P[k]]).total] = Mapped(BatchTokens(batches), P)
  BY <1>6 DEF Mapped, BatchPaths, BatchTokens
<1> QED
  BY <1>3, <1>7 DEF passed, P

-----------------------------------------------------------------------------
(* The steps *)

(* Whatever letter git reports, the change is one of the seven of the       *)
(* schema.                                                                  *)
LEMMA ChangeTypeType ==
  ASSUME NEW status
  PROVE  ChangeType(status) \in ChangeTypes
  BY DEF ChangeType, ChangeTypes, Lookup

(* DiffExtractor makes files of the schema of what git reports.             *)
LEMMA DiffType ==
  ASSUME NEW changes \in Seq(GitChange)
  PROVE  ExtractDiff(changes) \in Seq(File)
<1>1. ASSUME NEW c \in GitChange
      PROVE  ExtractFile(c) \in File
  <2>1. c.path \in Nat /\ c.ext \in STRING /\ c.bytes \in Nat
    BY DEF GitChange
  <2>2. (IF c.bytes > MaxPatchBytes THEN TruncatedChars ELSE c.bytes) \in Nat
    BY <2>1, InputAssumption
  <2> QED
    BY <2>1, <2>2, ChangeTypeType DEF ExtractFile, File
<1>2. Len(changes) \in Nat /\ DOMAIN changes = 1..Len(changes)
      /\ \A n \in 1..Len(changes) : changes[n] \in GitChange
  OBVIOUS
<1>3. \A n \in 1..Len(changes) : ExtractFile(changes[n]) \in File
  BY <1>1, <1>2
<1> QED
  BY <1>2, <1>3 DEF ExtractDiff

(* Before a tool ends it has no findings.                                   *)
LEMMA RunningIsTyped ==
  \A t \in Tools :
    /\ Running \in [ending : Endings, findings : Seq(Finding)]
    /\ Running.findings \in Seq(FindingsBy(t)) /\ Running.findings = <<>>
  BY DEF Running, Endings

(* The invariant holds before the first step.                               *)
LEMMA InitLemma == Init => IInv
<1> SUFFICES ASSUME Init
             PROVE  IInv
  OBVIOUS
<1>1. DiffShape
  <2>1. PICK r \in Requests : diff = ExtractDiff(r.changes) /\ enabled = r.enabled
    BY DEF Init
  <2>2. r.changes \in Seq(GitChange) /\ r.enabled \subseteq Tools
    BY InputAssumption
  <2> QED
    BY <2>1, <2>2, DiffType DEF DiffShape
<1>2. ToolShape
  <2>1. \A t \in Tools : result[t] = Running
    BY DEF Init
  <2>2. result \in [Tools -> [ending : Endings, findings : Seq(Finding)]]
    BY RunningIsTyped DEF Init
  <2> QED
    BY <2>1, <2>2, RunningIsTyped DEF ToolShape
<1>3. LLMShape
  <2>1. /\ nextBatch = 1 /\ llmFindings = <<>> /\ filesReviewed = <<>>
        /\ promptTokens = 0 /\ failedBatches = {}
    BY DEF Init
  <2>2. Len(Batches) \in Nat /\ diff \in Seq(File)
    BY <1>1, BatchesType DEF DiffShape
  <2>3. nextBatch \in 1..(Len(Batches) + 1) /\ failedBatches \subseteq 1..(nextBatch - 1)
    BY <2>1, <2>2
  <2>4. Passed(nextBatch, failedBatches) = <<>>
    BY <2>1, NonePassed
  <2>5. Mapped(BatchPaths(Batches), <<>>) = <<>> /\ Mapped(BatchTokens(Batches), <<>>) = <<>>
    BY DEF Mapped
  <2>6. FailedBatchCostsItsFiles
    <3> DEFINE passed == Filter([k \in 1..(nextBatch - 1) |-> k], LAMBDA k : k \notin failedBatches)
           P == Passed(nextBatch, failedBatches)
    <3>1. Batches \in Seq(Seq(File)) /\ failedBatches \in SUBSET (1..(nextBatch - 1))
      BY <2>2, <2>3, BatchesType
    <3>2. /\ passed = P
          /\ [k \in DOMAIN passed |-> PathsOf(Batches[passed[k]])] = Mapped(BatchPaths(Batches), P)
          /\ [k \in DOMAIN passed |-> BuildPrompt(Batches[passed[k]]).total]
               = Mapped(BatchTokens(Batches), P)
      BY <2>3, <3>1, CostsUnfold
    <3>3. P = <<>>
      BY <2>4
    <3> HIDE DEF P
    <3> QED
      BY <2>1, <2>5, <3>2, <3>3, FlattenEmpty, SumEmpty DEF FailedBatchCostsItsFiles
  <2> QED
    BY <2>1, <2>3, <2>6 DEF LLMShape
<1>4. MergedShape
  BY DEF Init, MergedShape
<1> QED
  BY <1>1, <1>2, <1>3, <1>4 DEF IInv

\* What stays the same when the diff and the settings do.
(* As long as the diff and the settings stay, so do the batches and the     *)
(* tools to run.                                                            *)
LEMMA SameDiff ==
  ASSUME diff' = diff, enabled' = enabled
  PROVE  /\ Batches' = Batches /\ StartedTools' = StartedTools
         /\ StartedStatic' = StartedStatic /\ StartedSecurity' = StartedSecurity
  BY DEF Batches, StartedTools, StartedStatic, StartedSecurity

(* The review of a batch, and its loss, by what is counted.                 *)
LEMMA CostsStep ==
  ASSUME IInv, diff' = diff, enabled' = enabled,
         nextBatch <= Len(Batches), nextBatch' = nextBatch + 1
  PROVE  /\ nextBatch' \in 1..(Len(Batches) + 1)
         /\ nextBatch \in 1..Len(Batches) /\ Batches[nextBatch] \in Seq(File)
         /\ PathsOf(Batches[nextBatch]) \in Seq(Nat) /\ PathsOf(Batches[nextBatch]) # <<>>
         /\ BuildPrompt(Batches[nextBatch]).total \in Nat
         /\ /\ failedBatches' = failedBatches
            /\ filesReviewed' = filesReviewed \o PathsOf(Batches[nextBatch])
            /\ promptTokens' = promptTokens + BuildPrompt(Batches[nextBatch]).total
            => FailedBatchCostsItsFiles'
         /\ /\ failedBatches' = failedBatches \cup {nextBatch}
            /\ filesReviewed' = filesReviewed /\ promptTokens' = promptTokens
            /\ llmFindings' = llmFindings
            => FailedBatchCostsItsFiles'
<1> DEFINE N == Len(Batches)
           batch == Batches[nextBatch]
           P == Passed(nextBatch, failedBatches)
<1>1. /\ diff \in Seq(File) /\ N \in Nat /\ DOMAIN Batches = 1..N
      /\ nextBatch \in 1..(N + 1) /\ failedBatches \in SUBSET (1..(nextBatch - 1))
      /\ nextBatch \in 1..N /\ nextBatch' \in 1..(N + 1)
  BY BatchesType DEF IInv, DiffShape, LLMShape
<1>2. batch \in Seq(File) /\ Len(batch) >= 1 /\ Len(batch) \in Nat
  <2>1. batch \in Seq(File) /\ WithinLimits(batch)
    BY <1>1, BatchesType
  <2> HIDE DEF batch
  <2> QED
    BY <2>1, LimitsAssumption DEF WithinLimits
<1>3. /\ P \in Seq(1..N)
      /\ Passed(nextBatch + 1, failedBatches \cup {nextBatch}) = P
      /\ Passed(nextBatch + 1, failedBatches) = Append(P, nextBatch)
  BY <1>1, PassedLemma
<1>4. ASSUME NEW n \in 1..N
      PROVE  PathsOf(Batches[n]) \in Seq(Nat) /\ BuildPrompt(Batches[n]).total \in Nat
  <2>1. Batches[n] \in Seq(File)
    BY <1>1, BatchesType
  <2>2. BuildPrompt(Batches[n]).total \in Nat
    BY <2>1, PromptLemma DEF PromptState
  <2>3. \A b \in Seq(File) : PathsOf(b) \in Seq(Nat)
    <3> SUFFICES ASSUME NEW b \in Seq(File)
                 PROVE  PathsOf(b) \in Seq(Nat)
      OBVIOUS
    <3>1. \A f \in File : f.path \in Nat
      BY DEF File
    <3>2. Len(b) \in Nat /\ DOMAIN b = 1..Len(b) /\ \A k \in 1..Len(b) : b[k].path \in Nat
      BY <3>1
    <3> QED
      BY <3>2 DEF PathsOf
  <2> QED
    BY <2>1, <2>2, <2>3
<1>5. PathsOf(batch) # <<>>
  BY <1>2 DEF PathsOf
<1> DEFINE paths == BatchPaths(Batches)
           tokens == BatchTokens(Batches)
           Q == Passed(nextBatch', failedBatches')
<1>6. /\ paths \in [1..N -> Seq(Nat)] /\ tokens \in [1..N -> Nat]
      /\ paths[nextBatch] = PathsOf(batch) /\ tokens[nextBatch] = BuildPrompt(batch).total
  BY <1>1, <1>4 DEF BatchPaths, BatchTokens
<1>7. Batches' = Batches
  BY SameDiff
<1>8. /\ filesReviewed = FlattenSeq(Mapped(paths, P))
      /\ promptTokens = SumSeq(Mapped(tokens, P))
      /\ llmFindings # <<>> => P # <<>>
  <2> DEFINE passed == Filter([k \in 1..(nextBatch - 1) |-> k], LAMBDA k : k \notin failedBatches)
  <2>1. Batches \in Seq(Seq(File))
    BY <1>1, BatchesType
  <2>2. /\ passed = P
        /\ [k \in DOMAIN passed |-> PathsOf(Batches[passed[k]])] = Mapped(paths, P)
        /\ [k \in DOMAIN passed |-> BuildPrompt(Batches[passed[k]]).total] = Mapped(tokens, P)
    BY <1>1, <2>1, CostsUnfold
  <2>3. FailedBatchCostsItsFiles
    BY DEF IInv, LLMShape
  <2> QED
    BY <2>2, <2>3 DEF FailedBatchCostsItsFiles
<1>9. ASSUME failedBatches' \in SUBSET (1..nextBatch),
             filesReviewed' = FlattenSeq(Mapped(paths, Q)),
             promptTokens' = SumSeq(Mapped(tokens, Q)),
             llmFindings' # <<>> => Q # <<>>
      PROVE  FailedBatchCostsItsFiles'
  <2> DEFINE passed == Filter([k \in 1..(nextBatch' - 1) |-> k], LAMBDA k : k \notin failedBatches')
  <2>1. /\ Batches' \in Seq(Seq(File)) /\ nextBatch' \in 1..(Len(Batches') + 1)
        /\ failedBatches' \in SUBSET (1..(nextBatch' - 1))
    BY <1>1, <1>7, <1>9, BatchesType
  <2>2. /\ passed = Q
        /\ [k \in DOMAIN passed |-> PathsOf(Batches'[passed[k]])] = Mapped(BatchPaths(Batches'), Q)
        /\ [k \in DOMAIN passed |-> BuildPrompt(Batches'[passed[k]]).total]
             = Mapped(BatchTokens(Batches'), Q)
    BY <2>1, CostsUnfold
  <2>3. paths = BatchPaths(Batches') /\ tokens = BatchTokens(Batches')
    BY <1>7
  <2> HIDE DEF paths, tokens, Q
  <2> QED
    BY <1>9, <2>2, <2>3 DEF FailedBatchCostsItsFiles, Filter
<1> HIDE DEF paths, tokens, batch, N, P
<1>10. ASSUME failedBatches' = failedBatches,
              filesReviewed' = filesReviewed \o PathsOf(batch),
              promptTokens' = promptTokens + BuildPrompt(batch).total
       PROVE  FailedBatchCostsItsFiles'
  <2>1. Q = Append(P, nextBatch) /\ Q # <<>>
    <3>1. IsGrown(1..N, P, nextBatch, Append(P, nextBatch))
      BY <1>1, <1>3, AppendLemma
    <3> QED
      BY <1>3, <1>10, <3>1 DEF IsGrown
  <2>2. /\ Mapped(paths, P) \in Seq(Seq(Nat))
        /\ Mapped(paths, Append(P, nextBatch)) = Append(Mapped(paths, P), PathsOf(batch))
    <3> DEFINE V == 1..N
               W == Seq(Nat)
    <3>1. P \in Seq(V) /\ nextBatch \in V /\ paths \in [V -> W]
      BY <1>1, <1>3, <1>6
    <3> HIDE DEF V, W
    <3>2. /\ Mapped(paths, P) \in Seq(W)
          /\ Mapped(paths, Append(P, nextBatch)) = Append(Mapped(paths, P), paths[nextBatch])
      BY <3>1, MapAppend
    <3> QED
      BY <1>6, <3>2 DEF W
  <2>3. /\ Mapped(tokens, P) \in Seq(Nat)
        /\ Mapped(tokens, Append(P, nextBatch)) = Append(Mapped(tokens, P), BuildPrompt(batch).total)
    <3> DEFINE V == 1..N
               W == Nat
    <3>1. P \in Seq(V) /\ nextBatch \in V /\ tokens \in [V -> W]
      BY <1>1, <1>3, <1>6
    <3> HIDE DEF V, W
    <3>2. /\ Mapped(tokens, P) \in Seq(W)
          /\ Mapped(tokens, Append(P, nextBatch)) = Append(Mapped(tokens, P), tokens[nextBatch])
      BY <3>1, MapAppend
    <3> QED
      BY <1>6, <3>2 DEF W
  <2>4. PathsOf(batch) \in Seq(Nat) /\ BuildPrompt(batch).total \in Nat
    BY <1>1, <1>4 DEF batch
  <2>5. filesReviewed' = FlattenSeq(Mapped(paths, Q))
    BY <1>8, <1>10, <2>1, <2>2, <2>4, FlattenAppend
  <2>6. promptTokens' = SumSeq(Mapped(tokens, Q))
    BY <1>8, <1>10, <2>1, <2>3, <2>4, SumAppend
  <2>7. failedBatches' \in SUBSET (1..nextBatch)
    BY <1>1, <1>10
  <2> QED
    BY <1>9, <2>1, <2>5, <2>6, <2>7
<1>11. ASSUME failedBatches' = failedBatches \cup {nextBatch},
              filesReviewed' = filesReviewed, promptTokens' = promptTokens,
              llmFindings' = llmFindings
       PROVE  FailedBatchCostsItsFiles'
  <2>1. Q = P
    BY <1>3, <1>11
  <2>2. failedBatches' \in SUBSET (1..nextBatch)
    BY <1>1, <1>11
  <2> QED
    BY <1>8, <1>9, <1>11, <2>1, <2>2
<1> QED
  BY <1>1, <1>2, <1>4, <1>5, <1>10, <1>11 DEF batch, N

(* A tool that ends has findings of its own only, and the merge has not     *)
(* come yet: it waits for all tools (gather).                               *)
LEMMA StepToolEnds ==
  ASSUME IInv, NEW t \in Tools, NEW ending \in ToolResult(t), ToolEnds(t, ending),
         ending.ending # "reported" => ending.findings = <<>>
  PROVE  IInv'
<1>1. /\ diff' = diff /\ enabled' = enabled /\ merged' = merged
      /\ nextBatch' = nextBatch /\ llmFindings' = llmFindings /\ filesReviewed' = filesReviewed
      /\ promptTokens' = promptTokens /\ failedBatches' = failedBatches
      /\ t \in StartedTools /\ result[t] = Running
      /\ result' = [result EXCEPT ![t] = ending]
  BY DEF ToolEnds, llm
<1>2. /\ Batches' = Batches /\ StartedTools' = StartedTools
      /\ StartedStatic' = StartedStatic /\ StartedSecurity' = StartedSecurity
  BY <1>1, SameDiff
<1>3. DiffShape'
  BY <1>1 DEF IInv, DiffShape
<1>4. ToolShape'
  <2>1. /\ result \in [Tools -> [ending : Endings, findings : Seq(Finding)]]
        /\ \A u \in Tools :
             /\ result[u].findings \in Seq(FindingsBy(u))
             /\ result[u].ending # "reported" => result[u].findings = <<>>
             /\ result[u] # Running => u \in StartedTools
    BY DEF IInv, ToolShape
  <2>2. ending.ending \in Endings /\ ending.findings \in Seq(FindingsBy(t))
        /\ ending \in [ending : Endings, findings : Seq(Finding)]
    <3>1. ending.ending \in Endings /\ ending.findings \in Seq(FindingsBy(t))
          /\ ending = [ending |-> ending.ending, findings |-> ending.findings]
      BY DEF ToolResult
    <3>2. FindingsBy(t) \subseteq Finding
      BY DEF FindingsBy
    <3>3. ending.findings \in Seq(Finding)
      BY <3>1, <3>2, SeqMono
    <3> QED
      BY <3>1, <3>3
  <2>3. result' \in [Tools -> [ending : Endings, findings : Seq(Finding)]]
    BY <1>1, <2>1, <2>2
  <2>4. \A u \in Tools : result'[u] = IF u = t THEN ending ELSE result[u]
    BY <1>1, <2>1
  <2>5. \A u \in Tools :
          /\ result'[u].findings \in Seq(FindingsBy(u))
          /\ result'[u].ending # "reported" => result'[u].findings = <<>>
          /\ result'[u] # Running => u \in StartedTools
    BY <1>1, <2>1, <2>2, <2>4
  <2> QED
    BY <1>2, <2>3, <2>5 DEF ToolShape
<1>5. LLMShape'
  <2>1. FailedBatchCostsItsFiles'
    BY <1>1, <1>2 DEF IInv, LLMShape, FailedBatchCostsItsFiles, Filter
  <2> QED
    BY <1>1, <1>2, <2>1 DEF IInv, LLMShape
<1>6. MergedShape'
  BY <1>1 DEF IInv, MergedShape, AllReturned
<1> QED
  BY <1>3, <1>4, <1>5, <1>6 DEF IInv

(* So it is for each way a tool may end.                                    *)
LEMMA StepTool ==
  ASSUME IInv, NEW t \in Tools, ToolIsSilent(t) \/ ToolRaises(t) \/ ToolReports(t)
  PROVE  IInv'
<1>1. Silent \in ToolResult(t) /\ Silent.findings = <<>>
  BY DEF Silent, ToolResult, Endings
<1>2. Raised \in ToolResult(t) /\ Raised.findings = <<>>
  BY DEF Raised, ToolResult, Endings
<1>3. ASSUME NEW messages \in Outputs[t]
      PROVE  Reported(t, messages) \in ToolResult(t) /\ Reported(t, messages).ending = "reported"
  <2>1. messages \in Seq(ToolMessage)
    BY InputAssumption
  <2>2. ToolFindings(t, messages) \in Seq(FindingsBy(t))
    BY <2>1, ToolFindingsType
  <2> QED
    BY <2>2 DEF Reported, ToolResult, Endings
<1>4. CASE ToolIsSilent(t)
  BY <1>1, <1>4, StepToolEnds DEF ToolIsSilent
<1>5. CASE ToolRaises(t)
  BY <1>2, <1>5, StepToolEnds DEF ToolRaises
<1>6. CASE ToolReports(t)
  BY <1>3, <1>6, StepToolEnds DEF ToolReports
<1> QED
  BY <1>4, <1>5, <1>6

(* A batch that is reviewed adds its findings, paths and tokens.            *)
LEMMA StepReviewSucceeds ==
  ASSUME IInv, NEW reply \in Replies, ReviewSucceeds(reply)
  PROVE  IInv'
<1>1. /\ diff' = diff /\ enabled' = enabled /\ result' = result /\ merged' = merged
      /\ nextBatch <= Len(Batches) /\ nextBatch' = nextBatch + 1
      /\ failedBatches' = failedBatches
      /\ filesReviewed' = filesReviewed \o PathsOf(Batches[nextBatch])
      /\ promptTokens' = promptTokens + BuildPrompt(Batches[nextBatch]).total
  BY DEF ReviewSucceeds
<1>2. PICK findings \in ParseResponse(reply, Batches[nextBatch]) :
        llmFindings' = llmFindings \o findings
  BY DEF ReviewSucceeds
<1>3. /\ Batches' = Batches /\ StartedTools' = StartedTools
  BY <1>1, SameDiff
<1>4. /\ nextBatch' \in 1..(Len(Batches) + 1) /\ Batches[nextBatch] \in Seq(File)
      /\ nextBatch \in 1..Len(Batches)
      /\ PathsOf(Batches[nextBatch]) \in Seq(Nat) /\ PathsOf(Batches[nextBatch]) # <<>>
      /\ BuildPrompt(Batches[nextBatch]).total \in Nat
      /\ FailedBatchCostsItsFiles'
  BY <1>1, CostsStep
<1>5. DiffShape' /\ ToolShape'
  BY <1>1, <1>3 DEF IInv, DiffShape, ToolShape
<1>6. LLMShape'
  <2>1. /\ llmFindings \in Seq(FindingsBy("llm_review")) /\ filesReviewed \in Seq(Nat)
        /\ promptTokens \in Nat /\ failedBatches \subseteq 1..(nextBatch - 1)
    BY DEF IInv, LLMShape
  <2>2. findings \in Seq(FindingsBy("llm_review"))
    BY <1>4, ParseType
  <2>3. llmFindings' \in Seq(FindingsBy("llm_review"))
    BY <1>2, <2>1, <2>2
  <2>4. filesReviewed' \in Seq(Nat) /\ filesReviewed' # <<>>
    <3> DEFINE more == PathsOf(Batches[nextBatch])
    <3>1. more \in Seq(Nat) /\ more # <<>> /\ filesReviewed' = filesReviewed \o more
      BY <1>1, <1>4
    <3> HIDE DEF more
    <3>2. filesReviewed \o more \in Seq(Nat) /\ filesReviewed \o more # <<>>
      BY <2>1, <3>1
    <3> QED
      BY <3>1, <3>2
  <2>5. promptTokens' \in Nat
    BY <1>1, <1>4, <2>1
  <2>6. failedBatches' \subseteq 1..(nextBatch' - 1)
    BY <1>1, <1>4, <2>1
  <2> QED
    BY <1>3, <1>4, <2>3, <2>4, <2>5, <2>6 DEF LLMShape
<1>7. MergedShape'
  <2>1. Len(Batches) \in Nat
    BY BatchesType DEF IInv, DiffShape
  <2>2. ~AllReturned
    BY <1>1, <1>4, <2>1 DEF AllReturned
  <2> QED
    BY <1>1, <2>2 DEF IInv, MergedShape
<1> QED
  BY <1>5, <1>6, <1>7 DEF IInv

(* A batch that fails adds its number to the failed ones and nothing to     *)
(* what was counted.                                                        *)
LEMMA StepReviewFails ==
  ASSUME IInv, NEW reply \in Replies, ReviewFails(reply)
  PROVE  IInv'
<1>1. /\ diff' = diff /\ enabled' = enabled /\ result' = result /\ merged' = merged
      /\ nextBatch <= Len(Batches) /\ nextBatch' = nextBatch + 1
      /\ failedBatches' = failedBatches \cup {nextBatch}
      /\ filesReviewed' = filesReviewed /\ promptTokens' = promptTokens
      /\ llmFindings' = llmFindings
  BY DEF ReviewFails
<1>2. /\ Batches' = Batches /\ StartedTools' = StartedTools
  BY <1>1, SameDiff
<1>3. /\ nextBatch' \in 1..(Len(Batches) + 1) /\ nextBatch \in 1..Len(Batches)
      /\ FailedBatchCostsItsFiles'
  BY <1>1, CostsStep
<1>4. DiffShape' /\ ToolShape'
  BY <1>1, <1>2 DEF IInv, DiffShape, ToolShape
<1>5. LLMShape'
  <2>1. failedBatches' \subseteq 1..(nextBatch' - 1)
    BY <1>1, <1>3 DEF IInv, LLMShape
  <2> QED
    BY <1>1, <1>2, <1>3, <2>1 DEF IInv, LLMShape
<1>6. MergedShape'
  <2>1. Len(Batches) \in Nat
    BY BatchesType DEF IInv, DiffShape
  <2>2. ~AllReturned
    BY <1>1, <1>3, <2>1 DEF AllReturned
  <2> QED
    BY <1>1, <2>2 DEF IInv, MergedShape
<1> QED
  BY <1>4, <1>5, <1>6 DEF IInv

(* A step that changes no variable changes nothing of the invariant.        *)
LEMMA StepSame ==
  ASSUME IInv, UNCHANGED <<diff, enabled, result, llm>>,
         \/ merged' = merged
         \/ /\ AllReturned
            /\ merged' = Merge(JoinTools(StartedStatic, result),
                               JoinTools(StartedSecurity, result), LLMResult)
  PROVE  IInv'
<1>1. /\ diff' = diff /\ enabled' = enabled /\ result' = result
      /\ nextBatch' = nextBatch /\ llmFindings' = llmFindings /\ filesReviewed' = filesReviewed
      /\ promptTokens' = promptTokens /\ failedBatches' = failedBatches
  BY DEF llm
<1>2. /\ Batches' = Batches /\ StartedTools' = StartedTools
      /\ StartedStatic' = StartedStatic /\ StartedSecurity' = StartedSecurity
  BY <1>1, SameDiff
<1>3. DiffShape' /\ ToolShape'
  BY <1>1, <1>2 DEF IInv, DiffShape, ToolShape
<1>4. FailedBatchCostsItsFiles'
  BY <1>1, <1>2 DEF IInv, LLMShape, FailedBatchCostsItsFiles, Filter
<1>5. LLMShape'
  BY <1>1, <1>2, <1>4 DEF IInv, LLMShape
<1>6. AllReturned' = AllReturned /\ LLMResult' = LLMResult
  BY <1>1, <1>2 DEF AllReturned, LLMResult
<1>7. MergedShape'
  BY <1>1, <1>2, <1>6 DEF IInv, MergedShape
<1> QED
  BY <1>3, <1>5, <1>7 DEF IInv

(* Every step keeps the invariant.                                          *)
LEMMA StepLemma == IInv /\ [Next]_vars => IInv'
<1> SUFFICES ASSUME IInv, [Next]_vars
             PROVE  IInv'
  OBVIOUS
<1>1. ASSUME NEW t \in Tools, ToolIsSilent(t) \/ ToolRaises(t) \/ ToolReports(t)
      PROVE  IInv'
  BY <1>1, StepTool
<1>2. ASSUME NEW reply \in Replies, ReviewSucceeds(reply) \/ ReviewFails(reply)
      PROVE  IInv'
  BY <1>2, StepReviewSucceeds, StepReviewFails
<1>3. CASE MergeResults
  BY <1>3, StepSame DEF MergeResults
<1>4. CASE UNCHANGED vars
  BY <1>4, StepSame DEF vars
<1> QED
  BY <1>1, <1>2, <1>3, <1>4 DEF Next

(* The inductive invariant holds in every state the analysis reaches, for   *)
(* every diff, every set of tools, whatever they print and whatever the     *)
(* language model replies.                                                  *)
THEOREM Invariance == Spec => []IInv
<1> QED
  BY InitLemma, StepLemma, PTL DEF Spec

-----------------------------------------------------------------------------
(* What an agent joins *)

Results == [Tools -> [ending : Endings, findings : Seq(Finding)]]
Returned(names, res) == {t \in ToSet(names) : res[t].ending # "raised"}

(* JoinTools keeps the findings and the names of the tools that returned.   *)
LEMMA JoinLemma ==
  ASSUME NEW names \in Seq(Tools), NEW res \in Results
  PROVE  LET join == JoinTools(names, res)
         IN  /\ join.findings \in Seq(Finding)
             /\ ToSet(join.findings) = UNION {ToSet(res[t].findings) : t \in Returned(names, res)}
             /\ join.analyzersRun \in Seq(Tools)
             /\ ToSet(join.analyzersRun) = Returned(names, res)
             /\ IsInjective(names) => IsInjective(join.analyzersRun)
<1> DEFINE K == {n \in DOMAIN names : res[names[n]].ending # "raised"}
           returned == AtPositions(names, K)
           lists == [n \in DOMAIN returned |-> res[returned[n]].findings]
           join == JoinTools(names, res)
<1>1. returned \in Seq(Tools) /\ ToSet(returned) = {names[k] : k \in K}
  BY AtPositionsLemma
<1>2. IsInjective(names) => IsInjective(returned)
  BY AtPositionsInjective
<1>3. join.findings = FlattenSeq(lists) /\ join.analyzersRun = returned
  BY DEF JoinTools, Filter
<1>4. {names[k] : k \in K} = Returned(names, res)
  BY DEF Returned, ToSet
<1> HIDE DEF K, returned, join
<1>5. Len(returned) \in Nat /\ DOMAIN returned = 1..Len(returned)
      /\ \A n \in 1..Len(returned) : returned[n] \in Tools
  BY <1>1
<1>6. \A t \in Tools : res[t].findings \in Seq(Finding)
  BY DEF Results
<1>7. lists \in Seq(Seq(Finding)) /\ DOMAIN lists = 1..Len(returned)
      /\ \A n \in 1..Len(returned) : lists[n] = res[returned[n]].findings
  BY <1>5, <1>6
<1> HIDE DEF lists
<1>8. /\ FlattenSeq(lists) \in Seq(Finding)
      /\ ToSet(FlattenSeq(lists)) = UNION {ToSet(lists[n]) : n \in DOMAIN lists}
  BY <1>7, FlattenMembers
<1>9. UNION {ToSet(lists[n]) : n \in DOMAIN lists}
        = UNION {ToSet(res[t].findings) : t \in ToSet(returned)}
  <2>1. \A n \in DOMAIN lists : lists[n] = res[returned[n]].findings /\ returned[n] \in ToSet(returned)
    BY <1>5, <1>7 DEF ToSet
  <2>2. \A t \in ToSet(returned) : \E n \in DOMAIN lists : lists[n] = res[t].findings
    BY <1>5, <1>7 DEF ToSet
  <2> QED
    BY <2>1, <2>2
<1> QED
  BY <1>1, <1>2, <1>3, <1>4, <1>8, <1>9 DEF join

-----------------------------------------------------------------------------
(* What the merge is given *)

StaticResult == JoinTools(StartedStatic, result)
SecurityResult == JoinTools(StartedSecurity, result)
Together == StaticResult.findings \o SecurityResult.findings \o llmFindings
Table == TableTools(StaticResult, SecurityResult, LLMResult)

(* An agent starts some of its own tools, each once, and the two agents have *)
(* no tool in common.                                                       *)
LEMMA StartedLemma ==
  /\ StartedStatic \in Seq(Tools) /\ IsInjective(StartedStatic)
  /\ StartedSecurity \in Seq(Tools) /\ IsInjective(StartedSecurity)
  /\ ToSet(StartedStatic) \cap ToSet(StartedSecurity) = {}
<1> DEFINE Ok(t) == t \in enabled /\ FilesFor(t, diff) # <<>>
           K == {n \in DOMAIN StaticTools : Ok(StaticTools[n])}
           L == {n \in DOMAIN SecurityTools : Ok(SecurityTools[n])}
<1>1. StaticTools \in Seq(Tools) /\ SecurityTools \in Seq(Tools)
  BY DEF StaticTools, SecurityTools, Tools
<1>2. IsInjective(StaticTools)
  BY DEF StaticTools, IsInjective
<1>3. IsInjective(SecurityTools)
  BY DEF SecurityTools, IsInjective
<1>4. \A k \in DOMAIN StaticTools : StaticTools[k] \notin {"bandit", "semgrep"}
  BY DEF StaticTools
<1>5. \A k \in DOMAIN SecurityTools : SecurityTools[k] \in {"bandit", "semgrep"}
  BY DEF SecurityTools
<1>6. StartedStatic = AtPositions(StaticTools, K) /\ StartedSecurity = AtPositions(SecurityTools, L)
  BY DEF StartedStatic, StartedSecurity, Started, Filter
<1>7. K \in SUBSET DOMAIN StaticTools /\ L \in SUBSET DOMAIN SecurityTools
  OBVIOUS
<1> HIDE DEF K, L
<1>8. /\ StartedStatic \in Seq(Tools) /\ ToSet(StartedStatic) = {StaticTools[k] : k \in K}
      /\ IsInjective(StartedStatic)
  BY <1>1, <1>2, <1>6, <1>7, AtPositionsLemma, AtPositionsInjective
<1>9. /\ StartedSecurity \in Seq(Tools) /\ ToSet(StartedSecurity) = {SecurityTools[k] : k \in L}
      /\ IsInjective(StartedSecurity)
  BY <1>1, <1>3, <1>6, <1>7, AtPositionsLemma, AtPositionsInjective
<1> QED
  BY <1>4, <1>5, <1>7, <1>8, <1>9

(* A tool that has findings was started, and did not raise.                 *)
LEMMA FindersReturned ==
  ASSUME IInv, NEW t \in Tools, result[t].findings # <<>>
  PROVE  t \in Returned(StartedStatic, result) \cup Returned(StartedSecurity, result)
<1>1. result[t].ending = "reported"
  BY DEF IInv, ToolShape
<1>2. result[t] # Running
  BY <1>1 DEF Running
<1>3. t \in StartedTools
  BY <1>2 DEF IInv, ToolShape
<1> QED
  BY <1>1, <1>3 DEF StartedTools, Returned

(* The list the merge starts from has exactly what was reported, and the    *)
(* table has a row for the source of every finding, and one only.           *)
LEMMA TogetherLemma ==
  ASSUME IInv
  PROVE  /\ Together \in Seq(Finding) /\ ToSet(Together) = AllReported
         /\ Table \in Seq(Sources) /\ IsInjective(Table)
         /\ \A f \in AllReported : f.source \in ToSet(Table)
<1> DEFINE s == StaticResult
           e == SecurityResult
           RS == Returned(StartedStatic, result)
           RE == Returned(StartedSecurity, result)
<1>1. result \in Results
  BY DEF IInv, ToolShape, Results
<1>2. /\ s.findings \in Seq(Finding)
      /\ ToSet(s.findings) = UNION {ToSet(result[t].findings) : t \in RS}
      /\ s.analyzersRun \in Seq(Tools) /\ ToSet(s.analyzersRun) = RS
      /\ IsInjective(s.analyzersRun)
  BY <1>1, StartedLemma, JoinLemma DEF StaticResult
<1>3. /\ e.findings \in Seq(Finding)
      /\ ToSet(e.findings) = UNION {ToSet(result[t].findings) : t \in RE}
      /\ e.analyzersRun \in Seq(Tools) /\ ToSet(e.analyzersRun) = RE
      /\ IsInjective(e.analyzersRun)
  BY <1>1, StartedLemma, JoinLemma DEF SecurityResult
<1>4. RS \subseteq Tools /\ RE \subseteq Tools /\ RS \cap RE = {}
  <2>1. ToSet(StartedStatic) \subseteq Tools /\ ToSet(StartedSecurity) \subseteq Tools
    BY StartedLemma DEF ToSet
  <2> QED
    BY <2>1, StartedLemma DEF Returned
<1>5. llmFindings \in Seq(FindingsBy("llm_review")) /\ llmFindings \in Seq(Finding)
  BY SeqMono DEF IInv, LLMShape, FindingsBy
<1>6. ASSUME NEW t \in Tools
      PROVE  /\ result[t].findings \in Seq(FindingsBy(t))
             /\ \A f \in ToSet(result[t].findings) : f.source = t
             /\ ToSet(result[t].findings) # {} => t \in RS \cup RE
  <2>1. result[t].findings \in Seq(FindingsBy(t))
    BY DEF IInv, ToolShape
  <2>2. \A f \in ToSet(result[t].findings) : f.source = t
    BY <2>1 DEF ToSet, FindingsBy
  <2>3. ToSet(<<>>) = {}
    BY DEF ToSet
  <2> QED
    BY <2>1, <2>2, <2>3, FindersReturned
<1> DEFINE tools == s.analyzersRun \o e.analyzersRun
           last == IF filesReviewed = <<>> THEN <<>> ELSE <<"llm_review">>
<1>7. /\ s.findings \o e.findings \in Seq(Finding)
      /\ ToSet(s.findings \o e.findings) = ToSet(s.findings) \cup ToSet(e.findings)
  BY <1>2, <1>3, ConcatMembers
<1>8. /\ Together \in Seq(Finding)
      /\ ToSet(Together) = ToSet(s.findings) \cup ToSet(e.findings) \cup ToSet(llmFindings)
  <2> DEFINE two == s.findings \o e.findings
  <2>1. Together = two \o llmFindings
    BY DEF Together
  <2>2. /\ two \o llmFindings \in Seq(Finding)
        /\ ToSet(two \o llmFindings) = ToSet(two) \cup ToSet(llmFindings)
    <3>1. two \in Seq(Finding)
      BY <1>7
    <3> HIDE DEF two
    <3> QED
      BY <1>5, <3>1, ConcatMembers
  <2> QED
    BY <1>7, <2>1, <2>2
<1>9. ToSet(s.findings) \cup ToSet(e.findings) = UNION {ToSet(result[t].findings) : t \in Tools}
  <2> DEFINE F(t) == ToSet(result[t].findings)
  <2>1. \A t \in Tools : F(t) # {} => t \in RS \cup RE
    BY <1>6
  <2> HIDE DEF F
  <2>2. (UNION {F(t) : t \in RS}) \cup (UNION {F(t) : t \in RE}) = UNION {F(t) : t \in Tools}
    BY <1>4, <2>1
  <2> QED
    BY <1>2, <1>3, <2>2 DEF F
<1>10. ToSet(Together) = AllReported
  BY <1>8, <1>9 DEF AllReported
<1>11. Tools \subseteq Sources /\ "llm_review" \in Sources /\ "llm_review" \notin Tools
  BY DEF Tools, Sources, SourcePriority
<1>12. tools \in Seq(Tools) /\ ToSet(tools) = RS \cup RE /\ IsInjective(tools)
  BY <1>2, <1>3, <1>4, ConcatMembers
<1>13. tools \in Seq(Sources)
  BY <1>11, <1>12, SeqMono
<1>14. /\ last \in Seq(Sources) /\ IsInjective(last) /\ ToSet(last) \subseteq {"llm_review"}
       /\ filesReviewed # <<>> => "llm_review" \in ToSet(last)
  BY <1>11 DEF IsInjective, ToSet
<1>15. Table = tools \o last
  BY DEF Table, TableTools, LLMResult
<1> HIDE DEF tools, last
<1>16. Table \in Seq(Sources) /\ ToSet(Table) = ToSet(tools) \cup ToSet(last) /\ IsInjective(Table)
  BY <1>4, <1>11, <1>12, <1>13, <1>14, <1>15, ConcatMembers
<1>17. ASSUME NEW f \in AllReported
       PROVE  f.source \in ToSet(Table)
  <2>1. CASE f \in ToSet(llmFindings)
    <3>1. f.source = "llm_review"
      BY <1>5, <2>1 DEF ToSet, FindingsBy
    <3>2. llmFindings # <<>>
      BY <2>1 DEF ToSet
    <3> QED
      BY <1>14, <1>16, <3>1, <3>2 DEF IInv, LLMShape
  <2>2. CASE \E t \in Tools : f \in ToSet(result[t].findings)
    BY <1>6, <1>12, <1>16, <2>2
  <2> QED
    BY <2>1, <2>2 DEF AllReported
<1> QED
  BY <1>8, <1>10, <1>16, <1>17

-----------------------------------------------------------------------------
(* The merged list *)

(* Findings have all that ranking compares.                                 *)
LEMMA FindingsAreRankable ==
  ASSUME NEW fs \in Seq(Finding)
  PROVE  RankableFindings(fs)
<1>1. Len(fs) \in Nat /\ DOMAIN fs = 1..Len(fs) /\ \A i \in 1..Len(fs) : fs[i] \in Finding
  OBVIOUS
<1>2. \A f \in Finding : /\ f.confidence \in 0..100 /\ f.source \in Sources
                         /\ f.severity \in Severities /\ f.path \in Int /\ f.line \in Int
  BY DEF Finding
<1>3. IsFiniteSet(1..Len(fs)) /\ 1..Len(fs) \subseteq Nat
  BY <1>1, FS_Interval
<1> QED
  BY <1>1, <1>2, <1>3 DEF RankableFindings, ScoredFindings

(* The ranked list is a list of findings, and of the given ones.            *)
LEMMA RankedIsList ==
  ASSUME NEW fs \in Seq(Finding)
  PROVE  Ranked(fs) \in Seq(Finding) /\ ToSet(Ranked(fs)) \subseteq ToSet(fs)
<1> DEFINE R == Ranked(fs)
           N == Cardinality(Kept(fs))
<1>1. PICK order \in [1..N -> Kept(fs)] : \A n \in DOMAIN R : R[n] = fs[order[n]]
  BY FindingsAreRankable, RankedLemma
<1>2. N \in Nat /\ DOMAIN R = 1..N
  BY FindingsAreRankable, RankedLemma
<1>3. Kept(fs) \subseteq DOMAIN fs
  BY DEF Kept
<1>4. R = [n \in 1..N |-> R[n]]
  BY <1>2 DEF Ranked, Arrange
<1> HIDE DEF R, N
<1>5. \A n \in 1..N : R[n] \in Finding /\ R[n] \in ToSet(fs)
  BY <1>1, <1>2, <1>3 DEF ToSet
<1>6. R \in Seq(Finding)
  BY <1>2, <1>4, <1>5
<1>7. \A x \in ToSet(R) : x \in ToSet(fs)
  BY <1>2, <1>5 DEF ToSet
<1> QED
  BY <1>6, <1>7 DEF R

(* Once merged, the list and the table are those of the results.            *)
LEMMA MergedLemma ==
  ASSUME IInv, merged # NotMerged
  PROVE  /\ merged.findings = Ranked(Together)
         /\ merged.report.table
              = [n \in DOMAIN Table |-> [tool |-> Table[n],
                                         count |-> CountFrom(Ranked(Together), Table[n])]]
<1>1. merged = Merge(StaticResult, SecurityResult, LLMResult)
  BY DEF IInv, MergedShape, StaticResult, SecurityResult
<1>2. StaticResult.findings \o SecurityResult.findings \o LLMResult.findings = Together
  BY DEF LLMResult, Together
<1> QED
  BY <1>1, <1>2 DEF Merge, MarkdownReport, Table

(* The invariant implies the types.                                         *)
LEMMA TypeOKLemma == IInv => TypeOK
<1> SUFFICES ASSUME IInv PROVE TypeOK
  OBVIOUS
<1>1. merged.findings \in Seq(Finding)
  <2>1. CASE merged = NotMerged
    BY <2>1 DEF NotMerged
  <2>2. CASE merged # NotMerged
    BY <2>2, MergedLemma, TogetherLemma, RankedIsList
  <2> QED
    BY <2>1, <2>2
<1>2. llmFindings \in Seq(Finding)
  BY SeqMono DEF IInv, LLMShape, FindingsBy
<1>3. failedBatches \subseteq 1..Len(Batches)
  <2>1. Len(Batches) \in Nat
    BY BatchesType DEF IInv, DiffShape
  <2>2. nextBatch \in 1..(Len(Batches) + 1) /\ failedBatches \subseteq 1..(nextBatch - 1)
    BY DEF IInv, LLMShape
  <2> QED
    BY <2>1, <2>2
<1> QED
  BY <1>1, <1>2, <1>3 DEF IInv, DiffShape, ToolShape, LLMShape, Endings, TypeOK

(* The invariant implies that nothing reported is lost.                     *)
LEMMA RepresentedLemma == IInv => EveryReportIsRepresented
<1> SUFFICES ASSUME IInv, merged # NotMerged
             PROVE  /\ \A f \in AllReported :
                         /\ Quantify(DOMAIN merged.findings,
                                     LAMBDA n : DedupKey(merged.findings[n]) = DedupKey(f)) = 1
                         /\ \A g \in ToSet(merged.findings) :
                              DedupKey(g) = DedupKey(f) => ~Outranks(f, g)
                    /\ ToSet(merged.findings) \subseteq AllReported
  BY DEF EveryReportIsRepresented
<1> DEFINE fs == Together
           R == Ranked(fs)
           N == Cardinality(Kept(fs))
<1>1. merged.findings = R
  BY MergedLemma
<1>2. fs \in Seq(Finding) /\ ToSet(fs) = AllReported
  BY TogetherLemma
<1>3. RankableFindings(fs) /\ ScoredFindings(fs)
  BY <1>2, FindingsAreRankable DEF RankableFindings
<1>4. DOMAIN R = 1..N
  BY <1>3, RankedLemma
<1>5. PICK order \in [1..N -> Kept(fs)] :
        /\ \A n \in DOMAIN R : R[n] = fs[order[n]]
        /\ \A k \in Kept(fs) : \E n \in DOMAIN R : order[n] = k
        /\ \A m, n \in DOMAIN R : order[m] = order[n] => m = n
  BY <1>3, RankedLemma
<1> HIDE DEF R, N
<1>6. ASSUME NEW f \in AllReported
      PROVE  /\ Cardinality({n \in DOMAIN R : DedupKey(R[n]) = DedupKey(f)}) = 1
             /\ \A g \in ToSet(R) : DedupKey(g) = DedupKey(f) => ~Outranks(f, g)
  <2>1. PICK i \in DOMAIN fs : fs[i] = f
    BY <1>2 DEF ToSet
  <2>2. PICK k \in Kept(fs) : /\ DedupKey(fs[k]) = DedupKey(f)
                              /\ ~Outranks(f, fs[k])
                              /\ \A j \in Kept(fs) : DedupKey(fs[j]) = DedupKey(f) => j = k
    BY <1>3, <2>1, DeduplicationRepresents
  <2>3. PICK n \in DOMAIN R : order[n] = k
    BY <1>5
  <2>4. \A m \in DOMAIN R : DedupKey(R[m]) = DedupKey(f) <=> m = n
    BY <1>4, <1>5, <2>2, <2>3
  <2>5. {m \in DOMAIN R : DedupKey(R[m]) = DedupKey(f)} = {n}
    BY <2>4
  <2>6. Cardinality({m \in DOMAIN R : DedupKey(R[m]) = DedupKey(f)}) = 1
    BY <2>5, FS_Singleton
  <2>7. \A g \in ToSet(R) : DedupKey(g) = DedupKey(f) => ~Outranks(f, g)
    BY <1>5, <2>2, <2>3, <2>4 DEF ToSet
  <2> QED
    BY <2>6, <2>7
<1>7. ToSet(R) \subseteq AllReported
  BY <1>2, RankedIsList DEF R
<1> QED
  BY <1>1, <1>6, <1>7 DEF Quantify

-----------------------------------------------------------------------------
(* The cap on the line comments *)

(* What is left out of the line comments is behind what is posted.          *)
LEMMA CapLemma == IInv => CapKeepsWorst
<1> SUFFICES ASSUME IInv, merged # NotMerged
             PROVE  LET posted == Comments(merged.findings, MaxComments)
                        left == {f \in ToSet(merged.findings) : f.line # NoLine} \ ToSet(posted)
                    IN  left # {} =>
                          /\ Len(posted) = MaxComments
                          /\ \A f \in left, g \in ToSet(posted) :
                               SeverityScore[f.severity] <= SeverityScore[g.severity]
  BY DEF CapKeepsWorst
<1> DEFINE R == Ranked(Together)
           K == {n \in DOMAIN R : R[n].line # NoLine}
           W == AtPositions(R, K)
           A == Ascending(K)
           last == IF Len(W) < MaxComments THEN Len(W) ELSE MaxComments
           posted == SubSeq(W, 1, last)
           left == {f \in ToSet(R) : f.line # NoLine} \ ToSet(posted)
<1>1. merged.findings = R
  BY MergedLemma
<1>2. Comments(merged.findings, MaxComments) = posted
  BY <1>1 DEF Comments, Filter
<1>3. R \in Seq(Finding)
  BY TogetherLemma, RankedIsList
<1>4. \A m, n \in DOMAIN R : m < n => SeverityScore[R[n].severity] <= SeverityScore[R[m].severity]
  BY TogetherLemma, FindingsAreRankable, RankedLemma
<1>5. K \in SUBSET DOMAIN R /\ \A f \in ToSet(R) : f.line # NoLine => \E k \in K : R[k] = f
  BY DEF ToSet
<1> HIDE DEF R, K, W
<1>6. /\ W \in Seq(Finding) /\ Len(W) = Cardinality(K)
      /\ \A n \in 1..Len(W) : W[n] = R[A[n]]
  BY <1>3, <1>5, AtPositionsLemma DEF W
<1>7. /\ Len(W) \in Nat /\ A \in [1..Len(W) -> K]
      /\ \A k \in K : \E n \in 1..Len(W) : A[n] = k
      /\ \A m, n \in 1..Len(W) : m < n <=> A[m] < A[n]
  BY <1>3, <1>5, <1>6, PositionsOf, AscendingLemma
<1> HIDE DEF A
<1>8. MaxComments \in Nat
  BY InputAssumption
<1>9. last \in 0..Len(W) /\ last <= MaxComments
  BY <1>7, <1>8
<1>10. /\ Len(posted) = last /\ DOMAIN posted = 1..last
       /\ \A n \in 1..last : posted[n] = W[n] /\ n \in 1..Len(W)
  BY <1>6, <1>7, <1>9
<1> HIDE DEF posted
<1>11. ASSUME NEW f \in left
       PROVE  \E n \in 1..Len(W) : f = R[A[n]] /\ n > last
  <2>1. PICK n \in 1..Len(W) : f = R[A[n]]
    BY <1>5, <1>7
  <2>2. CASE n \in 1..last
    <3>1. posted[n] = f
      BY <1>6, <1>10, <2>1, <2>2
    <3> QED
      BY <1>10, <2>2, <3>1 DEF ToSet
  <2> QED
    BY <1>9, <2>1, <2>2
<1>12. ASSUME NEW f \in left
       PROVE  Len(posted) = MaxComments
  <2>1. PICK n \in 1..Len(W) : n > last
    BY <1>11
  <2> QED
    BY <1>7, <1>8, <1>10, <2>1
<1>13. ASSUME NEW f \in left, NEW g \in ToSet(posted)
       PROVE  SeverityScore[f.severity] <= SeverityScore[g.severity]
  <2>1. PICK n \in 1..Len(W) : f = R[A[n]] /\ n > last
    BY <1>11
  <2>2. PICK m \in 1..last : g = posted[m]
    BY <1>10 DEF ToSet
  <2>3. m \in 1..Len(W) /\ g = R[A[m]] /\ m < n
    BY <1>6, <1>9, <1>10, <2>1, <2>2
  <2>4. A[m] < A[n] /\ A[m] \in DOMAIN R /\ A[n] \in DOMAIN R
    BY <1>5, <1>7, <2>3
  <2> QED
    BY <1>4, <2>1, <2>3, <2>4
<1> HIDE DEF left
<1> QED
  BY <1>1, <1>2, <1>12, <1>13 DEF left

-----------------------------------------------------------------------------
(* The table *)

(* The counts of different sources add up to the findings of all of them.   *)
LEMMA CountsAddUp ==
  ASSUME NEW tools \in Seq(Sources), IsInjective(tools), NEW R \in Seq(Finding),
         \A i \in DOMAIN R : R[i].source \in ToSet(tools)
  PROVE  SumSeq([n \in DOMAIN tools |-> CountFrom(R, tools[n])]) = Len(R)
<1> DEFINE N == Len(tools)
           I == DOMAIN R
           E(n) == {i \in I : R[i].source = tools[n]}
           D(n) == {i \in I : \E m \in 1..n : R[i].source = tools[m]}
           counts == [n \in DOMAIN tools |-> CountFrom(R, tools[n])]
<1>1. N \in Nat /\ DOMAIN tools = 1..N
  OBVIOUS
<1>2. IsFiniteSet(I) /\ Cardinality(I) = Len(R)
  <2>1. Len(R) \in Nat /\ I = 1..Len(R)
    OBVIOUS
  <2>2. IsFiniteSet(1..Len(R)) /\ Cardinality(1..Len(R)) = Len(R)
    BY <2>1, CountUpTo
  <2> QED
    BY <2>1, <2>2
<1>3. \A n : E(n) \in SUBSET I /\ D(n) \in SUBSET I
  OBVIOUS
<1>4. \A n : /\ IsFiniteSet(E(n)) /\ Cardinality(E(n)) \in Nat
             /\ IsFiniteSet(D(n)) /\ Cardinality(D(n)) \in Nat
  <2> HIDE DEF E, D, I
  <2> QED
    BY <1>2, <1>3, FS_Subset, FS_CardinalityType
<1>5. \A n \in 1..N : counts[n] = Cardinality(E(n))
  BY <1>1 DEF CountFrom
<1>6. counts \in Seq(Nat) /\ Len(counts) = N
  <2>1. counts = [n \in 1..N |-> counts[n]]
    BY <1>1
  <2> HIDE DEF counts, E, D
  <2>2. \A n \in 1..N : counts[n] \in Nat
    BY <1>4, <1>5
  <2> QED
    BY <1>1, <2>1, <2>2
<1>7. PICK acc \in [0..N -> Nat] :
        /\ acc[0] = 0 /\ acc[N] = SumSeq(counts)
        /\ \A n \in 1..N : acc[n] = acc[n - 1] + counts[n]
  <2> HIDE DEF counts
  <2> QED
    BY <1>6, SumLoop
<1> DEFINE T == {n \in 0..N : acc[n] = Cardinality(D(n))}
<1>8. 0 \in T
  <2>1. D(0) = {}
    OBVIOUS
  <2>2. Cardinality(D(0)) = 0
    BY <2>1, FS_EmptySet
  <2> HIDE DEF D
  <2> QED
    BY <1>1, <1>7, <2>2
<1>9. ASSUME NEW n \in 1..N, n - 1 \in T
      PROVE  n \in T
  <2>1. D(n) = D(n - 1) \cup E(n)
    <3>1. \A m \in 1..n : m \in 1..(n - 1) \/ m = n
      BY <1>1
    <3>2. n \in 1..n /\ \A m \in 1..(n - 1) : m \in 1..n
      BY <1>1
    <3> QED
      BY <3>1, <3>2
  <2>2. D(n - 1) \cap E(n) = {}
    <3> SUFFICES ASSUME NEW i \in I, NEW m \in 1..(n - 1),
                        R[i].source = tools[m], R[i].source = tools[n]
                 PROVE  FALSE
      OBVIOUS
    <3>1. m \in DOMAIN tools /\ n \in DOMAIN tools /\ m # n
      BY <1>1
    <3> QED
      BY <3>1 DEF IsInjective
  <2> HIDE DEF D, E, counts
  <2>3. Cardinality(D(n)) = Cardinality(D(n - 1)) + Cardinality(E(n))
    <3> DEFINE P == D(n - 1)
               Q == E(n)
    <3>1. /\ IsFiniteSet(P) /\ IsFiniteSet(Q) /\ P \cap Q = {}
          /\ Cardinality(P) \in Nat /\ Cardinality(Q) \in Nat
      BY <1>4, <2>2
    <3>2. D(n) = P \cup Q
      BY <2>1
    <3> HIDE DEF P, Q
    <3>3. Cardinality(P \cup Q) = Cardinality(P) + Cardinality(Q)
      BY <3>1, DisjointUnion
    <3> QED
      BY <3>2, <3>3 DEF P, Q
  <2>4. acc[n - 1] = Cardinality(D(n - 1)) /\ n \in 0..N
    BY <1>1, <1>9
  <2> QED
    BY <1>5, <1>7, <2>3, <2>4
<1>10. 0..N \subseteq T
  <2> HIDE DEF T
  <2> QED
    BY <1>1, <1>8, <1>9, InductionUpTo
<1>11. D(N) = I
  BY <1>1 DEF ToSet
<1>12. N \in T
  <2> HIDE DEF T
  <2> QED
    BY <1>1, <1>10
<1> QED
  BY <1>2, <1>7, <1>11, <1>12

(* The invariant implies that the table adds up.                            *)
LEMMA TableLemma == IInv => TableAddsUp
<1> SUFFICES ASSUME IInv, merged # NotMerged
             PROVE  LET table == merged.report.table
                    IN  /\ SumSeq([n \in DOMAIN table |-> table[n].count]) = Len(merged.findings)
                        /\ \A m, n \in DOMAIN table : table[m].tool = table[n].tool => m = n
  BY DEF TableAddsUp
<1> DEFINE R == Ranked(Together)
           table == [n \in DOMAIN Table |-> [tool |-> Table[n], count |-> CountFrom(R, Table[n])]]
<1>1. merged.findings = R /\ merged.report.table = table
  BY MergedLemma
<1>2. R \in Seq(Finding) /\ ToSet(R) \subseteq AllReported
  BY TogetherLemma, RankedIsList
<1>3. \A i \in DOMAIN R : R[i].source \in ToSet(Table)
  BY <1>2, TogetherLemma DEF ToSet
<1>4. SumSeq([n \in DOMAIN Table |-> CountFrom(R, Table[n])]) = Len(R)
  <2> HIDE DEF R
  <2> QED
    BY <1>2, <1>3, TogetherLemma, CountsAddUp
<1>5. [n \in DOMAIN table |-> table[n].count] = [n \in DOMAIN Table |-> CountFrom(R, Table[n])]
  OBVIOUS
<1>6. \A m, n \in DOMAIN table : table[m].tool = table[n].tool => m = n
  BY TogetherLemma DEF IsInjective
<1> HIDE DEF table
<1> QED
  BY <1>1, <1>4, <1>5, <1>6

-----------------------------------------------------------------------------
(* Results, counters and lists of node_concurrent_analysis have the shapes  *)
(* of the schemas, always.                                                  *)
THEOREM TypeCorrect == Spec => []TypeOK
  BY Invariance, TypeOKLemma, PTL

(* MergerAgent loses no problem: for diffs, tools and replies of any number *)
(* and in any order of their ends, the merged list has exactly one finding  *)
(* for the key of each reported one, not outranked by it, and nothing that  *)
(* was not reported.                                                        *)
THEOREM Representation == Spec => []EveryReportIsRepresented
  BY Invariance, RepresentedLemma, PTL

(* Whatever max_comments_per_review is, the comments that are not posted    *)
(* (GitHubClient._post_review_sync) are no more severe than those that are, *)
(* and none is withheld while there is room.                                *)
THEOREM CapIsSafe == Spec => []CapKeepsWorst
  BY Invariance, CapLemma, PTL

(* The table of the report accounts for every finding once, whichever tools *)
(* raise and whichever source the survivor of a group has.                  *)
THEOREM TableIsComplete == Spec => []TableAddsUp
  BY Invariance, TableLemma, PTL

(* Every reviewable file is in exactly one batch, within the limits of      *)
(* files and of characters, for all limits                                  *)
(* (LLMReviewAgent._create_batches).                                        *)
THEOREM Coverage == Spec => []BatchesCoverDiff
<1>1. IInv => BatchesCoverDiff
  BY BatchesCover DEF IInv, DiffShape
<1> QED
  BY <1>1, Invariance, PTL

(* A prompt exceeds the limit by a heading, a fence and a note at most, and *)
(* leaves out or cuts a file only when it is reached                        *)
(* (LLMReviewAgent._build_prompt).                                          *)
THEOREM PromptLimit == Spec => []PromptFits
<1>1. IInv => PromptFits
  BY PromptsFit DEF IInv, DiffShape
<1> QED
  BY <1>1, Invariance, PTL

(* A failed call to the language model costs the files of its batch and no  *)
(* other (LLMReviewAgent.review).                                           *)
THEOREM FailureIsLocal == Spec => []FailedBatchCostsItsFiles
<1>1. IInv => FailedBatchCostsItsFiles
  BY DEF IInv, LLMShape
<1> QED
  BY <1>1, Invariance, PTL
=============================================================================
