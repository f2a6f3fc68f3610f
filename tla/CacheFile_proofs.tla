-------------------------- MODULE CacheFile_proofs --------------------------
(***************************************************************************)
(* Proofs about CacheFile for planners that run one after another, however *)
(* many they are, whatever they crash in, whichever module processes live  *)
(* on and save, and however long the file is.                              *)
(*                                                                         *)
(* Planners at the same time break what is proved here (LiveKept).         *)
(***************************************************************************)
EXTENDS CacheFile, TLAPS

Cell == Life \cup {Hole, Data}

\* Only one planner runs, or a process of the last one that has its file still to open.
Active(l) == Up(l) \/ (proc[l] = "module" /\ wr[l].st = "none")
OneAtATime == \A l, m \in Life : Active(l) /\ Active(m) => l = m

\* Where the operation of a planner ran, nothing will write any more.
Dead(l) == proc[l] = "gone" \/ (proc[l] = "inside" /\ ph[l] = "gone")

\* No version has a hole: its first cell is its maker, then comes its data.
Clean == \A l \in Life : \A i \in 1..Len(data[l]) : data[l][i] = IF i = 1 THEN l ELSE Data

\* A planner makes one version, its own, from its first cell to the last.
Made ==
    \A l \in Life :
        /\ wr[l].st = "none" => data[l] = <<>> /\ wr[l].file = NoLife
        /\ wr[l].st = "write" =>
              wr[l].file = l /\ wr[l].off <= Last /\ Len(data[l]) = wr[l].off - 1
        /\ wr[l].st = "done" => wr[l].file = l /\ Len(data[l]) = Last
        /\ wr[l].st = "failed" =>
              wr[l].file \in {l, NoLife} /\ Len(data[l]) < Last /\ (wr[l].file = NoLife => data[l] = <<>>)

\* What a planner has done when it is where it is, and that there is no file while one of its own
\* is still to be opened.
Stage ==
    \A l \in Life :
        /\ ph[l] \in {"off", "sweep", "look"} => proc[l] = "none"
        /\ proc[l] = "none" => wr[l].st = "none"
        /\ ph[l] \in {"off", "sweep", "look", "compute"} =>
              wr[l].st = "none" /\ rd[l].st = "none" /\ valid[l] # "valid"
        /\ ph[l] \in {"use", "leave"} /\ wr[l].st = "none" => proc[l] = "none"
        /\ ph[l] = "compute" \/ (proc[l] = "module" /\ wr[l].st = "none") => name = NoLife
        /\ ph[l] = "use" /\ (wr[l].file = l \/ valid[l] = "valid") => name # NoLife
        /\ ph[l] = "look" \/ proc[l] # "none" => l \in Uses
        /\ ph[l] = "leave" => l \notin Uses

\* The name stands for a version that was opened, and for the one of the planner that runs.
Named ==
    /\ name # NoLife => wr[name].file = name
    /\ \A l \in Life : ph[l] = "use" /\ wr[l].file = l => name = l

\* What a sweep reads.
Looked(l) ==
    IF name = NoLife THEN Nothing
    ELSE [verdict |-> Verdict(data[name]),
          by |-> IF Verdict(data[name]) = "bad" THEN NoLife ELSE data[name][1]]

\* What the sweep has read and is still true when it decides: all of it, unless a module process
\* that outlived its planner writes on.
Reads(l) ==
    /\ (seen[l].verdict = "none") <=> (name = NoLife)
    /\ seen[l].verdict = "whole" => Whole(name)
    /\ seen[l].verdict = "part" => seen[l].by = name
    /\ ph[l] = "sweep" /\ name # NoLife /\ proc[name] = "inside" => seen[l] = Looked(l)

Swept == \A l \in Life : ph[l] \in {"sweep", "leave"} => Reads(l)

\* Where a reader is in a version that was opened, and what it knows of its writer.
Follows(r) ==
    /\ r.file \in Life /\ wr[r.file].file = r.file
    /\ r.from = IF r.pos = 1 THEN NoLife ELSE r.file
    /\ r.st = "again" => r.from # NoLife /\ Dead(r.file)
    /\ r.st = "pread" => Len(data[r.file]) >= r.pos
    /\ r.st = "value" => r.pos = Last /\ Len(data[r.file]) = Last
    /\ r.st = "error" => Dead(r.file) /\ Len(data[r.file]) < Last
    /\ r.got = 2..(r.pos - 1)

Fresh == \A l \in Life : rd[l].st = "none" => rd[l] = NoReader

Followed == Fresh /\ \A l \in Life : rd[l].st \notin {"none", "absent"} => Follows(rd[l])

IInv == TypeOK /\ OneAtATime /\ Clean /\ Made /\ Stage /\ Named /\ Swept /\ Followed

-----------------------------------------------------------------------------
(* The format of the file.                                                 *)

\* Positions are numbers, and W_END is a header.
LEMMA Positions == Last \in Nat /\ Last >= 6 /\ Meta = 3 /\ Last \in Headers /\ Last % 2 = 0
BY BodyAssumption DEF Last, Meta, Headers

\* The next cell makes the file one longer and leaves the rest.
LEMMA PutNext ==
    ASSUME NEW S, NEW c \in Seq(S), NEW cell \in S, NEW off \in Nat, off = Len(c) + 1
    PROVE  /\ Put(c, off, cell) \in Seq(S)
           /\ Len(Put(c, off, cell)) = off
           /\ \A i \in 1..Len(c) : Put(c, off, cell)[i] = c[i]
           /\ Put(c, off, cell)[off] = cell
<1> DEFINE f == Put(c, off, cell)
<1>1. Len(c) \in Nat /\ off > Len(c) /\ off \in 1..off
  OBVIOUS
<1>2. f = [i \in 1..off |-> IF i = off THEN cell ELSE IF i <= Len(c) THEN c[i] ELSE Hole]
  BY <1>1 DEF Put
<1>3. \A i \in 1..off : IF i = off THEN f[i] = cell ELSE i \in 1..Len(c) /\ f[i] = c[i]
  BY <1>1, <1>2
<1>4. f \in [1..off -> S]
  BY <1>2, <1>3
<1> HIDE DEF f
<1>5. f \in Seq(S) /\ Len(f) = off
  BY <1>4
<1> QED
  BY <1>1, <1>3, <1>5 DEF f

\* A file without holes has W_END exactly when it is whole.
LEMMA EndIsWhole ==
    ASSUME TypeOK, Clean, NEW l \in Life
    PROVE  /\ Whole(l) <=> Len(data[l]) = Last
           /\ Len(data[l]) # 0 => data[l][1] = l /\ Verdict(data[l]) = IF Whole(l) THEN "whole" ELSE "part"
           /\ Len(data[l]) = 0 => Verdict(data[l]) = "bad"
<1> DEFINE n == Len(data[l])
<1>1. n \in 0..Last /\ Last >= 6
  BY Positions DEF TypeOK
<1>2. Hole # Data /\ \A m \in Life : m # Hole /\ m # Data
  BY LifeAssumption DEF Hole, Data
<1>3. \A i \in 1..n : data[l][i] # Hole
  BY <1>2 DEF Clean
<1>4. Whole(l) <=> n = Last
  BY <1>3 DEF Whole
<1>5. n # 0 => data[l][1] = l
  BY <1>1 DEF Clean
<1>6. n # 0 => (HasEnd(data[l]) <=> n = Last)
  <2>1. CASE n = Last
    BY <1>1, <1>5, <2>1, Positions DEF HasEnd
  <2>2. CASE n # Last
    <3>1. \A i \in Headers : i <= n => i \in 1..n /\ i # Last
      BY <1>1, <2>2, Positions DEF Headers
    <3> QED
      BY <1>3, <2>2, <3>1 DEF HasEnd
  <2> QED
    BY <2>1, <2>2
<1> QED
  BY <1>1, <1>4, <1>5, <1>6 DEF Verdict

-----------------------------------------------------------------------------
(* The parts of the inductive invariant.                                   *)

LEMMA InitIInv == Init => IInv
<1> SUFFICES ASSUME Init PROVE IInv
  OBVIOUS
<1>1. TypeOK
  BY Positions, LifeAssumption DEF Init, TypeOK, Nothing, NoReader
<1>2. OneAtATime /\ Clean /\ Made /\ Stage /\ Named /\ Swept /\ Followed
  BY LifeAssumption
  DEF Init, OneAtATime, Active, Up, Clean, Made, Stage, Named, Swept, Followed, Fresh, Nothing, NoReader
<1> QED
  BY <1>1, <1>2 DEF IInv

LEMMA OneAtATimeStep == ASSUME Overlap = FALSE, IInv, Next PROVE OneAtATime'
<1>0. TypeOK /\ OneAtATime
  BY DEF IInv
<1>1. PICK l \in Life : PlannerStep(l) \/ WriterStep(l) \/ ReaderStep(l) \/ End(l)
  BY DEF Next
<1>2. CASE \A m \in Life : Active(m)' => Active(m)
  BY <1>0, <1>2 DEF OneAtATime
<1>3. CASE Start(l)
  <2>1. \A m \in Life : ~Active(m)
    BY <1>3 DEF Start, LastIsOver, Active
  <2>2. \A m \in Life : Active(m)' => m = l
    BY <1>0, <1>3, <2>1 DEF Start, Active, Up, TypeOK
  <2> QED
    BY <2>2 DEF OneAtATime
<1>4. CASE StartSweep(l) \/ LookUp(l) \/ Load(l) \/ Leave(l) \/ LeaveSweep(l)
  <2>1. \A m \in Life : Active(m)' => Active(m)
    BY <1>0, <1>4 DEF StartSweep, LookUp, Load, Leave, LeaveSweep, Active, Up, TypeOK
  <2> QED
    BY <1>2, <2>1
<1>5. CASE WriterStep(l)
  <2>1. UNCHANGED proc /\ \A m \in Life : Up(m)' => Up(m)
    BY <1>0, <1>5 DEF WriterStep, OpenWriter, WriteCell, WriteFails, Up, TypeOK
  <2>2. \A m \in Life : wr'[m].st = "none" => wr[m].st = "none"
    <3>1. CASE OpenWriter(l)
      BY <1>0, <3>1 DEF OpenWriter, TypeOK
    <3>2. CASE WriteCell(l) \/ WriteFails(l)
      <4>1. wr[l].st = "write" /\ \E x : wr' = [wr EXCEPT ![l] = x]
        BY <3>2 DEF WriteCell, WriteFails, Writing
      <4>2. \A m \in Life \ {l} : wr'[m] = wr[m]
        BY <1>0, <4>1 DEF TypeOK
      <4>3. \A m \in Life \ {l} : wr'[m].st = "none" => wr[m].st = "none"
        BY <4>2
      <4>4. wr'[l].st # "none"
        BY <1>0, <3>2 DEF WriteCell, WriteFails, TypeOK
      <4> QED
        BY <4>3, <4>4
    <3> QED
      BY <1>5, <3>1, <3>2 DEF WriterStep
  <2>3. \A m \in Life : Active(m)' => Active(m)
    BY <2>1, <2>2 DEF Active
  <2> QED
    BY <1>2, <2>3
<1>6. CASE ReaderStep(l) \/ End(l)
  <2>1. \A m \in Life : Active(m)' => Active(m)
    BY <1>0, <1>6
    DEF ReaderStep, Stat, WriterAlive, StatAgain, Pread, End, Crash, ProcessEnds, Active, Up, TypeOK
  <2> QED
    BY <1>2, <2>1
<1> QED
  BY <1>1, <1>3, <1>4, <1>5, <1>6 DEF PlannerStep

\* A planner, or its process, opens its own version, which has nothing yet, and no file is there.
LEMMA Opening ==
    ASSUME IInv, NEW l \in Life, OpenWriter(l)
    PROVE  /\ \/ ph[l] = "compute" /\ ph' = [ph EXCEPT ![l] = "use"] /\ valid[l] # "valid"
              \/ ph[l] = "gone" /\ ph' = ph
           /\ Active(l) /\ proc[l] \in {"inside", "module"}
           /\ wr[l].st = "none" /\ data[l] = <<>> /\ name = NoLife
           /\ UNCHANGED <<data, rd, valid, seen, proc>>
           /\ \/ name' = l /\ wr' = [wr EXCEPT ![l] = [st |-> "write", file |-> l, off |-> 1]]
              \/ name' = name /\ wr' = [wr EXCEPT ![l].st = "failed"]
           /\ \A m \in Life \ {l} : wr'[m] = wr[m]
           /\ \/ name' = l /\ wr'[l].st = "write" /\ wr'[l].file = l
              \/ name' = NoLife /\ wr'[l].st = "failed" /\ wr'[l].file = NoLife
<1>0. WriterUp(l) /\ wr[l].st = "none" /\ TypeOK /\ Stage
  BY DEF OpenWriter, IInv
<1>1. /\ ph[l] \in {"compute", "gone"} /\ Active(l) /\ proc[l] \in {"inside", "module"}
      /\ data[l] = <<>> /\ name = NoLife /\ (ph[l] = "compute" => valid[l] # "valid")
  <2>1. proc[l] \in {"inside", "module"} /\ Active(l)
    BY <1>0 DEF WriterUp, Active
  <2>2. ph[l] \in {"compute", "gone"}
    BY <1>0, <2>1 DEF Stage, TypeOK
  <2>3. name = NoLife /\ (ph[l] = "compute" => valid[l] # "valid")
    BY <1>0, <2>1, <2>2 DEF Stage, WriterUp, Up
  <2>4. data[l] = <<>>
    BY <1>0 DEF IInv, Made
  <2> QED
    BY <2>1, <2>2, <2>3, <2>4
<1>2. UNCHANGED <<data, rd, valid, seen, proc>>
  BY <1>0, <1>1 DEF OpenWriter, fileVars, TypeOK
<1>3. \/ name' = l /\ wr' = [wr EXCEPT ![l] = [st |-> "write", file |-> l, off |-> 1]]
      \/ name' = name /\ wr' = [wr EXCEPT ![l].st = "failed"]
  BY <1>1 DEF OpenWriter, fileVars
<1>4. wr[l].file = NoLife
  BY <1>0 DEF IInv, Made
<1>5. /\ \A m \in Life \ {l} : wr'[m] = wr[m]
      /\ \/ name' = l /\ wr'[l].st = "write" /\ wr'[l].file = l
         \/ name' = NoLife /\ wr'[l].st = "failed" /\ wr'[l].file = NoLife
  BY <1>1, <1>3, <1>4 DEF IInv, TypeOK
<1>6. \/ ph[l] = "compute" /\ ph' = [ph EXCEPT ![l] = "use"]
      \/ ph[l] = "gone" /\ ph' = ph
  BY <1>0, <1>1 DEF OpenWriter, TypeOK
<1> QED
  BY <1>0, <1>1, <1>2, <1>3, <1>5, <1>6

\* The cell that a writer puts.
LEMMA WritingCell ==
    ASSUME IInv, NEW l \in Life, WriteCell(l)
    PROVE  /\ WriterUp(l) /\ wr[l].st = "write" /\ wr[l].file = l
           /\ wr[l].off \in 1..Last /\ Len(data[l]) = wr[l].off - 1
           /\ \E c \in Seq(Cell) :
                 /\ data' = [data EXCEPT ![l] = c]
                 /\ Len(c) = wr[l].off
                 /\ \A i \in 1..Len(c) : c[i] = IF i = 1 THEN l ELSE Data
           /\ wr' = [wr EXCEPT ![l].off = wr[l].off + 1,
                               ![l].st = IF wr[l].off = Last THEN "done" ELSE "write"]
           /\ UNCHANGED <<ph, seen, name, proc, rd>>
<1>1. /\ WriterUp(l) /\ wr[l].st = "write" /\ wr[l].file = l
      /\ wr[l].off \in 1..Last /\ Len(data[l]) = wr[l].off - 1
  BY Positions DEF WriteCell, Writing, IInv, Made, TypeOK
<1> DEFINE off == wr[l].off
           cell == IF off = 1 THEN l ELSE Data
           c == Put(data[l], off, cell)
<1>2. data' = [data EXCEPT ![l] = c]
  BY <1>1 DEF WriteCell
<1>3. data[l] \in Seq(Cell) /\ cell \in Cell /\ off \in Nat /\ off = Len(data[l]) + 1
  BY <1>1, Positions DEF IInv, TypeOK, Cell
<1>4. /\ c \in Seq(Cell) /\ Len(c) = off /\ c[off] = cell
      /\ \A i \in 1..Len(data[l]) : c[i] = data[l][i]
  <2> HIDE DEF cell, off
  <2> QED
    BY <1>3, PutNext
<1>5. \A i \in 1..Len(c) : c[i] = IF i = 1 THEN l ELSE Data
  <2> SUFFICES ASSUME NEW i \in 1..off PROVE c[i] = IF i = 1 THEN l ELSE Data
    BY <1>4
  <2>1. CASE i = off
    BY <1>4, <2>1
  <2>2. CASE i # off
    <3>1. i \in 1..Len(data[l])
      BY <1>3, <2>2
    <3> HIDE DEF c
    <3> QED
      BY <1>4, <3>1 DEF IInv, Clean
  <2> QED
    BY <2>1, <2>2
<1>6. /\ wr' = [wr EXCEPT ![l].off = wr[l].off + 1,
                          ![l].st = IF wr[l].off = Last THEN "done" ELSE "write"]
      /\ UNCHANGED <<ph, seen, name, proc, rd>>
  BY DEF WriteCell
<1> HIDE DEF c
<1> QED
  BY <1>1, <1>2, <1>4, <1>5, <1>6

\* Only these two change what is written.
LEMMA NoWrite ==
    ASSUME NEW l \in Life, PlannerStep(l) \/ WriteFails(l) \/ ReaderStep(l) \/ End(l)
    PROVE  data' = data
BY DEF PlannerStep, Start, StartSweep, LookUp, Load, Leave, LeaveSweep, WriteFails, ReaderStep,
       Stat, WriterAlive, StatAgain, Pread, End, Crash, ProcessEnds, fileVars

LEMMA CleanStep == ASSUME IInv, Next PROVE Clean'
<1>1. PICK l \in Life : PlannerStep(l) \/ WriterStep(l) \/ ReaderStep(l) \/ End(l)
  BY DEF Next
<1>2. CASE WriteCell(l)
  <2>1. PICK c \in Seq(Cell) : /\ data' = [data EXCEPT ![l] = c]
                               /\ \A i \in 1..Len(c) : c[i] = IF i = 1 THEN l ELSE Data
    BY <1>2, WritingCell
  <2>2. data'[l] = c /\ \A m \in Life \ {l} : data'[m] = data[m]
    BY <2>1 DEF IInv, TypeOK
  <2> SUFFICES ASSUME NEW m \in Life
               PROVE  \A i \in 1..Len(data'[m]) : data'[m][i] = IF i = 1 THEN m ELSE Data
    BY DEF Clean
  <2>3. CASE m = l
    BY <2>1, <2>2, <2>3
  <2>4. CASE m # l
    <3>1. data'[m] = data[m]
      BY <2>2, <2>4
    <3> QED
      BY <3>1 DEF IInv, Clean
  <2> QED
    BY <2>3, <2>4
<1>3. CASE OpenWriter(l)
  BY <1>3, Opening DEF IInv, Clean
<1> QED
  BY <1>1, <1>2, <1>3, NoWrite DEF WriterStep, IInv, Clean

LEMMA MadeStep == ASSUME IInv, Next PROVE Made'
<1> USE DEF IInv, Made
<1>1. PICK l \in Life : PlannerStep(l) \/ WriterStep(l) \/ ReaderStep(l) \/ End(l)
  BY DEF Next
<1>2. CASE WriteCell(l)
  <2>1. PICK c \in Seq(Cell) : data' = [data EXCEPT ![l] = c] /\ Len(c) = wr[l].off
    BY <1>2, WritingCell
  <2>2. /\ wr' = [wr EXCEPT ![l].off = wr[l].off + 1,
                            ![l].st = IF wr[l].off = Last THEN "done" ELSE "write"]
        /\ wr[l].off \in 1..Last /\ wr[l].file = l
    BY <1>2, WritingCell
  <2> QED
    BY <2>1, <2>2, Positions DEF TypeOK
<1>3. CASE OpenWriter(l)
  <2>1. wr[l].st = "none" /\ data[l] = <<>> /\ UNCHANGED data
    BY <1>3, Opening
  <2>2. \/ wr' = [wr EXCEPT ![l] = [st |-> "write", file |-> l, off |-> 1]]
        \/ wr' = [wr EXCEPT ![l].st = "failed"]
    BY <1>3, Opening
  <2>3. Len(data[l]) = 0
    BY <2>1
  <2>4. /\ \A m \in Life \ {l} : wr'[m] = wr[m]
        /\ \/ wr'[l] = [st |-> "write", file |-> l, off |-> 1]
           \/ wr'[l].st = "failed" /\ wr'[l].file = wr[l].file
    BY <2>2 DEF TypeOK
  <2> QED
    BY <2>1, <2>3, <2>4, Positions
<1>4. CASE WriteFails(l)
  <2>1. wr[l].st = "write" /\ UNCHANGED data /\ wr' = [wr EXCEPT ![l].st = "failed"]
    BY <1>4 DEF WriteFails, Writing, fileVars
  <2>2. /\ \A m \in Life \ {l} : wr'[m] = wr[m]
        /\ wr'[l].st = "failed" /\ wr'[l].file = wr[l].file
    BY <2>1 DEF TypeOK
  <2>3. Len(data[l]) < Last /\ wr[l].file = l /\ l # NoLife
    BY <2>1, Positions, LifeAssumption DEF TypeOK
  <2> QED
    BY <2>1, <2>2, <2>3
<1>5. CASE PlannerStep(l) \/ ReaderStep(l) \/ End(l)
  <2>1. UNCHANGED <<wr, data>>
    BY <1>5 DEF PlannerStep, Start, StartSweep, LookUp, Load, Leave, LeaveSweep, ReaderStep,
       Stat, WriterAlive, StatAgain, Pread, End, Crash, ProcessEnds, fileVars
  <2> QED
    BY <2>1
<1> QED
  BY <1>1, <1>2, <1>3, <1>4, <1>5 DEF WriterStep

\* What a failing write leaves.
LEMMA Failing ==
    ASSUME IInv, NEW l \in Life, WriteFails(l)
    PROVE  /\ WriterUp(l) /\ wr[l].st = "write" /\ wr[l].file = l
           /\ wr' = [wr EXCEPT ![l].st = "failed"]
           /\ UNCHANGED <<ph, seen, name, data, proc, rd>>
BY DEF WriteFails, Writing, fileVars, IInv, Made

\* What the sweep of a start removes or leaves: a whole file goes only when it was read unfinished,
\* and one that is not whole stays only with its writer.
LEMMA Sweeping ==
    ASSUME IInv, NEW l \in Life, ph[l] = "sweep", Sweep(l, FALSE)
    PROVE  /\ name' \in {name, NoLife}
           /\ name' = NoLife \/ Whole(name) \/ WriterUp(name)
           /\ name # NoLife /\ Whole(name) /\ name' # name => FinishedSinceRead(l, name)
<1>0. TypeOK /\ Clean /\ Made /\ Stage /\ NoLife \notin Life /\ OneAtATime
  BY LifeAssumption DEF IInv
<1>1. name' = IF Doomed(l, FALSE) THEN NoLife ELSE name
  BY DEF Sweep
<1>2. Reads(l)
  BY DEF IInv, Swept
<1>3. seen[l].verdict \in {"none", "whole", "part", "bad"}
  BY <1>0 DEF TypeOK
<1>4. CASE name = NoLife
  BY <1>1, <1>4
<1>5. CASE name # NoLife
  <2>1. name \in Life /\ wr[name].file = name
    BY <1>0, <1>5 DEF IInv, Named, TypeOK
  <2>2. name' = NoLife \/ Whole(name) \/ WriterUp(name)
    <3>1. CASE seen[l].verdict = "whole"
      BY <1>2, <3>1 DEF Reads
    <3>2. CASE seen[l].verdict = "part"
      BY <1>1, <1>2, <1>5, <3>2 DEF Reads, Doomed, AliveAs
    <3>3. CASE seen[l].verdict = "bad"
      BY <1>1, <3>3 DEF Doomed
    <3>4. seen[l].verdict # "none"
      BY <1>2, <1>5 DEF Reads
    <3> QED
      BY <1>3, <3>1, <3>2, <3>3, <3>4
  <2>3. ASSUME Whole(name), name' # name PROVE FinishedSinceRead(l, name)
    <3>1. seen[l].verdict \in {"part", "bad"}
      BY <1>1, <1>3, <2>3 DEF Doomed
    <3>2. name # l /\ proc[name] # "none"
      BY <1>0, <2>1 DEF Made, Stage
    <3>3. ~Up(name)
      BY <1>0, <2>1, <3>2 DEF OneAtATime, Active, Up
    <3>4. proc[name] # "inside"
      <4>1. Whole(name) => Verdict(data[name]) = "whole"
        BY <1>0, <2>1, EndIsWhole, Positions
      <4>2. proc[name] = "inside" => seen[l].verdict = Verdict(data[name])
        BY <1>2, <1>5 DEF Reads, Looked
      <4> QED
        BY <2>3, <3>1, <4>1, <4>2
    <3>5. proc[name] \in {"module", "gone"}
      BY <1>0, <2>1, <3>2, <3>4 DEF TypeOK
    <3> QED
      BY <3>1, <3>3, <3>5 DEF FinishedSinceRead
  <2> QED
    BY <1>1, <2>2, <2>3
<1> QED
  BY <1>4, <1>5

\* A reader moves only when it is started, and then its planner is there.
LEMMA Moving ==
    ASSUME NEW l \in Life, ReaderStep(l)
    PROVE  /\ rd[l].st \in {"stat", "alive", "again", "pread"}
           /\ \E r : rd' = [rd EXCEPT ![l] = r]
           /\ UNCHANGED <<ph, seen, valid, name, data, proc, wr>>
<1>1. rd[l].st \in {"stat", "alive", "again", "pread"} /\ UNCHANGED <<ph, seen, valid, name, data, proc, wr>>
  BY DEF ReaderStep, Stat, WriterAlive, StatAgain, Pread, fileVars
<1>2. \E r : rd' = [rd EXCEPT ![l] = r]
  BY DEF ReaderStep, Stat, WriterAlive, StatAgain, Pread
<1> QED
  BY <1>1, <1>2

LEMMA StageStep == ASSUME Overlap = FALSE, IInv, Next PROVE Stage'
<1> USE DEF Stage
<1>0. TypeOK /\ OneAtATime /\ Stage /\ Made /\ NoLife \notin Life
  BY LifeAssumption DEF IInv
<1>1. PICK l \in Life : PlannerStep(l) \/ WriterStep(l) \/ ReaderStep(l) \/ End(l)
  BY DEF Next
<1>2. CASE Start(l)
  BY <1>0, <1>2 DEF Start, fileVars, TypeOK
<1>3. CASE StartSweep(l) \/ LeaveSweep(l)
  <2>1. /\ Active(l) /\ UNCHANGED <<valid, data, proc, wr, rd>>
        /\ \/ ph[l] = "sweep" /\ l \in Uses /\ ph' = [ph EXCEPT ![l] = "look"]
           \/ ph[l] = "sweep" /\ ph' = [ph EXCEPT ![l] = "use"]
           \/ ph[l] = "leave" /\ ph' = [ph EXCEPT ![l] = "gone"]
    BY <1>3 DEF StartSweep, LeaveSweep, Up, Active
  <2>2. \A m \in Life \ {l} : ~Active(m) /\ ph'[m] = ph[m]
    BY <1>0, <2>1 DEF OneAtATime, TypeOK
  <2>3. \A m \in Life \ {l} : ph[m] \in {"off", "gone"} /\ ~(proc[m] = "module" /\ wr[m].st = "none")
    BY <1>0, <2>2 DEF Active, Up, TypeOK
  <2>4. ph[l] = "sweep" => wr[l].file # l /\ valid[l] # "valid" /\ wr[l].st = "none" /\ rd[l].st = "none"
                           /\ proc[l] = "none"
    BY <1>0 DEF Made
  <2>5. ph[l] = "leave" => ~(proc[l] = "module" /\ wr[l].st = "none")
    BY <1>0
  <2>6. \/ ph[l] = "sweep" /\ (ph'[l] = "use" \/ (ph'[l] = "look" /\ l \in Uses))
        \/ ph[l] = "leave" /\ ph'[l] = "gone"
    BY <1>0, <2>1 DEF TypeOK
  <2> QED
    BY <1>0, <2>1, <2>2, <2>3, <2>4, <2>5, <2>6
<1>4. CASE LookUp(l)
  BY <1>0, <1>4 DEF LookUp, fileVars, TypeOK
<1>5. CASE OpenWriter(l)
  <2>1. /\ UNCHANGED <<rd, valid, proc>> /\ Active(l) /\ proc[l] \in {"inside", "module"}
        /\ \A m \in Life \ {l} : wr'[m] = wr[m]
        /\ \/ name' = l /\ wr'[l].st = "write"
           \/ wr'[l].st = "failed" /\ wr'[l].file = NoLife
        /\ \/ ph[l] = "compute" /\ ph' = [ph EXCEPT ![l] = "use"] /\ valid[l] # "valid"
           \/ ph[l] = "gone" /\ ph' = ph
    BY <1>5, Opening
  <2>2. \A m \in Life \ {l} : ph[m] \in {"off", "gone"} /\ ~(proc[m] = "module" /\ wr[m].st = "none")
    BY <1>0, <2>1 DEF OneAtATime, Active, Up, TypeOK
  <2>3. /\ \A m \in Life \ {l} : ph'[m] = ph[m]
        /\ \/ ph'[l] = "use" /\ valid[l] # "valid"
           \/ ph'[l] = "gone"
    BY <1>0, <2>1 DEF TypeOK
  <2> QED
    BY <1>0, <2>1, <2>2, <2>3
<1>6. CASE Load(l)
  BY <1>0, <1>6 DEF Load, fileVars, TypeOK
<1>7. CASE Leave(l)
  BY <1>0, <1>7 DEF Leave, fileVars, TypeOK
<1>8. CASE WriteCell(l)
  <2>1. /\ wr[l].st = "write" /\ wr[l].file = l /\ UNCHANGED <<ph, name, proc, rd>>
        /\ wr' = [wr EXCEPT ![l].off = wr[l].off + 1,
                            ![l].st = IF wr[l].off = Last THEN "done" ELSE "write"]
    BY <1>8, WritingCell
  <2>2. wr'[l].st \in {"write", "done"} /\ wr'[l].file = l
    BY <1>0, <2>1 DEF TypeOK
  <2>3. \A m \in Life \ {l} : wr'[m] = wr[m] /\ valid'[m] = valid[m]
    BY <1>0, <1>8, <2>1 DEF WriteCell, Announces, TypeOK
  <2> QED
    BY <1>0, <2>1, <2>2, <2>3
<1>9. CASE WriteFails(l)
  <2>1. /\ wr[l].st = "write" /\ wr[l].file = l /\ UNCHANGED <<ph, name, proc, rd>>
        /\ wr' = [wr EXCEPT ![l].st = "failed"]
    BY <1>9, Failing
  <2>2. wr'[l].st = "failed" /\ wr'[l].file = l
    BY <1>0, <2>1 DEF TypeOK
  <2>3. \A m \in Life \ {l} : wr'[m] = wr[m] /\ valid'[m] = valid[m]
    BY <1>0, <1>9, <2>1 DEF WriteFails, TypeOK
  <2> QED
    BY <1>0, <2>1, <2>2, <2>3
<1>10. CASE ReaderStep(l)
  <2>1. rd[l].st # "none" /\ UNCHANGED <<ph, valid, name, proc, wr>> /\ \E r : rd' = [rd EXCEPT ![l] = r]
    BY <1>10, Moving
  <2>2. \A m \in Life \ {l} : rd'[m] = rd[m]
    BY <1>0, <2>1 DEF TypeOK
  <2> QED
    BY <1>0, <2>1, <2>2
<1>11. CASE End(l)
  BY <1>0, <1>11 DEF End, Crash, ProcessEnds, fileVars, TypeOK
<1> QED
  BY <1>1, <1>2, <1>3, <1>4, <1>5, <1>6, <1>7, <1>8, <1>9, <1>10, <1>11 DEF PlannerStep, WriterStep

LEMMA NamedStep == ASSUME Overlap = FALSE, IInv, Next PROVE Named'
<1> USE DEF Named
<1>0. TypeOK /\ OneAtATime /\ Stage /\ Made /\ Named /\ NoLife \notin Life
  BY LifeAssumption DEF IInv
<1>1. PICK l \in Life : PlannerStep(l) \/ WriterStep(l) \/ ReaderStep(l) \/ End(l)
  BY DEF Next
<1>2. CASE Start(l) \/ Leave(l) \/ End(l) \/ Load(l) \/ ReaderStep(l)
  <2>1. UNCHANGED <<name, wr>> /\ \A m \in Life : ph'[m] = "use" => ph[m] = "use"
    BY <1>0, <1>2
    DEF Start, Leave, End, Crash, ProcessEnds, Load, ReaderStep, Stat, WriterAlive, StatAgain, Pread,
        fileVars, TypeOK
  <2> QED
    BY <1>0, <2>1
<1>3. CASE StartSweep(l) \/ LeaveSweep(l)
  <2>1. Active(l) /\ ph[l] # "use" /\ UNCHANGED wr /\ name' \in {name, NoLife}
    BY <1>3 DEF StartSweep, LeaveSweep, Up, Active, Sweep
  <2>2. \A m \in Life \ {l} : ph[m] \in {"off", "gone"} /\ ph'[m] = ph[m]
    <3>1. \A m \in Life \ {l} : ph[m] \in {"off", "gone"}
      BY <1>0, <2>1 DEF OneAtATime, Active, Up
    <3>2. \A m \in Life \ {l} : ph'[m] = ph[m]
      BY <1>0, <1>3 DEF StartSweep, LeaveSweep, TypeOK
    <3> QED
      BY <3>1, <3>2
  <2>3. ph'[l] = "use" => wr[l].file # l
    <3>1. ph[l] = "sweep" \/ ph'[l] = "gone"
      BY <1>0, <1>3 DEF StartSweep, LeaveSweep, TypeOK
    <3>2. ph[l] = "sweep" => wr[l].st = "none"
      BY <1>0 DEF Stage
    <3> QED
      BY <1>0, <3>1, <3>2 DEF Made
  <2> QED
    BY <1>0, <2>1, <2>2, <2>3
<1>4. CASE LookUp(l)
  <2>1. UNCHANGED <<name, wr>> /\ wr[l].file # l /\ \A m \in Life \ {l} : ph'[m] = ph[m]
    BY <1>0, <1>4 DEF LookUp, fileVars, Stage, Made, TypeOK
  <2> QED
    BY <1>0, <2>1
<1>5. CASE OpenWriter(l)
  <2>0. /\ Active(l)
        /\ \A m \in Life \ {l} : wr'[m] = wr[m]
        /\ \/ name' = l /\ wr'[l].file = l
           \/ name' = NoLife /\ wr'[l].file = NoLife
        /\ ph' = ph \/ ph' = [ph EXCEPT ![l] = "use"]
    BY <1>5, Opening
  <2>1. \A m \in Life \ {l} : ph[m] \in {"off", "gone"}
    BY <1>0, <2>0 DEF OneAtATime, Active, Up, TypeOK
  <2>2. \A m \in Life \ {l} : ph'[m] = ph[m]
    BY <1>0, <2>0 DEF TypeOK
  <2> QED
    BY <1>0, <2>0, <2>1, <2>2
<1>6. CASE WriteCell(l) \/ WriteFails(l)
  <2>1. UNCHANGED <<ph, name>> /\ \A m \in Life : wr'[m].file = wr[m].file
    <3>1. CASE WriteCell(l)
      <4>1. /\ UNCHANGED <<ph, name>>
            /\ wr' = [wr EXCEPT ![l].off = wr[l].off + 1,
                                ![l].st = IF wr[l].off = Last THEN "done" ELSE "write"]
        BY <3>1, WritingCell
      <4> QED
        BY <1>0, <4>1 DEF TypeOK
    <3>2. CASE WriteFails(l)
      <4>1. UNCHANGED <<ph, name>> /\ wr' = [wr EXCEPT ![l].st = "failed"]
        BY <3>2, Failing
      <4> QED
        BY <1>0, <4>1 DEF TypeOK
    <3> QED
      BY <1>6, <3>1, <3>2
  <2> QED
    BY <1>0, <2>1 DEF TypeOK
<1> QED
  BY <1>1, <1>2, <1>3, <1>4, <1>5, <1>6 DEF PlannerStep, WriterStep

\* What a sweep has just read is true.
LEMMA JustRead ==
    ASSUME TypeOK, Clean, NEW l \in Life
    PROVE  /\ (Looked(l).verdict = "none") <=> (name = NoLife)
           /\ Looked(l).verdict = "whole" => Whole(name)
           /\ Looked(l).verdict = "part" => Looked(l).by = name
<1>1. CASE name = NoLife
  BY <1>1 DEF Looked, Nothing
<1>2. CASE name # NoLife
  <2>1. name \in Life
    BY <1>2 DEF TypeOK
  <2>2. /\ Looked(l).verdict = Verdict(data[name])
        /\ Looked(l).by = IF Verdict(data[name]) = "bad" THEN NoLife ELSE data[name][1]
    BY <1>2 DEF Looked
  <2>3. Verdict(data[name]) = "whole" => Whole(name)
    BY <2>1, EndIsWhole
  <2>4. Verdict(data[name]) = "part" => data[name][1] = name
    BY <2>1, EndIsWhole
  <2>5. Verdict(data[name]) # "none"
    BY DEF Verdict
  <2> QED
    BY <1>2, <2>2, <2>3, <2>4, <2>5
<1> QED
  BY <1>1, <1>2

\* What it has read stays true when only the version of another writer grows.
LEMMA ReadStays ==
    ASSUME NEW l \in Life, Reads(l), ph[l] \in {"sweep", "leave"},
           ph'[l] = ph[l], seen'[l] = seen[l], name' = name,
           name # NoLife /\ Whole(name) => Whole(name)',
           name # NoLife /\ ph[l] = "sweep" /\ proc'[name] = "inside"
              => proc[name] = "inside" /\ data'[name] = data[name]
    PROVE  Reads(l)'
<1>1. name # NoLife /\ ph[l] = "sweep" /\ proc'[name] = "inside" => Looked(l)' = Looked(l)
  BY DEF Looked, Verdict, HasEnd
<1> QED
  BY <1>1 DEF Reads

\* A version never shrinks, and when its writer has died nothing happens to it.
LEMMA Grows ==
    ASSUME Overlap = FALSE, IInv, Next, NEW f \in Life
    PROVE  /\ wr[f].file = f => wr'[f].file = f
           /\ Dead(f) => Dead(f)' /\ data'[f] = data[f]
           /\ Len(data'[f]) \in Nat /\ Len(data'[f]) >= Len(data[f]) /\ Len(data'[f]) <= Last
<1>0. TypeOK /\ Made /\ Stage /\ NoLife \notin Life /\ Len(data[f]) \in Nat /\ Len(data[f]) <= Last
  BY LifeAssumption DEF IInv, TypeOK
<1>1. PICK l \in Life : PlannerStep(l) \/ WriterStep(l) \/ ReaderStep(l) \/ End(l)
  BY DEF Next
<1>2. CASE WriteCell(l)
  <2>1. PICK c \in Seq(Cell) : data' = [data EXCEPT ![l] = c] /\ Len(c) = wr[l].off
    BY <1>2, WritingCell
  <2>2. /\ wr' = [wr EXCEPT ![l].off = wr[l].off + 1,
                            ![l].st = IF wr[l].off = Last THEN "done" ELSE "write"]
        /\ wr[l].off \in 1..Last /\ wr[l].file = l /\ WriterUp(l) /\ UNCHANGED <<ph, proc>>
        /\ Len(data[l]) = wr[l].off - 1
    BY <1>2, WritingCell
  <2>3. Dead(f) => f # l /\ Dead(f)'
    BY <2>2 DEF Dead, WriterUp, Up
  <2> QED
    BY <1>0, <2>1, <2>2, <2>3, Positions DEF TypeOK
<1>3. CASE OpenWriter(l)
  <2>1. /\ wr[l].st = "none" /\ UNCHANGED <<data, proc>> /\ \A m \in Life \ {l} : wr'[m] = wr[m]
        /\ ph' = ph \/ (ph[l] = "compute" /\ ph' = [ph EXCEPT ![l] = "use"])
    BY <1>3, Opening
  <2>2. wr[l].file = NoLife
    BY <1>0, <2>1 DEF Made
  <2>3. Dead(f) => Dead(f)'
    BY <1>0, <2>1 DEF Dead, TypeOK
  <2>4. wr[f].file = f => f # l
    BY <1>0, <2>2
  <2> QED
    BY <1>0, <2>1, <2>3, <2>4
<1>4. CASE WriteFails(l)
  <2>1. wr' = [wr EXCEPT ![l].st = "failed"] /\ UNCHANGED <<ph, proc, data>>
    BY <1>4, Failing
  <2> QED
    BY <1>0, <2>1 DEF TypeOK, Dead
<1>5. CASE PlannerStep(l) \/ ReaderStep(l) \/ End(l)
  <2>1. UNCHANGED <<wr, data>>
    BY <1>5
    DEF PlannerStep, Start, StartSweep, LookUp, Load, Leave, LeaveSweep, ReaderStep, Stat,
        WriterAlive, StatAgain, Pread, End, Crash, ProcessEnds, fileVars
  <2>2. ph[f] = "gone" => ph'[f] = "gone"
    BY <1>0, <1>5
    DEF PlannerStep, Start, StartSweep, LookUp, Load, Leave, LeaveSweep, ReaderStep, Stat,
        WriterAlive, StatAgain, Pread, End, Crash, ProcessEnds, TypeOK
  <2>3. proc[f] \in {"inside", "gone"} => proc'[f] = proc[f]
    BY <1>0, <1>5
    DEF PlannerStep, Start, StartSweep, LookUp, Load, Leave, LeaveSweep, ReaderStep, Stat,
        WriterAlive, StatAgain, Pread, End, Crash, ProcessEnds, TypeOK, Stage
  <2> QED
    BY <1>0, <2>1, <2>2, <2>3 DEF Dead
<1> QED
  BY <1>1, <1>2, <1>3, <1>4, <1>5 DEF WriterStep

\* A reader's record.
ReaderRec ==
    [st : {"none", "absent", "stat", "alive", "again", "pread", "value", "error"},
     file : Life \cup {NoLife}, pos : 1..Last, from : Life \cup {NoLife}, got : SUBSET (1..Last)]

LEMMA ReaderFields ==
    ASSUME NEW r, r \in ReaderRec
    PROVE  /\ r.st \in {"none", "absent", "stat", "alive", "again", "pread", "value", "error"}
           /\ r.file \in Life \cup {NoLife} /\ r.pos \in 1..Last /\ r.from \in Life \cup {NoLife}
           /\ r.got \subseteq 1..Last
BY DEF ReaderRec

\* The stream header was read.
Past(r, c) == [r EXCEPT !.st = "stat", !.pos = 2, !.from = c]

LEMMA FirstCell ==
    ASSUME NEW r, r \in ReaderRec, NEW c, c \in Life
    PROVE  /\ Past(r, c) \in ReaderRec
           /\ Past(r, c).st = "stat" /\ Past(r, c).pos = 2 /\ Past(r, c).from = c
           /\ Past(r, c).file = r.file /\ Past(r, c).got = r.got
<1>1. 2 \in 1..Last
  BY Positions
<1>2. /\ Past(r, c).st = "stat" /\ Past(r, c).pos = 2 /\ Past(r, c).from = c
      /\ Past(r, c).file = r.file /\ Past(r, c).got = r.got
  BY DEF ReaderRec, Past
<1> QED
  BY <1>1, <1>2 DEF ReaderRec, Past

\* Another cell was read.
LEMMA NextCell ==
    ASSUME NEW r, r \in ReaderRec, r.pos < Last, NEW t,
           t = [r EXCEPT !.st = "stat", !.pos = @ + 1, !.got = @ \cup {r.pos}]
    PROVE  /\ t \in ReaderRec
           /\ t.st = "stat" /\ t.pos = r.pos + 1 /\ t.from = r.from /\ t.file = r.file
           /\ t.got = r.got \cup {r.pos}
<1>1. r.pos + 1 \in 1..Last
  BY Positions DEF ReaderRec
<1>2. /\ t.st = "stat" /\ t.pos = r.pos + 1 /\ t.from = r.from /\ t.file = r.file
      /\ t.got = r.got \cup {r.pos}
  BY DEF ReaderRec
<1> QED
  BY <1>1, <1>2 DEF ReaderRec

\* Only the state of the reader changes.
LEMMA OtherState ==
    ASSUME NEW r, r \in ReaderRec, NEW t, NEW x \in {"stat", "alive", "again", "pread", "value", "error"},
           t = [r EXCEPT !.st = x]
    PROVE  /\ t \in ReaderRec
           /\ t.st = x /\ t.pos = r.pos /\ t.from = r.from /\ t.file = r.file /\ t.got = r.got
BY DEF ReaderRec

\* What a reader makes of the next cell of a version without holes.
LEMMA ReadsCell ==
    ASSUME IInv, NEW l \in Life, rd[l].st = "pread", NEW t, t = Taken(rd[l], data[rd[l].file][rd[l].pos])
    PROVE  /\ t \in ReaderRec
           /\ Len(data[rd[l].file]) >= rd[l].pos
           /\ t.file = rd[l].file
           /\ rd[l].pos = Last =>
                 t.st = "value" /\ t.pos = Last /\ t.from = rd[l].from /\ t.got = rd[l].got
           /\ rd[l].pos # Last =>
                 /\ t.st = "stat" /\ t.pos = rd[l].pos + 1 /\ t.from = rd[l].file
                 /\ t.got = IF rd[l].pos = 1 THEN rd[l].got ELSE rd[l].got \cup {rd[l].pos}
<1> DEFINE r == rd[l]
           f == r.file
           c == data[f][r.pos]
<1>1. /\ f \in Life /\ Len(data[f]) >= r.pos /\ Len(data[f]) \in Nat
      /\ r.from = (IF r.pos = 1 THEN NoLife ELSE f)
  <2>1. Follows(rd[l])
    BY DEF IInv, Followed
  <2>2. r.file \in Life /\ Len(data[f]) >= r.pos /\ r.from = (IF r.pos = 1 THEN NoLife ELSE f)
    BY <2>1 DEF Follows
  <2>3. Len(data[f]) \in Nat
    BY <2>2 DEF IInv, TypeOK
  <2> QED
    BY <2>2, <2>3
<1>2. r \in ReaderRec /\ r.pos \in 1..Last
  BY DEF IInv, TypeOK, ReaderRec
<1>3. c = IF r.pos = 1 THEN f ELSE Data
  <2>1. r.pos \in 1..Len(data[f])
    BY <1>1, <1>2, Positions
  <2>2. \A i \in 1..Len(data[f]) : data[f][i] = IF i = 1 THEN f ELSE Data
    BY <1>1 DEF IInv, Clean
  <2> HIDE DEF r
  <2> QED
    BY <2>1, <2>2
<1>4. Data # Hole /\ f # Hole
  BY <1>1, LifeAssumption DEF Data, Hole
<1>5. t = Taken(r, c)
  OBVIOUS
<1> HIDE DEF c, r
<1>6. CASE r.pos = 1
  <2>1. t = Past(r, c)
    BY <1>3, <1>4, <1>5, <1>6 DEF Taken, Past
  <2>2. c = f
    BY <1>1, <1>3, <1>6
  <2>3. t \in ReaderRec /\ t.st = "stat" /\ t.pos = 2 /\ t.from = c /\ t.file = r.file /\ t.got = r.got
    <3>1. c \in Life
      BY <1>1, <2>2
    <3> QED
      BY <1>2, <2>1, <3>1, FirstCell
  <2> QED
    BY <1>1, <1>6, <2>2, <2>3, Positions DEF r
<1>7. CASE r.pos = Last
  <2>1. t = [r EXCEPT !.st = "value"]
    BY <1>3, <1>4, <1>5, <1>7, Positions DEF Taken
  <2>2. /\ t \in ReaderRec
        /\ t.st = "value" /\ t.pos = r.pos /\ t.from = r.from /\ t.file = r.file /\ t.got = r.got
    BY <1>2, <2>1, OtherState
  <2> QED
    BY <1>1, <1>7, <2>2 DEF r
<1>8. CASE r.pos \notin {1, Last}
  <2>1. t = [r EXCEPT !.st = "stat", !.pos = @ + 1, !.got = @ \cup {r.pos}]
    BY <1>2, <1>3, <1>4, <1>5, <1>8, Positions DEF Taken
  <2>2. r.pos < Last
    BY <1>2, <1>8, Positions
  <2>3. /\ t \in ReaderRec
        /\ t.st = "stat" /\ t.pos = r.pos + 1 /\ t.from = r.from /\ t.file = r.file
        /\ t.got = r.got \cup {r.pos}
    BY <1>2, <2>1, <2>2, NextCell
  <2> QED
    BY <1>1, <1>8, <2>3 DEF r
<1> QED
  BY <1>6, <1>7, <1>8

\* What a step of a reader leaves in its record.
LEMMA ReaderTakes ==
    ASSUME IInv, NEW l \in Life, ReaderStep(l)
    PROVE  \E t \in ReaderRec :
              /\ rd' = [rd EXCEPT ![l] = t]
              /\ t.st \in {"stat", "alive", "again", "pread", "value", "error"}
              /\ t.file = rd[l].file /\ Follows(t)
<1>0. TypeOK /\ rd[l] \in ReaderRec
  BY DEF IInv, TypeOK, ReaderRec
<1>1. Follows(rd[l])
  BY Moving DEF IInv, Followed
<1>2. /\ rd[l].file \in Life /\ Len(data[rd[l].file]) \in Nat /\ Len(data[rd[l].file]) <= Last
      /\ rd[l].pos \in 1..Last /\ Last \in Nat
  BY <1>0, <1>1, Positions, ReaderFields DEF Follows, TypeOK
<1>3. ASSUME NEW x \in {"stat", "alive", "again", "pread", "error"},
             rd' = [rd EXCEPT ![l] = [rd[l] EXCEPT !.st = x]],
             x = "again" => rd[l].from # NoLife /\ Dead(rd[l].file),
             x = "pread" => Enough(l),
             x = "error" => Dead(rd[l].file) /\ ~Enough(l)
      PROVE  \E t \in ReaderRec :
              /\ rd' = [rd EXCEPT ![l] = t]
              /\ t.st \in {"stat", "alive", "again", "pread", "value", "error"}
              /\ t.file = rd[l].file /\ Follows(t)
  <2> DEFINE t == [rd[l] EXCEPT !.st = x]
  <2>1. /\ t \in ReaderRec
        /\ t.st = x /\ t.pos = rd[l].pos /\ t.from = rd[l].from /\ t.file = rd[l].file /\ t.got = rd[l].got
    BY <1>0, OtherState
  <2> HIDE DEF t
  <2>2. Follows(t)
    BY <1>1, <1>2, <1>3, <2>1 DEF Follows, Enough
  <2>3. rd' = [rd EXCEPT ![l] = t]
    BY <1>3 DEF t
  <2> QED
    BY <2>1, <2>2, <2>3
<1>4. CASE Stat(l)
  <2>1. rd' = [rd EXCEPT ![l] = [rd[l] EXCEPT !.st = IF Enough(l) THEN "pread" ELSE "alive"]]
    BY <1>0, <1>4 DEF Stat, TypeOK
  <2>2. CASE Enough(l)
    BY <1>3, <2>1, <2>2
  <2>3. CASE ~Enough(l)
    BY <1>3, <2>1, <2>3
  <2> QED
    BY <2>2, <2>3
<1>5. CASE WriterAlive(l)
  <2>1. rd' = [rd EXCEPT ![l] = [rd[l] EXCEPT !.st = IF AliveAs(rd[l].from) THEN "stat" ELSE "again"]]
    BY <1>0, <1>5 DEF WriterAlive, TypeOK
  <2>2. CASE AliveAs(rd[l].from)
    BY <1>3, <2>1, <2>2
  <2>3. CASE ~AliveAs(rd[l].from)
    <3>1. rd[l].from # NoLife /\ ~WriterUp(rd[l].file) /\ rd[l].from = rd[l].file
      BY <1>1, <2>3 DEF AliveAs, Follows
    <3>2. proc[rd[l].file] # "none" /\ ph[rd[l].file] # "off"
      BY <1>1, <1>2, LifeAssumption DEF Follows, IInv, Stage, Made
    <3>3. Dead(rd[l].file)
      BY <1>0, <1>2, <3>1, <3>2 DEF WriterUp, Up, Dead, TypeOK
    <3> QED
      BY <1>3, <2>1, <2>3, <3>1, <3>3
  <2> QED
    BY <2>2, <2>3
<1>6. CASE StatAgain(l)
  <2>1. rd' = [rd EXCEPT ![l] = [rd[l] EXCEPT !.st = IF Enough(l) THEN "pread" ELSE "error"]]
    BY <1>0, <1>6 DEF StatAgain, TypeOK
  <2>2. Dead(rd[l].file)
    BY <1>1, <1>6 DEF StatAgain, Follows
  <2>3. CASE Enough(l)
    BY <1>3, <2>1, <2>3
  <2>4. CASE ~Enough(l)
    BY <1>3, <2>1, <2>2, <2>4
  <2> QED
    BY <2>3, <2>4
<1>7. CASE Pread(l)
  <2>1. rd[l].st = "pread" /\ Len(data[rd[l].file]) >= rd[l].pos
    BY <1>1, <1>7 DEF Pread, Follows
  <2> DEFINE t == Taken(rd[l], data[rd[l].file][rd[l].pos])
  <2>2. rd' = [rd EXCEPT ![l] = t]
    BY <1>0, <1>7, <2>1 DEF Pread, Enough, TypeOK
  <2> HIDE DEF t
  <2>3. t \in ReaderRec /\ t.file = rd[l].file /\ t.st \in {"stat", "value"}
        /\ (rd[l].pos = Last => t.st = "value" /\ t.pos = Last /\ t.from = rd[l].from /\ t.got = rd[l].got)
        /\ (rd[l].pos # Last => /\ t.st = "stat" /\ t.pos = rd[l].pos + 1 /\ t.from = rd[l].file
                                /\ t.got = IF rd[l].pos = 1 THEN rd[l].got ELSE rd[l].got \cup {rd[l].pos})
    BY <2>1, ReadsCell DEF t
  <2>4. t.got = 2..(t.pos - 1)
    <3>1. rd[l].got = 2..(rd[l].pos - 1)
      BY <1>1 DEF Follows
    <3>2. CASE rd[l].pos = 1
      <4>1. t.got = 2..0 /\ t.pos = 2
        BY <2>3, <3>1, <3>2, Positions
      <4> QED
        BY <4>1
    <3>3. CASE rd[l].pos = Last
      BY <2>3, <3>1, <3>3
    <3>4. CASE rd[l].pos \notin {1, Last}
      <4>1. t.got = 2..(rd[l].pos - 1) \cup {rd[l].pos} /\ t.pos = rd[l].pos + 1
        BY <2>3, <3>1, <3>4
      <4>2. \A p \in 2..Last : 2..(p - 1) \cup {p} = 2..((p + 1) - 1)
        BY <1>2
      <4>3. rd[l].pos \in 2..Last
        BY <1>2, <3>4
      <4> QED
        BY <4>1, <4>2, <4>3
    <3> QED
      BY <3>2, <3>3, <3>4
  <2>5. Follows(t)
    BY <1>1, <1>2, <2>1, <2>3, <2>4, Positions DEF Follows
  <2> QED
    BY <2>2, <2>3, <2>5
<1> QED
  BY <1>4, <1>5, <1>6, <1>7 DEF ReaderStep

\* A reader was started on a file.
Started(r, f) == [r EXCEPT !.st = "stat", !.file = f]

LEMMA FirstState ==
    ASSUME NEW r, r \in ReaderRec, NEW f, f \in Life
    PROVE  /\ Started(r, f) \in ReaderRec
           /\ Started(r, f).st = "stat" /\ Started(r, f).pos = r.pos /\ Started(r, f).from = r.from
           /\ Started(r, f).file = f /\ Started(r, f).got = r.got
BY DEF ReaderRec, Started

\* A planner that has the handle valid finds the file: its reader starts at the first cell.
LEMMA Loading ==
    ASSUME IInv, NEW l \in Life, Load(l)
    PROVE  /\ name \in Life
           /\ UNCHANGED valid
           /\ \E t \in ReaderRec : rd' = [rd EXCEPT ![l] = t] /\ t.st = "stat" /\ t.file = name /\ Follows(t)
<1>0. rd \in [Life -> ReaderRec] /\ name \in Life \cup {NoLife} /\ NoLife \notin Life
  BY LifeAssumption DEF IInv, TypeOK, ReaderRec
<1>1. ph[l] = "use" /\ valid[l] = "valid" /\ rd[l].st = "none"
  BY DEF Load
<1>2. rd[l] = NoReader /\ name \in Life /\ wr[name].file = name
  <2>1. name # NoLife
    BY <1>0, <1>1 DEF IInv, Stage
  <2>2. rd[l] = NoReader
    <3>1. Fresh
      BY DEF IInv, Followed
    <3> QED
      BY <1>1, <3>1 DEF Fresh
  <2>3. wr[name].file = name
    BY <2>1 DEF IInv, Named
  <2> QED
    BY <1>0, <2>1, <2>2, <2>3
<1> DEFINE t == Started(rd[l], name)
<1>3. rd' = [rd EXCEPT ![l] = t] /\ UNCHANGED valid
  <2>1. rd' = [rd EXCEPT ![l].st = "stat", ![l].file = name] /\ UNCHANGED valid
    BY <1>0, <1>2 DEF Load
  <2> QED
    BY <1>0, <2>1 DEF Started
<1>4. /\ t \in ReaderRec
      /\ t.st = "stat" /\ t.pos = rd[l].pos /\ t.from = rd[l].from /\ t.file = name /\ t.got = rd[l].got
  <2>1. rd[l] \in ReaderRec /\ name \in Life
    BY <1>0, <1>2
  <2> QED
    BY <2>1, FirstState
<1> HIDE DEF t
<1>5. rd[l].pos = 1 /\ rd[l].from = NoLife /\ rd[l].got = {}
  BY <1>2 DEF NoReader
<1>6. 2..(1 - 1) = {}
  OBVIOUS
<1>7. Follows(t)
  BY <1>2, <1>4, <1>5, <1>6 DEF Follows
<1> QED
  BY <1>2, <1>3, <1>4, <1>7

LEMMA FollowedStep == ASSUME Overlap = FALSE, IInv, Next PROVE Followed'
<1>0. TypeOK /\ Followed /\ NoLife \notin Life
  BY LifeAssumption DEF IInv
<1>1. PICK l \in Life : PlannerStep(l) \/ WriterStep(l) \/ ReaderStep(l) \/ End(l)
  BY DEF Next
<1>2. ASSUME NEW t \in ReaderRec, Follows(t) PROVE Follows(t)'
  <2>1. t.file \in Life /\ Len(data[t.file]) \in Nat /\ Len(data[t.file]) <= Last
    BY <1>0, <1>2 DEF Follows, TypeOK
  <2>2. /\ wr'[t.file].file = t.file
        /\ Dead(t.file) => Dead(t.file)' /\ data'[t.file] = data[t.file]
        /\ Len(data'[t.file]) \in Nat /\ Len(data'[t.file]) >= Len(data[t.file])
        /\ Len(data'[t.file]) <= Last
    BY <1>2, <2>1, Grows DEF Follows
  <2>3. t.pos \in 1..Last /\ Last \in Nat
    BY <1>2, ReaderFields, Positions
  <2> QED
    BY <1>2, <2>1, <2>2, <2>3 DEF Follows
<1>3. ASSUME UNCHANGED rd PROVE Followed'
  <2>1. ASSUME NEW m \in Life, rd[m].st \notin {"none", "absent"} PROVE Follows(rd[m])'
    <3>1. rd[m] \in ReaderRec /\ Follows(rd[m])
      BY <1>0, <2>1 DEF TypeOK, ReaderRec, Followed
    <3> DEFINE t == rd[m]
    <3>2. t \in ReaderRec /\ Follows(t)
      BY <3>1
    <3> QED
      BY <1>2, <1>3, <3>1
  <2> QED
    BY <1>0, <1>3, <2>1 DEF Followed, Fresh
<1>4. ASSUME \A m \in Life \ {l} : rd'[m] = rd[m], NEW t \in ReaderRec, rd'[l] = t,
             t.st # "none", t.st # "absent" => Follows(t)
      PROVE  Followed'
  <2>1. t.st # "absent" => Follows(t)'
    BY <1>2, <1>4
  <2>2. ASSUME NEW m \in Life, rd'[m].st \notin {"none", "absent"} PROVE Follows(rd[m])'
    <3>1. CASE m = l
      BY <1>4, <2>1, <2>2, <3>1 DEF Follows
    <3>2. CASE m # l
      <4>1. rd'[m] = rd[m]
        BY <1>4, <3>2
      <4>2. rd[m] \in ReaderRec /\ Follows(rd[m])
        BY <1>0, <2>2, <4>1 DEF TypeOK, ReaderRec, Followed
      <4> QED
        BY <1>2, <4>1, <4>2
    <3> QED
      BY <3>1, <3>2
  <2>3. \A m \in Life : rd'[m].st = "none" => rd'[m] = NoReader
    <3>1. \A m \in Life : rd[m].st = "none" => rd[m] = NoReader
      <4>1. Fresh
        BY <1>0 DEF Followed
      <4> QED
        BY <4>1 DEF Fresh
    <3>2. NoReader' = NoReader
      BY DEF NoReader
    <3>3. rd'[l].st # "none"
      BY <1>4
    <3>4. \A m \in Life \ {l} : rd'[m] = rd[m]
      BY <1>4
    <3> QED
      BY <3>1, <3>2, <3>3, <3>4
  <2>4. Fresh'
    BY <2>3 DEF Fresh
  <2> QED
    BY <2>2, <2>4 DEF Followed
<1>5. CASE ReaderStep(l)
  <2>1. PICK t \in ReaderRec : /\ rd' = [rd EXCEPT ![l] = t]
                               /\ t.st \in {"stat", "alive", "again", "pread", "value", "error"}
                               /\ Follows(t)
    BY <1>5, ReaderTakes
  <2>2. rd'[l] = t /\ \A m \in Life \ {l} : rd'[m] = rd[m]
    BY <1>0, <2>1 DEF TypeOK
  <2> QED
    BY <1>4, <2>1, <2>2
<1>6. CASE Load(l)
  <2>1. PICK t \in ReaderRec : /\ rd' = [rd EXCEPT ![l] = t]
                               /\ t.st \in {"stat", "absent"}
                               /\ Follows(t)
    BY <1>6, Loading
  <2>2. rd'[l] = t /\ \A m \in Life \ {l} : rd'[m] = rd[m]
    BY <1>0, <2>1 DEF TypeOK
  <2> QED
    BY <1>4, <2>1, <2>2
<1>7. CASE (PlannerStep(l) /\ ~Load(l)) \/ WriterStep(l) \/ End(l)
  <2>1. UNCHANGED rd
    BY <1>7 DEF PlannerStep, Start, StartSweep, LookUp, OpenWriter, Leave, LeaveSweep, WriterStep, WriteCell,
       WriteFails, End, Crash, ProcessEnds
  <2> QED
    BY <1>3, <2>1
<1> QED
  BY <1>1, <1>5, <1>6, <1>7

\* A sweep reads a verdict and a writer.
LEMMA LookedType ==
    ASSUME TypeOK, NEW l \in Life
    PROVE  Looked(l) \in [verdict : {"none", "whole", "part", "bad"}, by : Life \cup {NoLife}]
<1>1. CASE name = NoLife
  BY <1>1 DEF Looked, Nothing
<1>2. CASE name # NoLife
  <2> DEFINE v == Verdict(data[name])
             b == IF v = "bad" THEN NoLife ELSE data[name][1]
  <2>1. v \in {"whole", "part", "bad"} /\ (v # "bad" => data[name][1] \in Life)
    BY DEF Verdict
  <2>2. b \in Life \cup {NoLife}
    BY <2>1
  <2>3. Looked(l) = [verdict |-> v, by |-> b]
    BY <1>2 DEF Looked
  <2> HIDE DEF v, b
  <2> QED
    BY <2>1, <2>2, <2>3
<1> QED
  BY <1>1, <1>2

\* A writer's record.
WriterRec == [st : {"none", "write", "done", "failed"}, file : Life \cup {NoLife}, off : 1..Last + 1]

LEMMA WriterFields ==
    ASSUME NEW r, r \in WriterRec, NEW n \in 1..Last + 1, NEW x \in {"write", "done", "failed"}
    PROVE  /\ [r EXCEPT !.off = n, !.st = x] \in WriterRec
           /\ [r EXCEPT !.st = x] \in WriterRec
BY DEF WriterRec

LEMMA TypeStep == ASSUME Overlap = FALSE, IInv, Next PROVE TypeOK'
<1>0. TypeOK /\ NoLife \notin Life /\ rd \in [Life -> ReaderRec]
  BY LifeAssumption DEF IInv, TypeOK, ReaderRec
<1>1. PICK l \in Life : PlannerStep(l) \/ WriterStep(l) \/ ReaderStep(l) \/ End(l)
  BY DEF Next
<1>2. ph' \in [Life -> {"off", "sweep", "look", "compute", "use", "leave", "gone"}]
  <2>1. ph' = ph \/ \E x \in {"off", "sweep", "look", "compute", "use", "leave", "gone"} : ph' = [ph EXCEPT ![l] = x]
    BY <1>1, Opening
    DEF PlannerStep, Start, StartSweep, LookUp, Load, Leave, LeaveSweep, WriterStep,
        WriteCell, WriteFails, ReaderStep, Stat, WriterAlive, StatAgain, Pread, End, Crash, ProcessEnds
  <2> QED
    BY <1>0, <2>1 DEF TypeOK
<1>3. seen' \in [Life -> [verdict : {"none", "whole", "part", "bad"}, by : Life \cup {NoLife}]]
  <2>1. Nothing \in [verdict : {"none", "whole", "part", "bad"}, by : Life \cup {NoLife}]
    BY DEF Nothing
  <2>2. \/ seen' = seen
        \/ seen' = [seen EXCEPT ![l] = Looked(l)]
        \/ seen' = [seen EXCEPT ![l] = Nothing]
    BY <1>1
    DEF PlannerStep, Start, StartSweep, LookUp, OpenWriter, Load, Leave, LeaveSweep, WriterStep,
        WriteCell, WriteFails, ReaderStep, Stat, WriterAlive, StatAgain, Pread, End, Crash, ProcessEnds, Look, Looked, Sweep
  <2>3. Looked(l) \in [verdict : {"none", "whole", "part", "bad"}, by : Life \cup {NoLife}]
    BY <1>0, LookedType
  <2> QED
    BY <1>0, <2>1, <2>2, <2>3 DEF TypeOK
<1>4. valid' \in [Life -> {"unknown", "valid", "invalid"}]
  <2>1. \/ valid' = valid
        \/ valid' = [valid EXCEPT ![l] = "valid"]
        \/ valid' = [valid EXCEPT ![l] = "invalid"]
    BY <1>1
    DEF PlannerStep, Start, StartSweep, LookUp, OpenWriter, Load, Leave, LeaveSweep, WriterStep,
        WriteCell, WriteFails, ReaderStep, Stat, WriterAlive, StatAgain, Pread, End, Crash, ProcessEnds, Announces
  <2> QED
    BY <1>0, <2>1 DEF TypeOK
<1>5. name' \in Life \cup {NoLife}
  <2>1. CASE WriteCell(l) \/ WriteFails(l)
    BY <1>0, <2>1 DEF WriteCell, WriteFails, fileVars, TypeOK
  <2>2. CASE OpenWriter(l)
    BY <1>0, <2>2, Opening DEF TypeOK
  <2>3. CASE PlannerStep(l) \/ ReaderStep(l) \/ End(l)
    <3>1. name' \in {name, NoLife}
      BY <2>3
      DEF PlannerStep, Start, StartSweep, LookUp, Load, Leave, LeaveSweep, ReaderStep, Stat,
          WriterAlive, StatAgain, Pread, End, Crash, ProcessEnds, Sweep, fileVars
    <3> QED
      BY <1>0, <3>1 DEF TypeOK
  <2> QED
    BY <1>1, <2>1, <2>2, <2>3 DEF WriterStep
<1>6. data' \in [Life -> Seq(Life \cup {Hole, Data})]
  <2>1. CASE WriteCell(l)
    <3>1. PICK c \in Seq(Cell) : data' = [data EXCEPT ![l] = c]
      BY <2>1, WritingCell
    <3> QED
      BY <1>0, <3>1 DEF TypeOK, Cell
  <2>2. CASE ~WriteCell(l)
    <3>1. data' = data
      BY <1>1, <2>2, Opening, NoWrite DEF WriterStep
    <3> QED
      BY <1>0, <3>1 DEF TypeOK
  <2> QED
    BY <2>1, <2>2
<1>7. \A f \in Life : Len(data'[f]) <= Last
  BY Grows
<1>8. wr' \in [Life -> WriterRec]
  <2>0. wr \in [Life -> WriterRec] /\ wr[l] \in WriterRec
    BY <1>0 DEF TypeOK, WriterRec
  <2>1. CASE WriteCell(l)
    <3>1. /\ wr[l].off \in 1..Last
          /\ wr' = [wr EXCEPT ![l].off = wr[l].off + 1,
                              ![l].st = IF wr[l].off = Last THEN "done" ELSE "write"]
      BY <2>1, WritingCell
    <3> DEFINE n == wr[l].off + 1
               x == IF wr[l].off = Last THEN "done" ELSE "write"
               t == [wr[l] EXCEPT !.off = n, !.st = x]
    <3>2. n \in 1..Last + 1 /\ x \in {"write", "done", "failed"}
      BY <3>1, Positions
    <3>3. wr' = [wr EXCEPT ![l] = t]
      BY <2>0, <3>1
    <3>4. t \in WriterRec
      <4> HIDE DEF n, x
      <4> QED
        BY <2>0, <3>2, WriterFields
    <3> HIDE DEF t
    <3> QED
      BY <2>0, <3>3, <3>4
  <2>2. ASSUME wr' = [wr EXCEPT ![l].st = "failed"] PROVE wr' \in [Life -> WriterRec]
    <3> DEFINE t == [wr[l] EXCEPT !.st = "failed"]
    <3>1. wr' = [wr EXCEPT ![l] = t]
      BY <2>0, <2>2
    <3>2. t \in WriterRec
      <4>1. 1 \in 1..Last + 1
        BY Positions
      <4> QED
        BY <2>0, <4>1, WriterFields
    <3> HIDE DEF t
    <3> QED
      BY <2>0, <3>1, <3>2
  <2>3. CASE OpenWriter(l)
    <3>1. \/ wr' = [wr EXCEPT ![l] = [st |-> "write", file |-> l, off |-> 1]]
          \/ wr' = [wr EXCEPT ![l].st = "failed"]
      BY <2>3, Opening
    <3>2. [st |-> "write", file |-> l, off |-> 1] \in WriterRec
      BY Positions DEF WriterRec
    <3> QED
      BY <2>0, <2>2, <3>1, <3>2
  <2>4. CASE WriteFails(l)
    BY <2>2, <2>4, Failing
  <2>5. CASE PlannerStep(l) \/ ReaderStep(l) \/ End(l)
    <3>1. UNCHANGED wr
      BY <2>5
      DEF PlannerStep, Start, StartSweep, LookUp, Load, Leave, LeaveSweep, ReaderStep,
          Stat, WriterAlive, StatAgain, Pread, End, Crash, ProcessEnds
    <3> QED
      BY <2>0, <3>1
  <2> QED
    BY <1>1, <2>1, <2>3, <2>4, <2>5 DEF WriterStep
<1>9. rd' \in [Life -> ReaderRec]
  <2>1. (\E t \in ReaderRec : rd' = [rd EXCEPT ![l] = t]) => rd' \in [Life -> ReaderRec]
    BY <1>0
  <2>2. CASE ReaderStep(l)
    <3>1. \E t \in ReaderRec : rd' = [rd EXCEPT ![l] = t]
      BY <2>2, ReaderTakes
    <3> QED
      BY <2>1, <3>1
  <2>3. CASE Load(l)
    <3>1. \E t \in ReaderRec : rd' = [rd EXCEPT ![l] = t]
      BY <2>3, Loading
    <3> QED
      BY <2>1, <3>1
  <2>4. CASE (PlannerStep(l) /\ ~Load(l)) \/ WriterStep(l) \/ End(l)
    <3>1. UNCHANGED rd
      BY <2>4
      DEF PlannerStep, Start, StartSweep, LookUp, OpenWriter, Leave, LeaveSweep, WriterStep, WriteCell,
          WriteFails, End, Crash, ProcessEnds
    <3> QED
      BY <1>0, <3>1
  <2> QED
    BY <1>1, <2>2, <2>3, <2>4
<1>10. proc' \in [Life -> {"none", "inside", "module", "gone"}]
  <2>1. proc' = proc \/ \E x \in {"inside", "module", "gone"} : proc' = [proc EXCEPT ![l] = x]
    BY <1>1
    DEF PlannerStep, Start, StartSweep, LookUp, OpenWriter, Load, Leave, LeaveSweep, WriterStep,
        WriteCell, WriteFails, ReaderStep, Stat, WriterAlive, StatAgain, Pread, End, Crash, ProcessEnds
  <2> QED
    BY <1>0, <2>1 DEF TypeOK
<1> QED
  BY <1>2, <1>3, <1>4, <1>5, <1>6, <1>7, <1>8, <1>9, <1>10 DEF TypeOK, ReaderRec, WriterRec

\* Where only one planner runs, the file is as it was read until the sweep decides, but for what a
\* module process does to it.
LEMMA SweptStep == ASSUME Overlap = FALSE, IInv, Next PROVE Swept'
<1>0. TypeOK /\ OneAtATime /\ Swept /\ Clean /\ Stage /\ Made /\ NoLife \notin Life
  BY LifeAssumption DEF IInv
<1>1. PICK l \in Life : PlannerStep(l) \/ WriterStep(l) \/ ReaderStep(l) \/ End(l)
  BY DEF Next
<1>2. ASSUME UNCHANGED <<name, data>>,
             \A m \in Life : proc'[m] = "inside" => proc[m] = "inside",
             NEW m \in Life, ph[m] \in {"sweep", "leave"}, ph'[m] = ph[m], seen'[m] = seen[m]
      PROVE  Reads(m)'
  <2>1. Reads(m)
    BY <1>0, <1>2 DEF Swept
  <2>2. name # NoLife /\ Whole(name) => Whole(name)'
    BY <1>2 DEF Whole
  <2>3. name # NoLife => name \in Life
    BY <1>0 DEF TypeOK
  <2> QED
    BY <1>2, <2>1, <2>2, <2>3, ReadStays
<1>3. CASE Start(l) \/ Leave(l)
  <2>1. /\ UNCHANGED <<name, data, proc>>
        /\ \A m \in Life \ {l} : ph'[m] = ph[m] /\ seen'[m] = seen[m]
        /\ ph'[l] \in {"sweep", "leave"} => seen'[l] = Looked(l)
    BY <1>0, <1>3 DEF Start, Leave, Look, Looked, fileVars, TypeOK
  <2>2. ASSUME ph'[l] \in {"sweep", "leave"} PROVE Reads(l)'
    <3>1. seen'[l] = Looked(l) /\ Looked(l)' = Looked(l)
      BY <2>1, <2>2 DEF Looked, Verdict, HasEnd
    <3>2. /\ (Looked(l).verdict = "none") <=> (name = NoLife)
          /\ Looked(l).verdict = "whole" => Whole(name)
          /\ Looked(l).verdict = "part" => Looked(l).by = name
      BY <1>0, JustRead
    <3>3. Whole(name) => Whole(name)'
      BY <2>1 DEF Whole
    <3> QED
      BY <2>1, <3>1, <3>2, <3>3 DEF Reads
  <2>3. ASSUME NEW m \in Life \ {l}, ph'[m] \in {"sweep", "leave"} PROVE Reads(m)'
    BY <1>2, <2>1, <2>3
  <2> QED
    BY <2>2, <2>3 DEF Swept
<1>4. CASE End(l) \/ Load(l) \/ ReaderStep(l) \/ WriteFails(l)
  <2>1. /\ UNCHANGED <<name, data>>
        /\ \A m \in Life : proc'[m] = "inside" => proc[m] = "inside"
        /\ \A m \in Life : ph'[m] \in {"sweep", "leave"} => ph'[m] = ph[m] /\ seen'[m] = seen[m]
    BY <1>0, <1>4
    DEF End, Crash, ProcessEnds, Load, ReaderStep, Stat, WriterAlive, StatAgain, Pread, WriteFails,
        fileVars, TypeOK
  <2> QED
    BY <1>2, <2>1 DEF Swept
<1>5. CASE StartSweep(l) \/ LeaveSweep(l) \/ LookUp(l) \/ OpenWriter(l)
  <2>1. Active(l)
    BY <1>5, Opening DEF StartSweep, LeaveSweep, LookUp, Active, Up
  <2>2. \/ ph' = ph /\ ph[l] = "gone"
        \/ \E x \in {"look", "use", "gone", "compute"} : ph' = [ph EXCEPT ![l] = x]
    BY <1>5, Opening DEF StartSweep, LeaveSweep, LookUp
  <2>3. \A m \in Life \ {l} : ph[m] \in {"off", "gone"}
    BY <1>0, <2>1 DEF OneAtATime, Active, Up, TypeOK
  <2>4. \A m \in Life : ph'[m] \notin {"sweep", "leave"}
    BY <1>0, <2>2, <2>3 DEF TypeOK
  <2> QED
    BY <2>4 DEF Swept
<1>6. CASE WriteCell(l)
  <2>1. PICK c \in Seq(Cell) : data' = [data EXCEPT ![l] = c]
    BY <1>6, WritingCell
  <2>2. /\ WriterUp(l) /\ wr[l].st = "write" /\ UNCHANGED <<ph, seen, name, proc>>
        /\ Len(data[l]) = wr[l].off - 1 /\ wr[l].off \in 1..Last
    BY <1>6, WritingCell
  <2>3. \A m \in Life \ {l} : data'[m] = data[m]
    BY <1>0, <2>1 DEF TypeOK
  <2>4. ~Whole(l)
    BY <2>2, Positions DEF Whole
  <2>5. ASSUME NEW m \in Life, ph[m] \in {"sweep", "leave"} PROVE Reads(m)'
    <3>1. name # NoLife /\ Whole(name) => Whole(name)'
      BY <1>0, <2>2, <2>3, <2>4 DEF Whole, TypeOK
    <3>2. name # NoLife /\ ph[m] = "sweep" /\ proc[name] = "inside" => name # l
      <4> SUFFICES ASSUME ph[m] = "sweep", proc[l] = "inside" PROVE FALSE
        OBVIOUS
      <4>1. Active(l) /\ Active(m)
        BY <2>2 DEF WriterUp, Active, Up
      <4>2. m = l
        BY <1>0, <4>1 DEF OneAtATime
      <4> QED
        BY <1>0, <2>2, <4>2 DEF Stage
    <3>3. Reads(m)
      BY <1>0, <2>5 DEF Swept
    <3>4. name # NoLife => name \in Life
      BY <1>0 DEF TypeOK
    <3>5. name # NoLife /\ ph[m] = "sweep" /\ proc'[name] = "inside"
             => proc[name] = "inside" /\ data'[name] = data[name]
      BY <2>2, <2>3, <3>2, <3>4
    <3> QED
      BY <2>2, <2>5, <3>1, <3>3, <3>5, ReadStays
  <2> QED
    BY <2>2, <2>5 DEF Swept
<1> QED
  BY <1>1, <1>3, <1>4, <1>5, <1>6 DEF PlannerStep, WriterStep

-----------------------------------------------------------------------------
\* Nothing happens to any of it in a step that leaves all variables alone.
LEMMA Stutter == ASSUME IInv, UNCHANGED vars PROVE IInv'
<1>1. UNCHANGED <<ph, seen, valid, name, data, proc, wr, rd>>
  BY DEF vars, fileVars
<1>2. TypeOK' /\ OneAtATime' /\ Clean' /\ Made' /\ Stage' /\ Named'
  BY <1>1 DEF IInv, TypeOK, OneAtATime, Active, Up, Clean, Made, Stage, Named
<1>3. Swept'
  BY <1>1 DEF IInv, Swept, Reads, Looked, Verdict, HasEnd, Whole
<1>4. Followed'
  BY <1>1 DEF IInv, Followed, Fresh, Follows, Dead
<1> QED
  BY <1>2, <1>3, <1>4 DEF IInv

LEMMA Invariance == ASSUME Overlap = FALSE PROVE Spec => []IInv
<1>1. IInv /\ Next => IInv'
  BY TypeStep, OneAtATimeStep, CleanStep, MadeStep, StageStep, NamedStep, SweptStep, FollowedStep DEF IInv
<1>2. IInv /\ [Next]_vars => IInv'
  BY <1>1, Stutter
<1> QED
  BY <1>2, InitIInv, PTL DEF Spec

\* The types of the variables, for any number of planners and any length of the file.
THEOREM TypeCorrect == ASSUME Overlap = FALSE PROVE Spec => []TypeOK
<1>1. IInv => TypeOK
  BY DEF IInv
<1> QED
  BY <1>1, Invariance, PTL

\* A planner looks for its file only after its sweep, which leaves it a whole file or one whose
\* writer runs (startup_sweep before the is_valid() of ACT_START).
THEOREM NoCorpseIsLeft == ASSUME Overlap = FALSE PROVE Spec => NoCorpseLeft
<1> DEFINE NoCorpse == \A l \in Life : ph[l] = "sweep" /\ ph'[l] = "look"
                           => (name = NoLife \/ Whole(name) \/ WriterUp(name))'
<1>1. ASSUME IInv, Next PROVE NoCorpse
  <2> SUFFICES ASSUME NEW l \in Life, ph[l] = "sweep", ph'[l] = "look"
               PROVE  (name = NoLife \/ Whole(name) \/ WriterUp(name))'
    OBVIOUS
  <2>0. TypeOK
    BY <1>1 DEF IInv
  <2>1. PICK m \in Life : PlannerStep(m) \/ WriterStep(m) \/ ReaderStep(m) \/ End(m)
    BY <1>1 DEF Next
  <2>2. ph' = ph \/ StartSweep(m) \/ \E x \in {"sweep", "compute", "use", "leave", "gone"} : ph' = [ph EXCEPT ![m] = x]
    BY <1>1, <2>1, Opening
    DEF PlannerStep, Start, LookUp, Load, Leave, LeaveSweep, WriterStep, WriteCell, WriteFails,
        ReaderStep, Stat, WriterAlive, StatAgain, Pread, End, Crash, ProcessEnds
  <2>3. StartSweep(m)
    BY <2>0, <2>2 DEF TypeOK
  <2>4. /\ ph[m] = "sweep" /\ Sweep(m, FALSE) /\ UNCHANGED <<data, proc>>
        /\ \A n \in Life : Up(n) => Up(n)'
    BY <2>0, <2>3 DEF StartSweep, Up, TypeOK
  <2>5. name' \in {name, NoLife} /\ (name' = NoLife \/ Whole(name) \/ WriterUp(name))
    BY <1>1, <2>4, Sweeping
  <2>6. CASE name' = NoLife
    BY <2>6
  <2>7. CASE name' # NoLife
    <3>1. name' = name /\ name \in Life
      BY <2>0, <2>5, <2>7 DEF TypeOK
    <3>2. Whole(name) => Whole(name)'
      BY <2>4, <3>1 DEF Whole
    <3>3. WriterUp(name) => WriterUp(name)'
      BY <2>4, <3>1 DEF WriterUp
    <3> QED
      BY <2>5, <2>7, <3>2, <3>3
  <2> QED
    BY <2>6, <2>7
<1>2. IInv /\ [Next]_vars => [NoCorpse]_vars
  BY <1>1
<1> QED
  BY <1>2, Invariance, PTL DEF Spec, NoCorpseLeft

\* A reader that reports success has read every record of its file (next_record).
THEOREM ReadsAreWhole == ASSUME Overlap = FALSE PROVE Spec => []ReadWhole
<1>1. IInv => ReadWhole
  <2> SUFFICES ASSUME IInv, NEW l \in Life, rd[l].st = "value" PROVE rd[l].got = 2..(Last - 1)
    BY DEF ReadWhole
  <2>1. Follows(rd[l])
    BY DEF IInv, Followed
  <2> QED
    BY <2>1 DEF Follows
<1> QED
  BY <1>1, Invariance, PTL

\* A whole file is removed only at the end of a run that did not use it, or by the sweep of a start
\* that read it before the process of a planner that had gone finished it (exit_sweep, startup_sweep).
THEOREM UsedIsKept == ASSUME Overlap = FALSE PROVE Spec => OnlyUnusedRemoved
<1> DEFINE Kept == \A l \in Life : name = l /\ Whole(l) /\ name' # l
                       => \E m \in Life : \/ m \notin Uses /\ ph[m] = "leave"
                                         \/ FinishedSinceRead(m, l)
<1>1. ASSUME IInv, Next PROVE Kept
  <2> SUFFICES ASSUME NEW f \in Life, name = f, Whole(f), name' # f
               PROVE  \E m \in Life : \/ m \notin Uses /\ ph[m] = "leave"
                                     \/ FinishedSinceRead(m, f)
    OBVIOUS
  <2>0. f # NoLife
    BY LifeAssumption
  <2>1. PICK l \in Life : PlannerStep(l) \/ WriterStep(l) \/ ReaderStep(l) \/ End(l)
    BY <1>1 DEF Next
  <2>2. StartSweep(l) \/ LeaveSweep(l) \/ OpenWriter(l)
    BY <2>1
    DEF PlannerStep, Start, LookUp, Load, Leave, WriterStep, WriteCell, WriteFails, ReaderStep,
        Stat, WriterAlive, StatAgain, Pread, End, Crash, ProcessEnds, fileVars
  <2>3. ~OpenWriter(l)
    BY <1>1, <2>0, Opening
  <2>4. CASE StartSweep(l)
    <3>1. ph[l] = "sweep" /\ Sweep(l, FALSE)
      BY <2>4 DEF StartSweep
    <3>2. FinishedSinceRead(l, f)
      BY <1>1, <2>0, <3>1, Sweeping
    <3> QED
      BY <3>2
  <2>5. CASE LeaveSweep(l)
    BY <1>1, <2>5 DEF LeaveSweep, IInv, Stage
  <2> QED
    BY <2>2, <2>3, <2>4, <2>5
<1>2. IInv /\ [Next]_vars => [Kept]_vars
  BY <1>1
<1> QED
  BY <1>2, Invariance, PTL DEF Spec, OnlyUnusedRemoved

-----------------------------------------------------------------------------
(* The file implements CachePromise: what a version, a reader's opening    *)
(* and its answer are, before a step and after it.                         *)

Runs(at) == (at[3] = "inside" /\ at[2] \notin {"off", "gone"}) \/ at[3] = "module"
State(at, w, n) ==
    IF w.file # at[1] THEN "none"
    ELSE IF n = Last THEN "whole"
    ELSE IF Runs(at) /\ w.st = "write" THEN "growing" ELSE "lost"

LEMMA VersionIs ==
    ASSUME IInv, NEW l \in Life
    PROVE  VersionOf(l) = State(<<l, ph[l], proc[l]>>, wr[l], Len(data[l]))
<1>1. Whole(l) <=> Len(data[l]) = Last
  BY EndIsWhole DEF IInv
<1> QED
  BY <1>1 DEF VersionOf, State, Runs, Writing, WriterUp, Up

LEMMA VersionBecomes ==
    ASSUME IInv', NEW l \in Life
    PROVE  VersionOf(l)' = State(<<l, ph'[l], proc'[l]>>, wr'[l], Len(data'[l]))
<1>1. \A i \in 1..Len(data'[l]) : data'[l][i] # Hole
  BY LifeAssumption DEF IInv, Clean, Hole, Data
<1>2. Whole(l)' <=> Len(data'[l]) = Last
  BY <1>1 DEF Whole, Last
<1> QED
  BY <1>2 DEF VersionOf, State, Runs, Writing, WriterUp, Up

Answer(st) == IF st \in {"value", "error", "absent"}
              THEN IF st = "value" THEN "value" ELSE "error"
              ELSE "nothing"
Versions == [l \in Life |-> VersionOf(l)]
Bounds == [l \in Life |-> {rd[l].file} \ {NoLife}]
Gots == [l \in Life |-> Answer(rd[l].st)]

\* Versions that a step says nothing about stay what they are.
LEMMA SameVersion ==
    ASSUME IInv, IInv', NEW l \in Life, wr'[l] = wr[l], Len(data'[l]) = Len(data[l]),
           wr[l].st # "write" \/ (ph'[l] = ph[l] /\ proc'[l] = proc[l]) \/ (~WriterUp(l) /\ ~WriterUp(l)')
    PROVE  VersionOf(l)' = VersionOf(l)
<1>1. /\ VersionOf(l) = State(<<l, ph[l], proc[l]>>, wr[l], Len(data[l]))
      /\ VersionOf(l)' = State(<<l, ph'[l], proc'[l]>>, wr'[l], Len(data'[l]))
  BY VersionIs, VersionBecomes
<1> QED
  BY <1>1 DEF State, Runs, WriterUp, Up

\* A step of the writer, or the end of its process.
LEMMA WriterPromise ==
    ASSUME Overlap = FALSE, IInv, IInv', NEW l \in Life, WriteCell(l) \/ WriteFails(l) \/ OpenWriter(l) \/ End(l)
    PROVE  /\ UNCHANGED rd
           /\ \A m \in Life \ {l} : VersionOf(m)' = VersionOf(m)
           /\ \/ VersionOf(l)' = VersionOf(l)
              \/ VersionOf(l) = "none" /\ VersionOf(l)' = "growing"
              \/ VersionOf(l) = "growing" /\ VersionOf(l)' \in {"whole", "lost"}
<1>0. TypeOK /\ NoLife \notin Life
  BY LifeAssumption DEF IInv
<1>1. /\ VersionOf(l) = State(<<l, ph[l], proc[l]>>, wr[l], Len(data[l]))
      /\ VersionOf(l)' = State(<<l, ph'[l], proc'[l]>>, wr'[l], Len(data'[l]))
  BY VersionIs, VersionBecomes
<1>2. ASSUME UNCHANGED rd,
             \A m \in Life \ {l} : /\ wr'[m] = wr[m] /\ data'[m] = data[m]
                                   /\ ph'[m] = ph[m] /\ proc'[m] = proc[m]
      PROVE  UNCHANGED rd /\ \A m \in Life \ {l} : VersionOf(m)' = VersionOf(m)
  BY <1>2, SameVersion
<1>3. CASE WriteCell(l)
  <2>1. PICK c \in Seq(Cell) : data' = [data EXCEPT ![l] = c] /\ Len(c) = wr[l].off
    BY <1>3, WritingCell
  <2>2. /\ wr' = [wr EXCEPT ![l].off = wr[l].off + 1,
                            ![l].st = IF wr[l].off = Last THEN "done" ELSE "write"]
        /\ wr[l].off \in 1..Last /\ wr[l].file = l /\ wr[l].st = "write" /\ WriterUp(l)
        /\ Len(data[l]) = wr[l].off - 1 /\ UNCHANGED <<ph, proc, rd>>
    BY <1>3, WritingCell
  <2>3. \A m \in Life \ {l} : /\ wr'[m] = wr[m] /\ data'[m] = data[m]
                              /\ ph'[m] = ph[m] /\ proc'[m] = proc[m]
    BY <1>0, <2>1, <2>2 DEF TypeOK
  <2>4. /\ Len(data'[l]) = wr[l].off /\ wr'[l].file = l
        /\ wr'[l].st = IF wr[l].off = Last THEN "done" ELSE "write"
    BY <1>0, <2>1, <2>2 DEF TypeOK
  <2>5. Len(data[l]) # Last
    BY <2>2, Positions
  <2>6. VersionOf(l) = "growing" /\ VersionOf(l)' = IF wr[l].off = Last THEN "whole" ELSE "growing"
    BY <1>1, <2>2, <2>4, <2>5 DEF State, Runs, WriterUp, Up
  <2> QED
    BY <1>2, <2>2, <2>3, <2>6
<1>4. CASE WriteFails(l)
  <2>1. /\ wr[l].st = "write" /\ wr[l].file = l /\ WriterUp(l)
        /\ UNCHANGED <<ph, data, proc, rd>> /\ wr' = [wr EXCEPT ![l].st = "failed"]
    BY <1>4, Failing
  <2>2. wr'[l].st = "failed" /\ wr'[l].file = l /\ \A m \in Life \ {l} : wr'[m] = wr[m]
    BY <1>0, <2>1 DEF TypeOK
  <2>3. Len(data[l]) # Last
    <3>1. Len(data[l]) = wr[l].off - 1 /\ wr[l].off <= Last
      BY <2>1 DEF IInv, Made
    <3>2. wr[l].off \in 1..Last + 1
      BY <1>0 DEF TypeOK
    <3> QED
      BY <3>1, <3>2, Positions
  <2>4. VersionOf(l) = "growing" /\ VersionOf(l)' = "lost"
    BY <1>1, <2>1, <2>2, <2>3 DEF State, Runs, WriterUp, Up
  <2> QED
    BY <1>2, <2>1, <2>2, <2>4
<1>5. CASE OpenWriter(l)
  <2>1. /\ data[l] = <<>> /\ UNCHANGED <<data, proc, rd>> /\ proc[l] \in {"inside", "module"}
        /\ \/ ph[l] = "compute" /\ ph' = [ph EXCEPT ![l] = "use"]
           \/ ph[l] = "gone" /\ ph' = ph
        /\ Active(l) /\ wr[l].st = "none" /\ \A m \in Life \ {l} : wr'[m] = wr[m]
        /\ \/ wr'[l].st = "write" /\ wr'[l].file = l
           \/ wr'[l].st = "failed" /\ wr'[l].file = NoLife
    BY <1>5, Opening
  <2>2. /\ \A m \in Life \ {l} : ph'[m] = ph[m]
        /\ ph'[l] = "use" \/ (ph'[l] = "gone" /\ proc'[l] = "module")
    BY <1>0, <2>1 DEF TypeOK, Active, Up
  <2>3. wr[l].file = NoLife /\ Len(data[l]) # Last
    BY <2>1, Positions DEF IInv, Made
  <2>4. VersionOf(l) = "none" /\ VersionOf(l)' \in {"none", "growing"}
    BY <1>0, <1>1, <2>1, <2>2, <2>3 DEF State, Runs
  <2> QED
    BY <1>2, <2>1, <2>2, <2>4
<1>6. CASE End(l)
  <2>1. /\ UNCHANGED <<wr, data, rd>>
        /\ \/ ph' = [ph EXCEPT ![l] = "gone"] /\ UNCHANGED proc
           \/ proc' = [proc EXCEPT ![l] = "gone"] /\ UNCHANGED ph
    BY <1>6 DEF End, Crash, ProcessEnds, fileVars
  <2>2. /\ \A m \in Life \ {l} : ph'[m] = ph[m] /\ proc'[m] = proc[m]
        /\ \/ ph'[l] = "gone" /\ proc'[l] = proc[l]
           \/ proc'[l] = "gone" /\ ph'[l] = ph[l]
    BY <1>0, <2>1 DEF TypeOK
  <2>3. VersionOf(l)' = VersionOf(l) \/ (VersionOf(l) = "growing" /\ VersionOf(l)' = "lost")
    BY <1>1, <2>1, <2>2 DEF State, Runs
  <2> QED
    BY <1>2, <2>1, <2>2, <2>3
<1> QED
  BY <1>3, <1>4, <1>5, <1>6

\* The other steps of a planner say nothing of a version, and nothing to a reader.
LEMMA PlannerPromise ==
    ASSUME IInv, IInv', NEW l \in Life,
           Start(l) \/ StartSweep(l) \/ LookUp(l) \/ Leave(l) \/ LeaveSweep(l)
    PROVE  UNCHANGED rd /\ \A m \in Life : VersionOf(m)' = VersionOf(m)
<1>1. UNCHANGED <<wr, data, rd>>
  BY DEF Start, StartSweep, LookUp, Leave, LeaveSweep, fileVars
<1>2. \A m \in Life \ {l} : ph'[m] = ph[m] /\ proc'[m] = proc[m]
  <2>1. TypeOK /\ \E x : ph' = [ph EXCEPT ![l] = x]
    BY DEF Start, StartSweep, LookUp, Leave, LeaveSweep, IInv
  <2>2. proc' = proc \/ \E x : proc' = [proc EXCEPT ![l] = x]
    BY DEF Start, StartSweep, LookUp, Leave, LeaveSweep
  <2> QED
    BY <2>1, <2>2 DEF TypeOK
<1>3. wr[l].st # "write" \/ (~WriterUp(l) /\ ~WriterUp(l)')
  <2>1. CASE Start(l) \/ StartSweep(l) \/ LookUp(l) \/ LeaveSweep(l)
    BY <2>1 DEF Start, StartSweep, LookUp, LeaveSweep, IInv, Stage
  <2>2. CASE Leave(l)
    BY <2>2 DEF Leave, Writing, WriterUp, Up
  <2> QED
    BY <2>1, <2>2
<1> QED
  BY <1>1, <1>2, <1>3, SameVersion

\* A reader opens a version that was created, and answers as it became.
LEMMA ReaderPromise ==
    ASSUME IInv, IInv', NEW l \in Life, Load(l) \/ ReaderStep(l)
    PROVE  /\ \A m \in Life : VersionOf(m)' = VersionOf(m)
           /\ \A m \in Life \ {l} : rd'[m] = rd[m]
           /\ Answer(rd[l].st) = "nothing"
           /\ \/ /\ rd[l].file = NoLife /\ rd'[l].file \in Life /\ rd'[l].st = "stat"
                 /\ VersionOf(rd'[l].file) # "none"
              \/ /\ rd[l].file \in Life /\ rd'[l].file = rd[l].file
                 /\ \/ Answer(rd'[l].st) = "nothing"
                    \/ rd'[l].st = "value" /\ VersionOf(rd[l].file) = "whole"
                    \/ rd'[l].st = "error" /\ VersionOf(rd[l].file) = "lost"
<1>0. TypeOK /\ NoLife \notin Life
  BY LifeAssumption DEF IInv
<1>1. UNCHANGED <<ph, proc, wr, data>>
  BY Moving DEF Load, fileVars
<1>2. \A m \in Life : VersionOf(m)' = VersionOf(m)
  BY <1>1, SameVersion
<1>3. CASE Load(l)
  <2>1. name \in Life /\ rd[l].st = "none" /\ \E t \in ReaderRec : rd' = [rd EXCEPT ![l] = t] /\ t.st = "stat" /\ t.file = name
    BY <1>3, Loading DEF Load
  <2>2. rd'[l].st = "stat" /\ rd'[l].file = name /\ \A m \in Life \ {l} : rd'[m] = rd[m]
    BY <1>0, <2>1 DEF TypeOK
  <2>3. rd[l].file = NoLife
    <3>1. Fresh
      BY DEF IInv, Followed
    <3>2. rd[l] = NoReader
      BY <2>1, <3>1 DEF Fresh
    <3> QED
      BY <3>2 DEF NoReader
  <2>4. wr[name].file = name
    BY <1>0, <2>1 DEF IInv, Named
  <2>5. VersionOf(name) # "none"
    BY <2>1, <2>4, VersionIs DEF State
  <2> QED
    BY <1>2, <2>1, <2>2, <2>3, <2>5 DEF Answer
<1>4. CASE ReaderStep(l)
  <2>1. rd[l].st \in {"stat", "alive", "again", "pread"}
    BY <1>4, Moving
  <2>2. PICK t \in ReaderRec : /\ rd' = [rd EXCEPT ![l] = t]
                               /\ t.st \in {"stat", "alive", "again", "pread", "value", "error"}
                               /\ t.file = rd[l].file /\ Follows(t)
    BY <1>4, ReaderTakes
  <2>3. rd'[l] = t /\ \A m \in Life \ {l} : rd'[m] = rd[m]
    BY <1>0, <2>2 DEF TypeOK
  <2>4. /\ t.file \in Life /\ wr[t.file].file = t.file
        /\ t.st = "value" => Len(data[t.file]) = Last
        /\ t.st = "error" => Dead(t.file) /\ Len(data[t.file]) < Last
    BY <2>2 DEF Follows
  <2>5. VersionOf(t.file) = State(<<t.file, ph[t.file], proc[t.file]>>, wr[t.file], Len(data[t.file]))
    BY <2>4, VersionIs
  <2>6. /\ t.st = "value" => VersionOf(t.file) = "whole"
        /\ t.st = "error" => VersionOf(t.file) = "lost"
    BY <2>4, <2>5, Positions DEF State, Runs, Dead
  <2> QED
    BY <1>2, <2>1, <2>2, <2>3, <2>4, <2>6 DEF Answer
<1> QED
  BY <1>3, <1>4

LEMMA InitPromise == Init => Promise!Init
<1> SUFFICES ASSUME Init PROVE Promise!Init
  OBVIOUS
<1>1. \A l \in Life : wr[l].file = NoLife /\ rd[l].file = NoLife /\ rd[l].st = "none"
  BY DEF Init, NoReader
<1>2. \A l \in Life : VersionOf(l) = "none"
  BY <1>1, LifeAssumption DEF VersionOf
<1> QED
  BY <1>1, <1>2 DEF Promise!Init

LEMMA NextPromise ==
    ASSUME Overlap = FALSE, IInv, IInv', Next
    PROVE  Promise!Next \/ UNCHANGED <<Versions, Bounds, Gots>>
<1>0. TypeOK /\ NoLife \notin Life
  BY LifeAssumption DEF IInv
<1>1. PICK l \in Life : PlannerStep(l) \/ WriterStep(l) \/ ReaderStep(l) \/ End(l)
  BY DEF Next
<1>2. ASSUME UNCHANGED rd PROVE Bounds' = Bounds /\ Gots' = Gots
  BY <1>2 DEF Bounds, Gots, Answer
<1>3. ASSUME \A m \in Life : VersionOf(m)' = VersionOf(m) PROVE Versions' = Versions
  BY <1>3 DEF Versions
<1>4. ASSUME NEW x, VersionOf(l)' = x, \A m \in Life \ {l} : VersionOf(m)' = VersionOf(m)
      PROVE  Versions' = [Versions EXCEPT ![l] = x]
  BY <1>4 DEF Versions
<1>5. CASE WriteCell(l) \/ WriteFails(l) \/ OpenWriter(l) \/ End(l)
  <2>1. /\ UNCHANGED rd
        /\ \A m \in Life \ {l} : VersionOf(m)' = VersionOf(m)
        /\ \/ VersionOf(l)' = VersionOf(l)
           \/ VersionOf(l) = "none" /\ VersionOf(l)' = "growing"
           \/ VersionOf(l) = "growing" /\ VersionOf(l)' \in {"whole", "lost"}
    BY <1>5, WriterPromise
  <2>2. Bounds' = Bounds /\ Gots' = Gots
    BY <1>2, <2>1
  <2>3. Versions[l] = VersionOf(l)
    BY DEF Versions
  <2>4. CASE VersionOf(l)' = VersionOf(l)
    BY <1>3, <2>1, <2>2, <2>4
  <2>5. CASE VersionOf(l) = "none" /\ VersionOf(l)' = "growing"
    <3>1. Versions[l] = "none" /\ Versions' = [Versions EXCEPT ![l] = "growing"]
      BY <1>4, <2>1, <2>3, <2>5
    <3>2. Promise!Create(l)
      BY <2>2, <3>1 DEF Promise!Create, Versions, Bounds, Gots, Answer
    <3> QED
      BY <3>2 DEF Promise!Next
  <2>6. CASE VersionOf(l) = "growing" /\ VersionOf(l)' \in {"whole", "lost"}
    <3>1. Versions[l] = "growing"
      BY <2>3, <2>6
    <3>2. Versions' = [Versions EXCEPT ![l] = "whole"] \/ Versions' = [Versions EXCEPT ![l] = "lost"]
      BY <1>4, <2>1, <2>6
    <3>3. Promise!Finish(l) \/ Promise!Lose(l)
      BY <2>2, <3>1, <3>2 DEF Promise!Finish, Promise!Lose, Versions, Bounds, Gots, Answer
    <3> QED
      BY <3>3 DEF Promise!Next
  <2> QED
    BY <2>1, <2>4, <2>5, <2>6
<1>6. CASE Start(l) \/ StartSweep(l) \/ LookUp(l) \/ Leave(l) \/ LeaveSweep(l)
  <2>1. UNCHANGED rd /\ \A m \in Life : VersionOf(m)' = VersionOf(m)
    BY <1>6, PlannerPromise
  <2> QED
    BY <1>2, <1>3, <2>1
<1>7. CASE Load(l) \/ ReaderStep(l)
  <2>1. /\ \A m \in Life : VersionOf(m)' = VersionOf(m)
        /\ \A m \in Life \ {l} : rd'[m] = rd[m]
        /\ Answer(rd[l].st) = "nothing"
        /\ \/ /\ rd[l].file = NoLife /\ rd'[l].file \in Life /\ rd'[l].st = "stat"
              /\ VersionOf(rd'[l].file) # "none"
           \/ /\ rd[l].file \in Life /\ rd'[l].file = rd[l].file
              /\ \/ Answer(rd'[l].st) = "nothing"
                 \/ rd'[l].st = "value" /\ VersionOf(rd[l].file) = "whole"
                 \/ rd'[l].st = "error" /\ VersionOf(rd[l].file) = "lost"
    BY <1>7, ReaderPromise
  <2>2. Versions' = Versions
    BY <1>3, <2>1
  <2>3. Gots[l] = "nothing" /\ Bounds[l] = {rd[l].file} \ {NoLife}
    BY <2>1 DEF Gots, Bounds
  <2>4. ASSUME rd'[l].file = rd[l].file PROVE Bounds' = Bounds
    BY <2>1, <2>4 DEF Bounds
  <2>5. ASSUME NEW x, Answer(rd'[l].st) = x PROVE Gots' = [Gots EXCEPT ![l] = x]
    <3>1. Gots' = [m \in Life |-> Answer(rd'[m].st)]
      BY DEF Gots, Answer
    <3> QED
      BY <2>1, <2>5, <3>1 DEF Gots
  <2>6. Gots \in [Life -> {"nothing", "value", "error"}]
    BY DEF Gots, Answer
  <2>7. CASE rd[l].file = NoLife /\ rd'[l].file \in Life /\ rd'[l].st = "stat" /\ VersionOf(rd'[l].file) # "none"
    <3>0. PICK f \in Life : f = rd'[l].file
      BY <2>7
    <3>1. Gots' = Gots
      BY <2>3, <2>5, <2>6, <2>7 DEF Answer
    <3>2. Bounds[l] = {} /\ Bounds' = [Bounds EXCEPT ![l] = {f}]
      BY <1>0, <2>1, <2>3, <2>7, <3>0 DEF Bounds
    <3>3. f \in Life /\ Versions[f] # "none"
      BY <2>7, <3>0 DEF Versions
    <3>4. Promise!Bind(l, f)
      BY <2>2, <2>3, <3>1, <3>2, <3>3 DEF Promise!Bind, Versions, Bounds, Gots, Answer
    <3> QED
      BY <3>3, <3>4 DEF Promise!Next
  <2>8. CASE rd[l].file \in Life /\ rd'[l].file = rd[l].file /\ Answer(rd'[l].st) = "nothing"
    <3>1. Gots' = Gots
      BY <2>3, <2>5, <2>6, <2>8
    <3> QED
      BY <2>2, <2>4, <2>8, <3>1
  <2>9. CASE rd[l].file \in Life /\ rd'[l].file = rd[l].file /\ rd'[l].st = "value" /\ VersionOf(rd[l].file) = "whole"
    <3>1. Gots' = [Gots EXCEPT ![l] = "value"]
      BY <2>5, <2>9 DEF Answer
    <3>2. \E v \in Bounds[l] : Versions[v] = "whole"
      BY <1>0, <2>3, <2>9 DEF Versions
    <3>3. Promise!Deliver(l)
      BY <2>2, <2>3, <2>4, <2>9, <3>1, <3>2 DEF Promise!Deliver, Versions, Bounds, Gots, Answer
    <3> QED
      BY <3>3 DEF Promise!Next
  <2>10. CASE rd[l].file \in Life /\ rd'[l].file = rd[l].file /\ rd'[l].st = "error" /\ VersionOf(rd[l].file) = "lost"
    <3>1. Gots' = [Gots EXCEPT ![l] = "error"]
      BY <2>5, <2>10 DEF Answer
    <3>2. \E v \in Bounds[l] : Versions[v] = "lost"
      BY <1>0, <2>3, <2>10 DEF Versions
    <3>3. Promise!GiveUp(l)
      BY <2>2, <2>3, <2>4, <2>10, <3>1, <3>2 DEF Promise!GiveUp, Versions, Bounds, Gots, Answer
    <3> QED
      BY <3>3 DEF Promise!Next
  <2> QED
    BY <2>1, <2>7, <2>8, <2>9, <2>10
<1> QED
  BY <1>1, <1>5, <1>6, <1>7 DEF PlannerStep, WriterStep

\* What the writer, the readers and the sweeps do of a file is a behaviour of CachePromise:
\* no value of a file that was not finished, no error on one that was (wait_avail, FIN).
THEOREM PromiseKept == ASSUME Overlap = FALSE PROVE Spec => PromiseSpec
<1>1. IInv /\ IInv' /\ Next => Promise!Next \/ UNCHANGED Promise!pvars
  BY NextPromise DEF Promise!pvars, Versions, Bounds, Gots, Answer
<1>2. UNCHANGED vars => UNCHANGED Promise!pvars
  BY DEF vars, fileVars, Promise!pvars, VersionOf, Whole, Writing, WriterUp, Up
<1>3. IInv /\ IInv' /\ [Next]_vars => [Promise!Next]_(Promise!pvars)
  BY <1>1, <1>2
<1> QED
  BY <1>3, InitPromise, Invariance, PTL DEF Spec, PromiseSpec, Promise!Spec
=============================================================================
