------------------------------ MODULE CacheFile ------------------------------
(***************************************************************************)
(* The cache file of one hash and the processes around it: the planner     *)
(* that needs it, the writer (ptsWireCacheStreamWriter, run by             *)
(* ptsDataCache) that makes it, in the planner or in the module process of *)
(* the operation, the readers (ptsWireCacheStreamReader, in module         *)
(* processes) that read it while it grows, the sweeps of pigCacheManager,  *)
(* and crashes of a planner followed by another one.  A module process     *)
(* outlives a crashed planner, and saves on.                               *)
(*                                                                         *)
(* A file is a sequence of cells, each the unit that one write_full makes  *)
(* and one pread takes: the stream header, then header and payload of each *)
(* record (D_META, the body, W_END).  A cell holds whose header it is, or  *)
(* its data, or the zeros of a hole.  Positions are those of the format,   *)
(* since the data of a hash is always the same.                            *)
(***************************************************************************)
EXTENDS Naturals, Sequences, FiniteSets

CONSTANTS
    Life,       \* the runs of planners; a file version is named after its maker
    NoLife,
    Uses,       \* the lives whose program has the operation with this hash
    PidOf,      \* the process number of each writer, which the system gives out again
    Body,       \* how many records follow D_META
    DiskFails,  \* writes and open may fail
    Overlap,    \* planners may run at the same time in one directory
    MaxReaders  \* bound: how many of the lives start a reader (no reader sees another)

ASSUME LifeAssumption ==
    /\ IsFiniteSet(Life) /\ NoLife \notin Life /\ Uses \subseteq Life
    /\ {"hole", "data"} \cap (Life \cup {NoLife}) = {}
    /\ DiskFails \in BOOLEAN /\ Overlap \in BOOLEAN /\ MaxReaders \in Nat
ASSUME BodyAssumption == Body \in Nat \ {0}

VARIABLES
    ph,         \* what each planner is doing
    seen,       \* what its sweep has read of the file: a verdict and a writer
    valid,      \* validState of its handle on the hash
    name,       \* the version the name <hash>.cache stands for
    data,       \* the cells of every version
    proc,       \* where it has the operation run: in a process of its own, or inside
    wr,         \* the writer of every planner's operation
    rd          \* the reader that every planner has started

fileVars == <<name, data>>
vars == <<ph, seen, valid, fileVars, proc, wr, rd>>

Hole == "hole"
Data == "data"
Last == 2 * Body + 4                \* the position of W_END
Meta == 3                           \* the position of the payload of D_META
Headers == {i \in 1..Last : i % 2 = 0}

Nothing == [verdict |-> "none", by |-> NoLife]
NoReader == [st |-> "none", file |-> NoLife, pos |-> 1, from |-> NoLife, got |-> {}]

Up(l) == ph[l] \notin {"off", "gone"}
WriterUp(l) == (proc[l] = "inside" /\ Up(l)) \/ proc[l] = "module"
Writing(l) == wr[l].st = "write" /\ WriterUp(l)
Reading(l) == rd[l].st \in {"stat", "alive", "again", "pread"}

TypeOK ==
    /\ ph \in [Life -> {"off", "sweep", "look", "compute", "use", "leave", "gone"}]
    /\ seen \in [Life -> [verdict : {"none", "whole", "part", "bad"}, by : Life \cup {NoLife}]]
    /\ valid \in [Life -> {"unknown", "valid", "invalid"}]
    /\ name \in Life \cup {NoLife}
    /\ data \in [Life -> Seq(Life \cup {Hole, Data})]
    /\ \A l \in Life : Len(data[l]) <= Last
    /\ proc \in [Life -> {"none", "inside", "module", "gone"}]
    /\ wr \in [Life -> [st : {"none", "write", "done", "failed"},
                        file : Life \cup {NoLife}, off : 1..Last + 1]]
    /\ rd \in [Life -> [st : {"none", "absent", "stat", "alive", "again", "pread",
                              "value", "error"},
                        file : Life \cup {NoLife}, pos : 1..Last,
                        from : Life \cup {NoLife}, got : SUBSET (1..Last)]]

Init ==
    /\ ph = [l \in Life |-> "off"]
    /\ seen = [l \in Life |-> Nothing]
    /\ valid = [l \in Life |-> "unknown"]
    /\ name = NoLife
    /\ data = [l \in Life |-> <<>>]
    /\ proc = [l \in Life |-> "none"]
    /\ wr = [l \in Life |-> [st |-> "none", file |-> NoLife, off |-> 1]]
    /\ rd = [l \in Life |-> NoReader]

-----------------------------------------------------------------------------
(* The sweeps (pigCacheManager).                                           *)

\* Mutant of AliveAs: by the number of the process alone.
AliveByPid(l) == l = NoLife \/ \E m \in Life : (Up(m) \/ WriterUp(m)) /\ PidOf[m] = PidOf[l]

\* osglue_pid_alive_as: a process with this number that also started when the writer did.  The
\* stream header has the number of the process that writes: of the planner, or of its module.
\* Before the stream header is read the number is 0, which the system says exists.
AliveAs(l) == l = NoLife \/ WriterUp(l)

\* cache_has_end: walks the record headers; one with type 0, also in a hole, is W_END.
HasEnd(c) == /\ Len(c) > 0 /\ c[1] \in Life
             /\ \E i \in Headers : /\ i <= Len(c)
                                   /\ c[i] = Hole \/ i = Last

Verdict(c) == IF Len(c) = 0 \/ c[1] \notin Life THEN "bad"
              ELSE IF HasEnd(c) THEN "whole" ELSE "part"

\* sweep_cache_dir reads a file, and goes on to the next; the fate of this one is in Sweep.
Look(l) ==
    seen' = [seen EXCEPT ![l] =
        IF name = NoLife THEN Nothing
        ELSE [verdict |-> Verdict(data[name]),
              by |-> IF Verdict(data[name]) = "bad" THEN NoLife ELSE data[name][1]]]

\* What it decided to remove: a corpse, and at the exit a whole file this run did not use.
Doomed(l, exit) ==
    CASE seen[l].verdict = "none"  -> FALSE
      [] seen[l].verdict = "whole" -> exit
      [] seen[l].verdict = "part"  -> ~AliveAs(seen[l].by)
      [] OTHER                     -> TRUE

Sweep(l, exit) == /\ name' = IF Doomed(l, exit) THEN NoLife ELSE name
                  /\ seen' = [seen EXCEPT ![l] = Nothing]

\* Planners one after another: the one before is gone, and so is a module process of it that had
\* its result when the planner went but no file yet.  It opens that at once or, being told by the
\* close of its input, not at all; a planner that starts before it does overlaps with it.
LastIsOver == \A m \in Life : ~Up(m) /\ ~(proc[m] = "module" /\ wr[m].st = "none")

\* The first agent that makes a cache path sweeps the directory (cache_take_startup).
Start(l) ==
    /\ ph[l] = "off"
    /\ Overlap \/ LastIsOver
    /\ ph' = [ph EXCEPT ![l] = "sweep"]
    /\ Look(l)
    /\ UNCHANGED <<valid, fileVars, proc, wr, rd>>

StartSweep(l) ==
    /\ ph[l] = "sweep"
    /\ Sweep(l, FALSE)
    /\ ph' = [ph EXCEPT ![l] = IF l \in Uses THEN "look" ELSE "use"]
    /\ UNCHANGED <<valid, data, proc, wr, rd>>

\* Mutant of Leave: the hashes this run used are not looked at.
LeaveUnused(l) ==
    /\ ph[l] = "use"
    /\ proc[l] # "module" /\ ~Writing(l) /\ ~Reading(l)
    /\ IF rd[l].st \in {"error", "absent"}
       THEN ph' = [ph EXCEPT ![l] = "gone"] /\ UNCHANGED seen
       ELSE ph' = [ph EXCEPT ![l] = "leave"] /\ Look(l)
    /\ UNCHANGED <<valid, fileVars, proc, wr, rd>>

\* CLEANUP of a program that did not fail, once nothing runs and no module process is left: the
\* used hash is kept.
Leave(l) ==
    /\ ph[l] = "use"
    /\ proc[l] # "module" /\ ~Writing(l) /\ ~Reading(l)
    /\ IF rd[l].st \in {"error", "absent"} \/ l \in Uses
       THEN ph' = [ph EXCEPT ![l] = "gone"] /\ UNCHANGED seen
       ELSE ph' = [ph EXCEPT ![l] = "leave"] /\ Look(l)
    /\ UNCHANGED <<valid, fileVars, proc, wr, rd>>

\* exit_sweep; a whole file may be kept for its age, or because the run used no cache at all.
LeaveSweep(l) ==
    /\ ph[l] = "leave"
    /\ \E retain \in BOOLEAN : Sweep(l, ~retain)
    /\ ph' = [ph EXCEPT ![l] = "gone"]
    /\ UNCHANGED <<valid, data, proc, wr, rd>>

\* The planner is killed, or torn down by an interrupt or an error: nothing in it runs any more.
\* Its module process does not end with it.
Crash(l) ==
    /\ Up(l)
    /\ ph' = [ph EXCEPT ![l] = "gone"]
    /\ seen' = [seen EXCEPT ![l] = Nothing]
    /\ UNCHANGED <<valid, fileVars, proc, wr, rd>>

\* The module process ends: it has saved, or found its input closed, or was killed, or crashed.
ProcessEnds(l) ==
    /\ proc[l] = "module"
    /\ proc' = [proc EXCEPT ![l] = "gone"]
    /\ UNCHANGED <<ph, seen, valid, fileVars, wr, rd>>

-----------------------------------------------------------------------------
(* The writer.                                                             *)

\* ACT_START of pigfAgent asks is_valid(): a file there is a HIT, none is kept as CV_INVALID and
\* the operation is run, by a mediator of either kind.
LookUp(l) ==
    /\ ph[l] = "look"
    /\ IF name # NoLife
       THEN /\ valid' = [valid EXCEPT ![l] = "valid"]
            /\ ph' = [ph EXCEPT ![l] = "use"]
            /\ UNCHANGED proc
       ELSE /\ valid' = [valid EXCEPT ![l] = "invalid"]
            /\ ph' = [ph EXCEPT ![l] = "compute"]
            /\ \E place \in {"inside", "module"} : proc' = [proc EXCEPT ![l] = place]
    /\ UNCHANGED <<seen, fileVars, wr, rd>>

\* set_body starts ptsDataCache, and that the writer, which opens with O_CREAT|O_TRUNC; in a module
\* process that had its result also when the planner has gone since.
OpenWriter(l) ==
    LET f == IF name = NoLife THEN l ELSE name IN
    /\ WriterUp(l) /\ wr[l].st = "none"
    /\ ph' = [ph EXCEPT ![l] = IF @ = "compute" THEN "use" ELSE @]
    /\ \/ /\ name' = f
          /\ data' = [data EXCEPT ![f] = <<>>]
          /\ wr' = [wr EXCEPT ![l] = [st |-> "write", file |-> f, off |-> 1]]
       \/ /\ DiskFails
          /\ wr' = [wr EXCEPT ![l].st = "failed"]
          /\ UNCHANGED fileVars
    /\ UNCHANGED <<seen, valid, proc, rd>>

\* A write at an offset: whatever lies between the end of the file and it becomes a hole.
Put(c, off, cell) ==
    [i \in 1..(IF off > Len(c) THEN off ELSE Len(c)) |->
        IF i = off THEN cell ELSE IF i <= Len(c) THEN c[i] ELSE Hole]

\* Once D_META is written (INI_..._DONE) a TSE_ASSERT makes the handle valid, and does so whatever
\* its error code says (ACT_ptsDataCache_SAVE).  From a module process the planner hears of it by
\* a message; that may take its time, and so may what is done with a valid handle (Load).
Announces(l) == IF wr[l].off = Meta THEN [valid EXCEPT ![l] = "valid"] ELSE valid

\* write_record and W_END at FIN_START: one write_full.
WriteCell(l) ==
    LET w == wr[l] IN
    /\ Writing(l)
    /\ data' = [data EXCEPT ![w.file] = Put(@, w.off, IF w.off = 1 THEN l ELSE Data)]
    /\ wr' = [wr EXCEPT ![l].off = w.off + 1,
                        ![l].st = IF w.off = Last THEN "done" ELSE "write"]
    /\ valid' = Announces(l)
    /\ UNCHANGED <<ph, seen, name, proc, rd>>

\* Mutant of WriteFails: FIN writes W_END although a record was cut short.
WriteFailsEnded(l) ==
    /\ DiskFails
    /\ Writing(l)
    /\ wr' = [wr EXCEPT ![l].st = "failed"]
    /\ data' = [data EXCEPT ![wr[l].file] = Put(@, Last, Data)]
    /\ valid' = IF wr[l].off \in 2..Meta THEN [valid EXCEPT ![l] = "valid"] ELSE valid
    /\ UNCHANGED <<ph, seen, name, proc, rd>>

\* It fails: the rest of the records and W_END are skipped, and FIN closes the file.
\* A failure within D_META is announced, the one of the stream header is not.
WriteFails(l) ==
    /\ DiskFails
    /\ Writing(l)
    /\ wr' = [wr EXCEPT ![l].st = "failed"]
    /\ valid' = IF wr[l].off \in 2..Meta THEN [valid EXCEPT ![l] = "valid"] ELSE valid
    /\ UNCHANGED <<ph, seen, fileVars, proc, rd>>

-----------------------------------------------------------------------------
(* The reader.                                                             *)

\* get_body on a valid handle starts ptsDataCache in MODE_LOAD, which looks for the file.
Load(l) ==
    /\ ph[l] = "use" /\ valid[l] = "valid" /\ rd[l].st = "none"
    /\ Cardinality({m \in Life : rd[m].st # "none"}) < MaxReaders
    /\ IF name = NoLife
       THEN /\ rd' = [rd EXCEPT ![l].st = "absent"]
            /\ valid' = [valid EXCEPT ![l] = "invalid"]
       ELSE /\ rd' = [rd EXCEPT ![l].st = "stat", ![l].file = name]
            /\ UNCHANGED valid
    /\ UNCHANGED <<ph, seen, fileVars, proc, wr>>

Enough(l) == Len(data[rd[l].file]) >= rd[l].pos

\* wait_avail: the size, then whether the writer lives, then, if it does not, the size again.
Stat(l) ==
    /\ rd[l].st = "stat"
    /\ rd' = [rd EXCEPT ![l].st = IF Enough(l) THEN "pread" ELSE "alive"]
    /\ UNCHANGED <<ph, seen, valid, fileVars, proc, wr>>

\* Mutant of WriterAlive: the end of the file is waited out, whoever writes it.
WriterTrusted(l) ==
    /\ rd[l].st = "alive"
    /\ rd' = [rd EXCEPT ![l].st = "stat"]
    /\ UNCHANGED <<ph, seen, valid, fileVars, proc, wr>>

WriterAlive(l) ==
    /\ rd[l].st = "alive"
    /\ rd' = [rd EXCEPT ![l].st = IF AliveAs(rd[l].from) THEN "stat" ELSE "again"]
    /\ UNCHANGED <<ph, seen, valid, fileVars, proc, wr>>

\* Mutant of StatAgain: a dead writer is an error at once.
StatOnce(l) ==
    /\ rd[l].st = "again"
    /\ rd' = [rd EXCEPT ![l].st = "error"]
    /\ UNCHANGED <<ph, seen, valid, fileVars, proc, wr>>

StatAgain(l) ==
    /\ rd[l].st = "again"
    /\ rd' = [rd EXCEPT ![l].st = IF Enough(l) THEN "pread" ELSE "error"]
    /\ UNCHANGED <<ph, seen, valid, fileVars, proc, wr>>

\* What reading one cell does: next_record, and the checks on the first two.
Taken(r, c) ==
    CASE r.pos = 1 /\ c = Hole          -> [r EXCEPT !.st = "error"]
      [] r.pos = 1 /\ c # Hole          -> [r EXCEPT !.st = "stat", !.pos = 2, !.from = c]
      [] r.pos = 2 /\ c = Hole          -> [r EXCEPT !.st = "error"]
      [] r.pos = Meta /\ c = Hole       -> [r EXCEPT !.st = "error"]
      [] r.pos > 2 /\ r.pos \in Headers /\ (c = Hole \/ r.pos = Last)
                                        -> [r EXCEPT !.st = "value"]
      [] OTHER -> [r EXCEPT !.st = "stat", !.pos = @ + 1,
                            !.got = IF c = Data THEN @ \cup {r.pos} ELSE @]

\* A file cut short since its size was taken gives fewer bytes than asked for.
Pread(l) ==
    /\ rd[l].st = "pread"
    /\ rd' = [rd EXCEPT ![l] = IF Enough(l) THEN Taken(@, data[@.file][@.pos])
                               ELSE [@ EXCEPT !.st = "error"]]
    /\ UNCHANGED <<ph, seen, valid, fileVars, proc, wr>>

-----------------------------------------------------------------------------
PlannerStep(l) == Start(l) \/ StartSweep(l) \/ LookUp(l) \/ Load(l) \/ Leave(l) \/ LeaveSweep(l)
WriterStep(l) == OpenWriter(l) \/ WriteCell(l) \/ WriteFails(l)
ReaderStep(l) == Stat(l) \/ WriterAlive(l) \/ StatAgain(l) \/ Pread(l)

End(l) == Crash(l) \/ ProcessEnds(l)

Next == \E l \in Life : PlannerStep(l) \/ WriterStep(l) \/ ReaderStep(l) \/ End(l)

Spec == Init /\ [][Next]_vars

\* The threads of the writer and of the reader run; nothing else has to happen.
FairSpec == Spec /\ \A l \in Life : WF_vars(WriteCell(l)) /\ WF_vars(ReaderStep(l))

-----------------------------------------------------------------------------
(* Properties of planners that run one after another (Overlap = FALSE).    *)

Whole(l) == Len(data[l]) = Last /\ \A i \in 1..Last : data[l][i] # Hole

\* A planner looks for its file only after its sweep, and whatever crash, full disk or reused
\* process number came before, that leaves it no corpse to adopt as a HIT: the file is whole, or
\* the process that writes it is up when the sweep tests it (startup_sweep before is_valid()).
NoCorpseLeft ==
    [][\A l \in Life : ph[l] = "sweep" /\ ph'[l] = "look"
           => (name = NoLife \/ Whole(name) \/ WriterUp(name))']_vars

\* A reader that reports success has read every cell of its file (next_record, W_END).
ReadWhole == \A l \in Life : rd[l].st = "value" => rd[l].got = 2..(Last - 1)

\* A whole file is removed only by a run that did not use it, at its end: after a crash or a
\* failure what was computed is there for the next run (exit_sweep, CLEANUP).  But one that a module
\* process finished after its planner had gone may have been unfinished when the sweep at a start
\* read it; if the process then ends before it is tested, the file goes for a corpse.
FinishedSinceRead(m, l) == /\ ph[m] = "sweep" /\ seen[m].verdict \in {"part", "bad"}
                           /\ proc[l] \in {"module", "gone"} /\ ~Up(l)
OnlyUnusedRemoved ==
    [][\A l \in Life : name = l /\ Whole(l) /\ name' # l
           => \E m \in Life : \/ m \notin Uses /\ ph[m] = "leave"
                             \/ FinishedSinceRead(m, l)]_vars

\* A reader stops: with its writer finished, failed with its process, or dead, it does not
\* poll for ever (wait_avail).  The one way to poll on is a writer that failed in a
\* process that lives on.
Stuck(l) == LET w == rd[l].file IN wr[w].st = "failed" /\ WriterUp(w)
ReaderEnds == \A l \in Life : Reading(l) ~> (~Reading(l) \/ Stuck(l))

\* wait_avail and FIN of the writer give the readers what CachePromise says: no value of
\* a file that was not finished, no error on one that was, even if its writer died at once.
VersionOf(l) == IF wr[l].file # l THEN "none"
                ELSE IF Whole(l) THEN "whole"
                ELSE IF Writing(l) THEN "growing" ELSE "lost"
Promise == INSTANCE CachePromise WITH
    Version <- Life, Reader <- Life,
    version <- [l \in Life |-> VersionOf(l)],
    bound <- [l \in Life |-> {rd[l].file} \ {NoLife}],
    got <- [l \in Life |-> IF rd[l].st \in {"value", "error", "absent"}
                           THEN IF rd[l].st = "value" THEN "value" ELSE "error"
                           ELSE "nothing"]
PromiseSpec == Promise!Spec

-----------------------------------------------------------------------------
(* Planners at the same time (Overlap = TRUE).                             *)

\* The sweep is said not to remove an unfinished file whose writer lives
\* (pigCacheManager.cpp, the comment of sweep_cache_dir).
LiveKept ==
    [][name # NoLife /\ name' = NoLife =>
           ~\E l \in Life : Writing(l) /\ wr[l].file = name]_vars
=============================================================================
