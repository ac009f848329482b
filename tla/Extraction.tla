------------------------------ MODULE Extraction ------------------------------
(***************************************************************************)
(* How an index run reads a checkout (knowledge_graph/discovery.py,        *)
(* extract/pool.py, and the first half of pipeline.py): the walk and what  *)
(* it leaves out, the files whose content is not the stored one, their     *)
(* extraction in this process or in batches by a pool of workers that may  *)
(* hang or die, and the facts that are stored of it. A file is what is to  *)
(* be said of it: why the walk rejects it, or what reading it comes to.    *)
(* What facts say is module Linking's; that runs follow each other is      *)
(* IndexJobs', and what a stop between two writes leaves IndexPipeline's.  *)
(***************************************************************************)
EXTENDS Integers, FiniteSetsExt, SequencesExt

CONSTANTS Entries,      \* what may be in the checkout, in the order of the walk
          Sorts(_),     \* what each may be
          cpus, available_mb, worker_memory_mb,
          CHANGE_BATCH_SIZE, IN_PROCESS_THRESHOLD,
          max_files,
          MaxCommits,   \* bound: changes of the checkout
          MaxStops,     \* bound: processes that die
          None

VARIABLES disk,         \* what each entry is
          stored,       \* file_facts: the content that each path's facts were read from
          run,          \* the run under way
          result,       \* what the last run made of this checkout, None if it did not end
          commits, stops

vars == <<disk, stored, run, result, commits, stops>>

(* No source, what the walk rejects and counts, and what reading comes to. *)
Uncounted == {"absent", "asset"}
Rejected == {"ignored_directory", "symlink", "generated", "gitignored", "too_large", "vanished"}
Unread == {"unreadable", "binary", "minified"}
\* what the parser, given the content, never returns from, fails at, dies of
Bad == {"hangs", "fails", "kills"}
Good(sort) == sort \notin Uncounted \cup Rejected \cup Unread \cup Bad
-----------------------------------------------------------------------------
\* worker_count: a core is left to the API, and half of the memory
AtLeastOne(n) == Max({1, n})
worker_count ==
  LET by_cpu == AtLeastOne(Min({cpus - 1, 8}))
      by_memory == AtLeastOne((available_mb \div 2) \div AtLeastOne(worker_memory_mb))
  IN IF available_mb = None THEN by_cpu ELSE Min({by_cpu, by_memory})

Counted(skipped, reason) ==
  [r \in DOMAIN skipped \cup {reason} |-> (IF r \in DOMAIN skipped THEN skipped[r] ELSE 0) + IF r = reason THEN 1 ELSE 0]

(* discover: in the order of the walk, until there are too many.           *)
Discover ==
  FoldLeft(LAMBDA found, e :
             IF found.capped \/ disk[e] \in Uncounted THEN found
             ELSE IF disk[e] \in Rejected THEN [found EXCEPT !.skipped = Counted(@, disk[e])]
             ELSE IF Len(found.files) >= max_files
                  THEN [found EXCEPT !.skipped = Counted(@, "repo_cap_reached"), !.capped = TRUE]
             ELSE [found EXCEPT !.files = Append(@, e)],
           [files |-> <<>>, skipped |-> <<>>, capped |-> FALSE], Entries)

(* _hash_files and plan_sync: what is not stored as it is now; what cannot *)
(* be hashed is read.                                                      *)
ToExtract(files, full) ==
  SelectSeq(files, LAMBDA e : full \/ disk[e] = "unreadable" \/ e \notin DOMAIN stored \/ stored[e] # disk[e])
\* merge_facts, then _persist_facts
MergeFacts(full, deleted, facts) ==
  [e \in DOMAIN facts \cup (IF full THEN {} ELSE DOMAIN stored \ deleted) |-> IF e \in DOMAIN facts THEN facts[e] ELSE stored[e]]

(* read_source and extract_file, which raise nothing for a bad file.       *)
Outcome(sort) ==
  IF sort \in Unread THEN [skip |-> sort] ELSE IF sort = "fails" THEN [skip |-> "parse_failed"] ELSE [facts |-> sort]
Skipped(e) == "skip" \in DOMAIN run.outcomes[e]
-----------------------------------------------------------------------------
Idle == [phase |-> "idle"]
Init ==
  /\ disk \in [ToSet(Entries) -> UNION {Sorts(e) : e \in ToSet(Entries)}]
  /\ \A e \in ToSet(Entries) : disk[e] \in Sorts(e)
  /\ stored = <<>> /\ run = Idle /\ result = None
  /\ commits = 0 /\ stops = 0

(* A commit; the checkout stays as it is while a run reads it.             *)
Commit(e, sort) ==
  /\ run = Idle /\ commits < MaxCommits /\ sort # disk[e]
  /\ disk' = [disk EXCEPT ![e] = sort]
  /\ result' = None /\ commits' = commits + 1
  /\ UNCHANGED <<stored, run, stops>>

(* index, until something is to be read: a batch that is small is read in  *)
(* this process.                                                           *)
Start(full) ==
  /\ run = Idle
  /\ LET found == Discover
         todo == ToExtract(found.files, full)
     IN run' = [phase |-> IF Len(todo) <= IN_PROCESS_THRESHOLD THEN "here" ELSE "pool", full |-> full,
                files |-> ToSet(found.files), skipped |-> found.skipped, capped |-> found.capped,
                todo |-> todo, batch |-> {}, working |-> {}, executor |-> "none", outcomes |-> <<>>]
  /\ result' = None
  /\ UNCHANGED <<disk, stored, commits, stops>>

With(outcomes, files, outcome) == [e \in DOMAIN outcomes \cup files |-> IF e \in files THEN outcome ELSE outcomes[e]]
Settle(files, outcome) == [run EXCEPT !.batch = @ \ files, !.working = @ \ files, !.outcomes = With(@, files, outcome)]

ExtractFile ==
  /\ run.phase = "here" /\ run.todo # <<>> /\ disk[Head(run.todo)] \notin {"hangs", "kills"}
  /\ run' = [Settle({Head(run.todo)}, Outcome(disk[Head(run.todo)])) EXCEPT !.todo = Tail(@)]
  /\ UNCHANGED <<disk, stored, result, commits, stops>>

(* _extract_batch: submit all; a pool that lost a worker takes no more,    *)
(* and the run fails.                                                      *)
SubmitBatch ==
  /\ run.phase = "pool" /\ run.batch = {} /\ run.todo # <<>>
  /\ LET n == Min({CHANGE_BATCH_SIZE, Len(run.todo)})
     IN run' = IF run.executor = "broken" THEN Idle
               ELSE [run EXCEPT !.batch = ToSet(SubSeq(run.todo, 1, n)), !.executor = "up",
                                !.todo = SubSeq(@, n + 1, Len(@))]
  /\ UNCHANGED <<disk, stored, result, commits, stops>>
Take(e) ==
  /\ run.phase = "pool" /\ run.executor = "up"
  /\ e \in run.batch \ run.working /\ Cardinality(run.working) < worker_count
  /\ run' = [run EXCEPT !.working = @ \cup {e}]
  /\ UNCHANGED <<disk, stored, result, commits, stops>>
Finish(e) ==
  /\ run.phase = "pool" /\ e \in run.working /\ disk[e] \notin {"hangs", "kills"}
  /\ run' = Settle({e}, Outcome(disk[e]))
  /\ UNCHANGED <<disk, stored, result, commits, stops>>
\* the executor fails every call it still has
WorkerDies(e) ==
  /\ run.phase = "pool" /\ e \in run.working /\ disk[e] = "kills"
  /\ run' = [Settle(run.batch, [skip |-> "parse_failed"]) EXCEPT !.executor = "broken"]
  /\ UNCHANGED <<disk, stored, result, commits, stops>>
\* _batch_budget is used up: _recycle kills the workers
Timeout ==
  /\ run.phase = "pool" /\ run.batch # {}
  /\ run' = [Settle(run.batch, [skip |-> "parse_timeout"]) EXCEPT !.executor = "none"]
  /\ UNCHANGED <<disk, stored, result, commits, stops>>

(* The rest of index: skips are counted, and facts merged and stored.      *)
Store ==
  /\ run.phase \in {"here", "pool"} /\ run.todo = <<>> /\ run.batch = {}
  /\ LET read == {e \in DOMAIN run.outcomes : ~Skipped(e)}
         left == SetToSeq(DOMAIN run.outcomes \ read)
     IN /\ stored' = MergeFacts(run.full, DOMAIN stored \ run.files, [e \in read |-> run.outcomes[e].facts])
        /\ result' = [full |-> run.full, capped |-> run.capped, outcomes |-> run.outcomes,
                      files_indexed |-> Cardinality(DOMAIN stored'),
                      skipped |-> FoldLeft(LAMBDA s, e : Counted(s, run.outcomes[e].skip), run.skipped, left)]
  /\ run' = Idle
  /\ UNCHANGED <<disk, commits, stops>>

(* The process dies, by itself or of a file it reads itself.               *)
Crash ==
  /\ run # Idle /\ stops < MaxStops
  /\ run' = Idle /\ stops' = stops + 1
  /\ UNCHANGED <<disk, stored, result, commits>>
KilledByFile ==
  /\ run.phase = "here" /\ run.todo # <<>> /\ disk[Head(run.todo)] = "kills"
  /\ run' = Idle
  /\ UNCHANGED <<disk, stored, result, commits, stops>>

ReadStep ==
  \/ ExtractFile \/ SubmitBatch \/ Timeout \/ Store \/ KilledByFile
  \/ \E e \in ToSet(Entries) : Take(e) \/ Finish(e) \/ WorkerDies(e)
-----------------------------------------------------------------------------
Sum(counts) == FoldSet(LAMBDA r, n : counts[r] + n, 0, DOMAIN counts)

\* Whatever workers do, a run that ends has one outcome for each file it set
\* out to read, and every file of the checkout is indexed or counted as left
\* out ("every rejection is counted", discovery.py:9; "rather than silently
\* missing", pool.py:11).
CountsAddUp ==
  LET seen == {e \in ToSet(Entries) : disk[e] \notin Uncounted}
  IN /\ result.full => DOMAIN result.outcomes = {e \in seen : disk[e] \notin Rejected /\ e \in ToSet(Discover.files)}
     /\ result.full /\ ~result.capped => result.files_indexed + Sum(result.skipped) = Cardinality(seen)

\* After a run, what is stored was read from the files as they are, but for
\* those it says it could not read; and nothing is stored of files that are
\* gone or left out.
NothingMissed ==
  LET files == ToSet(Discover.files)
  IN /\ DOMAIN stored \subseteq files
     /\ \A e \in files :
          \/ e \in DOMAIN stored /\ stored[e] = disk[e]
          \/ e \in DOMAIN result.outcomes /\ "skip" \in DOMAIN result.outcomes[e]

\* A file that cannot be parsed costs the others nothing, unless a worker died
\* of it or the batch's time is up: only those give up on files that are good.
OthersSurvive ==
  \A e \in DOMAIN result.outcomes :
    Good(disk[e]) /\ "skip" \in DOMAIN result.outcomes[e] =>
      \/ result.outcomes[e].skip = "parse_timeout"
      \/ result.outcomes[e].skip = "parse_failed" /\ \E k \in DOMAIN result.outcomes : disk[k] = "kills"

ReadingSound == result # None => CountsAddUp /\ NothingMissed /\ OthersSurvive

\* A run ends whatever its files do to the parser ("a batch that overruns its
\* budget is abandoned", pool.py:9), unless this process reads such a file.
ReadingEnds ==
  (run # Idle /\ ~(run.phase = "here" /\ \E e \in ToSet(run.todo) : disk[e] = "hangs")) ~> (run = Idle)
=============================================================================
