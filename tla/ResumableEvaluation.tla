------------------------- MODULE ResumableEvaluation -------------------------
(***************************************************************************)
(* The two evaluations that can be resumed from their CSV file:            *)
(* run_gsm8k_full_benchmark.py asks the gateway case by case, and          *)
(* run_bnb_int8_gsm8k_batched.py runs the model itself on batches.  Either *)
(* may be killed at any point.  What was written and not flushed is then   *)
(* gone, or partly on disk where the buffer was full before.               *)
(***************************************************************************)
EXTENDS Naturals, Sequences, FiniteSets

CONSTANTS
  NumRows,      \* cases of the dataset
  RowBatch,     \* --batch-size of the batched evaluation
  MaxStarts     \* bound on the times the evaluation is started

ASSUME EvaluationAssumption ==
  NumRows \in Nat /\ RowBatch \in Nat \ {0} /\ MaxStarts \in Nat

RowIds == 1 .. NumRows

VARIABLES
  runner,   \* the script
  starts,   \* number of the present run
  runPc,    \* where it stands
  dataset,  \* the file download_if_missing makes
  file,     \* the CSV on disk: NoFile, or its header and rows
  header,   \* the header is written and not flushed
  buffer,   \* rows written and not flushed
  todo,     \* cases this run still has to evaluate
  batch,    \* the cases of the present batch
  summary   \* the summary file

evaluationVars == <<runner, starts, runPc, dataset, file, header, buffer, todo,
                    batch, summary>>

NoFile == [exists |-> FALSE, header |-> FALSE, rows |-> <<>>]
NoSummary == [total |-> 0, ok |-> 0]
EvalRows == [id : RowIds, run : 1..MaxStarts, ok : BOOLEAN, torn : BOOLEAN]

EvaluationTypeOK ==
  /\ runner \in {"gsm8k", "bnb"}
  /\ starts \in 0..MaxStarts
  /\ runPc \in {"ended", "download", "load", "loop", "write", "except", "done"}
  /\ dataset \in {"missing", "partial", "whole"}
  /\ file.exists \in BOOLEAN /\ file.header \in BOOLEAN /\ file.rows \in Seq(EvalRows)
  /\ header \in BOOLEAN
  /\ buffer \in Seq(EvalRows)
  /\ todo \subseteq RowIds /\ batch \subseteq RowIds
  /\ summary \in [total : Nat, ok : Nat]

EvaluationInit ==
  /\ runner \in {"gsm8k", "bnb"}
  /\ starts = 0
  /\ runPc = "ended"
  /\ dataset = IF runner = "gsm8k" THEN "missing" ELSE "whole"
  /\ file = NoFile /\ header = FALSE /\ buffer = <<>>
  /\ todo = {} /\ batch = {}
  /\ summary = NoSummary

-----------------------------------------------------------------------------
(* The script is started, again or for the first time.                     *)
Start ==
  /\ runPc \in {"ended", "done"} /\ starts < MaxStarts
  /\ starts' = starts + 1
  /\ runPc' = IF dataset = "missing" THEN "download" ELSE "load"
  /\ UNCHANGED <<runner, dataset, file, header, buffer, todo, batch, summary>>

(* download_if_missing: nothing is written unless all was read, but the    *)
(* writing itself can be cut short; the next run takes the file as it is.  *)
Download ==
  /\ runPc = "download"
  /\ \/ dataset' = "whole" /\ runPc' = "load"
     \/ UNCHANGED dataset /\ runPc' = "ended"
  /\ UNCHANGED <<runner, starts, file, header, buffer, todo, batch, summary>>

(* Mutant: failures are evaluated again.                                   *)
SucceededIds(f) ==
  IF f.header THEN {f.rows[k].id : k \in {l \in DOMAIN f.rows : f.rows[l].ok}} ELSE {}

(* read_completed_case_ids: every row counts, also that of a failure.      *)
(* Without a header the first row is taken for one and no case is found.   *)
CompletedIds(f) == IF f.header THEN {f.rows[k].id : k \in DOMAIN f.rows} ELSE {}

(* Mutant: opened with "w" in every case.                                  *)
OpenAnew(resume) == TRUE

(* The file is made anew unless it is there and --resume is given.         *)
OpensNew(resume) == ~(resume /\ file.exists)

(* The first n cases are those of the dataset; the CSV is opened and its   *)
(* header written, to the buffer, if the file is new.                      *)
OpenCsv(resume, n) ==
  /\ todo' = 1..n \ (IF resume THEN CompletedIds(file) ELSE {})
  /\ header' = OpensNew(resume)
  /\ file' = IF OpensNew(resume) THEN [NoFile EXCEPT !.exists = TRUE] ELSE file
  /\ runPc' = "loop"
  /\ UNCHANGED <<runner, starts, dataset, buffer, batch, summary>>

(* Lines of the dataset are loaded, of which the last may be torn, and     *)
(* then the run ends with an exception.                                    *)
Load ==
  /\ runner = "gsm8k" /\ runPc = "load"
  /\ \E resume \in BOOLEAN, n \in 0..NumRows :
       /\ IF dataset = "whole" THEN n = NumRows ELSE n < NumRows
       /\ OpenCsv(resume, n)

LoadFails ==
  /\ runPc = "load" /\ dataset = "partial"
  /\ runPc' = "ended"
  /\ UNCHANGED <<runner, starts, dataset, file, header, buffer, todo, batch, summary>>

(* The batched run: --resume is looked at before the model is loaded, and  *)
(* the file is opened after it.                                            *)
LoadBatched ==
  /\ runner = "bnb" /\ runPc = "load"
  /\ \E resume \in BOOLEAN : OpenCsv(resume, NumRows)

(* No reference file, or no model: the CSV is as it was.                   *)
LoadBatchedFails ==
  /\ runner = "bnb" /\ runPc = "load"
  /\ runPc' = "ended"
  /\ UNCHANGED <<runner, starts, dataset, file, header, buffer, todo, batch, summary>>

EvalRow(c, ok) == [id |-> c, run |-> starts, ok |-> ok, torn |-> FALSE]

(* A row put behind a torn one, which has no line end, becomes a part of   *)
(* it: what is read is one row with the torn row's case.                   *)
Joined(rows, new) ==
  LET last == Len(rows) IN
  IF new = <<>> THEN rows
  ELSE IF rows # <<>> /\ rows[last].torn
    THEN [rows EXCEPT ![last].torn = new[1].torn] \o Tail(new)
  ELSE rows \o new

(* The file with the header, if one was written, and with more rows.       *)
Flushed(new) ==
  [exists |-> TRUE, header |-> file.header \/ header, rows |-> Joined(file.rows, new)]

Least(S) == CHOOSE c \in S : \A d \in S : c <= d

(* One case of the GSM8K run: an answer or a failure of any kind is a row, *)
(* flushed at once.                                                        *)
Ask ==
  /\ runner = "gsm8k" /\ runPc = "loop" /\ todo # {}
  /\ \E ok \in BOOLEAN : file' = Flushed(<<EvalRow(Least(todo), ok)>>)
  /\ header' = FALSE
  /\ todo' = todo \ {Least(todo)}
  /\ UNCHANGED <<runner, starts, runPc, dataset, buffer, batch, summary>>

(* The run ends with an exception, and closes the file on its way out.     *)
CloseAndRaise ==
  /\ file' = Flushed(<<>>) /\ header' = FALSE
  /\ todo' = {} /\ batch' = {}
  /\ runPc' = "ended"
  /\ UNCHANGED <<runner, starts, dataset, buffer, summary>>

(* No row is written if the body of an HTTP error cannot be read, or if    *)
(* that of an answer is JSON and no object.                                *)
AskRaises == runner = "gsm8k" /\ runPc = "loop" /\ todo # {} /\ CloseAndRaise

(* The prompts of a batch are made before its try.                         *)
PromptsFail == runner = "bnb" /\ runPc = "loop" /\ todo # {} /\ CloseAndRaise

(* The next batch is generated, or raises before a row is written.         *)
NextBatch == {c \in todo : Cardinality({d \in todo : d < c}) < RowBatch}

GenerateBatch ==
  /\ runner = "bnb" /\ runPc = "loop" /\ todo # {}
  /\ batch' = NextBatch
  /\ runPc' \in {"write", "except"}
  /\ UNCHANGED <<runner, starts, dataset, file, header, buffer, todo, summary>>

Written == {buffer[k].id : k \in DOMAIN buffer}

(* The batch's rows are written one by one, in the try as well.            *)
WriteRow ==
  /\ runPc = "write" /\ Written # batch
  /\ \/ /\ buffer' = Append(buffer, EvalRow(Least(batch \ Written), TRUE))
        /\ UNCHANGED runPc
     \/ runPc' = "except" /\ UNCHANGED buffer
  /\ UNCHANGED <<runner, starts, dataset, file, header, todo, batch, summary>>

FlushBatch ==
  /\ runPc = "write" /\ Written = batch
  /\ file' = Flushed(buffer)
  /\ header' = FALSE /\ buffer' = <<>>
  /\ todo' = todo \ batch
  /\ runPc' = "loop"
  /\ UNCHANGED <<runner, starts, dataset, batch, summary>>

(* The handler writes a failure for every case of the batch, those whose   *)
(* row is written already included, and raises.                            *)
FailuresOf(S) ==
  [k \in 1..Cardinality(S) |->
     EvalRow(CHOOSE c \in S : Cardinality({d \in S : d < c}) = k - 1, FALSE)]

AbortBatch ==
  /\ runPc = "except"
  /\ file' = Flushed(buffer \o FailuresOf(batch))
  /\ header' = FALSE /\ buffer' = <<>>
  /\ runPc' = "ended"
  /\ UNCHANGED <<runner, starts, dataset, todo, batch, summary>>

(* write_summary counts the rows of the file, also those of earlier runs;  *)
(* the file was closed first.                                              *)
SummaryOf(f) ==
  IF f.header THEN [total |-> Len(f.rows),
                    ok |-> Cardinality({k \in DOMAIN f.rows : f.rows[k].ok})]
  ELSE [total |-> IF f.rows = <<>> THEN 0 ELSE Len(f.rows) - 1, ok |-> 0]

WriteSummary ==
  /\ runner = "gsm8k" /\ runPc = "loop" /\ todo = {}
  /\ file' = Flushed(<<>>) /\ header' = FALSE
  /\ summary' = SummaryOf(Flushed(<<>>))
  /\ runPc' = "done"
  /\ UNCHANGED <<runner, starts, dataset, buffer, todo, batch>>

(* That of the batched run asks each row for its "ok" and raises where the *)
(* file has no such column.                                                *)
WriteBatchSummary ==
  /\ runner = "bnb" /\ runPc = "loop" /\ todo = {}
  /\ file' = Flushed(<<>>) /\ header' = FALSE
  /\ IF SummaryOf(file').total > 0 /\ ~file'.header
       THEN runPc' = "ended" /\ UNCHANGED summary
       ELSE runPc' = "done" /\ summary' = SummaryOf(file')
  /\ UNCHANGED <<runner, starts, dataset, buffer, todo, batch>>

(* Killed: of the buffer nothing is on disk, or where it outgrew its 8 KB  *)
(* a first part, the last row of which may be torn, behind its ok column   *)
(* or before it.  A dataset that was being saved is cut short.             *)
Torn(rows, n, ok) == [rows EXCEPT ![n].torn = TRUE, ![n].ok = ok]

OnDisk ==
  {file} \cup
  {Flushed(SubSeq(buffer, 1, n)) : n \in 1..Len(buffer)} \cup
  UNION {{Flushed(Torn(SubSeq(buffer, 1, n), n, ok)) : ok \in {buffer[n].ok, FALSE}} :
           n \in 1..Len(buffer)}

KillRun ==
  /\ runPc \in {"download", "load", "loop", "write", "except"} /\ starts < MaxStarts
  /\ file' \in OnDisk
  /\ dataset' \in IF runPc = "download" THEN {"missing", "partial"} ELSE {dataset}
  /\ header' = FALSE /\ buffer' = <<>> /\ todo' = {} /\ batch' = {}
  /\ runPc' = "ended"
  /\ UNCHANGED <<runner, starts, summary>>

EvaluationStep ==
  \/ Start \/ Download \/ Load \/ LoadFails \/ LoadBatched \/ LoadBatchedFails
  \/ Ask \/ AskRaises \/ PromptsFail \/ GenerateBatch \/ WriteRow \/ FlushBatch \/ AbortBatch
  \/ WriteSummary \/ WriteBatchSummary

EvaluationNext == EvaluationStep \/ KillRun

EvaluationSpec == EvaluationInit /\ [][EvaluationNext]_evaluationVars

-----------------------------------------------------------------------------
(* Over all kills and resumes a case has the rows of one run (it may have  *)
(* been evaluated in an earlier one that was killed before it was on       *)
(* disk): two rows are the answer and the failure that a batch's exception *)
(* wrote behind it.  (A file whose header was lost, because it was made by *)
(* a run that was killed before its first flush, is beyond this.)          *)
EachOnce(rows) ==
  \A k, l \in DOMAIN rows : k < l /\ rows[k].id = rows[l].id =>
    /\ runner = "bnb"
    /\ rows[k].run = rows[l].run
    /\ ~rows[l].ok

EvaluatedOnce == file.header => EachOnce(file.rows)

(* The GSM8K summary covers the dataset, each case once, however often the *)
(* run was killed and resumed on the way.                                  *)
SummaryCoversDataset ==
  runner = "gsm8k" /\ runPc = "done" /\ dataset = "whole" /\ file.header =>
    /\ summary.total = NumRows
    /\ {file.rows[k].id : k \in DOMAIN file.rows} = RowIds

(* Why: while a run has the file open, it still has to evaluate the cases  *)
(* without a row, and those only, and its buffer holds rows of the batch.  *)
EvaluationFits ==
  /\ runPc # "ended" => starts > 0
  /\ runPc \notin {"loop", "write", "except"} => ~header
  /\ runPc \notin {"write", "except"} => buffer = <<>>
  /\ runPc \in {"write", "except"} => runner = "bnb" /\ batch \subseteq todo
  /\ header => ~file.header /\ file.rows = <<>>
  /\ ~file.exists => file = NoFile
  /\ \A k \in DOMAIN buffer :
       /\ buffer[k].id \in batch /\ buffer[k].run = starts
       /\ \A l \in DOMAIN buffer : buffer[k].id = buffer[l].id => k = l
  /\ runner = "gsm8k" => \A k \in DOMAIN file.rows : ~file.rows[k].torn
  /\ runPc \in {"loop", "write", "except"} /\ (header \/ file.header) =>
       LET ids == {file.rows[k].id : k \in DOMAIN file.rows} IN
       /\ todo \intersect ids = {}
       /\ runner = "gsm8k" /\ dataset = "whole" => RowIds \subseteq todo \cup ids

(* The CSV file and the summary made of it, over all kills and resumes.    *)
EvaluationInvariant ==
  EvaluationTypeOK /\ EvaluationFits /\ EvaluatedOnce /\ SummaryCoversDataset

=============================================================================
