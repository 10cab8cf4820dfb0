------------------------------ MODULE AdcPlan ------------------------------
(***************************************************************************)
(* How a batch of PQ-ADC tasks is cut into chunks of the row counts the    *)
(* NPU has graphs for (plan_pq_adc_chunks, src/prim/mixer.cpp): one step   *)
(* per turn of its loops.  Tables and codes are left out: a chunk knows    *)
(* its task, the rows of the task before it (code) and the place of its    *)
(* first row in the output (out).  Integers are unbounded here; the code   *)
(* guards its products one task at a time.                                 *)
(***************************************************************************)
EXTENDS Integers, Sequences

CONSTANTS
  Tasks,   \* sequences of tasks a caller may hand over
  Outputs  \* output_rows it may announce

ASSUME AdcPlanAssumption ==
  /\ Tasks \subseteq Seq([rows : Int, output_offset : Int])
  /\ Outputs \subseteq Int

VARIABLES
  tasks, output_rows,  \* the arguments
  task_index, consumed, expected_output,
  planned,             \* the chunks so far
  plan                 \* "idle", "planning", "planned" or "refused"

planVars == <<tasks, output_rows, task_index, consumed, expected_output,
              planned, plan>>

PlanInit ==
  /\ tasks = <<>> /\ output_rows = 0 /\ task_index = 1 /\ consumed = 0
  /\ expected_output = 0 /\ planned = {} /\ plan = "idle"

pq_adc_bucket_rows(remaining) ==
  CASE remaining <= 0 -> 0
    [] 0 < remaining /\ remaining <= 128 -> 128
    [] 128 < remaining /\ remaining <= 256 -> 256
    [] 256 < remaining /\ remaining <= 512 -> 512
    [] 512 < remaining /\ remaining <= 1024 -> 1024
    [] OTHER -> 2048

Task == tasks[task_index]
Lesser(a, b) == IF a < b THEN a ELSE b

Begin ==
  /\ plan = "idle"
  /\ tasks' \in Tasks /\ output_rows' \in Outputs
  /\ plan' = IF Len(tasks') > 0 /\ output_rows' > 0 THEN "planning" ELSE "refused"
  /\ UNCHANGED <<task_index, consumed, expected_output, planned>>

\* A task that is empty, that does not start where the last one ended, or
\* that passes the end of the output.
RefuseTask ==
  /\ plan = "planning" /\ task_index <= Len(tasks) /\ consumed = 0
  /\ \/ Task.rows <= 0
     \/ Task.output_offset # expected_output
     \/ Task.rows > output_rows - expected_output
  /\ plan' = "refused"
  /\ UNCHANGED <<tasks, output_rows, task_index, consumed, expected_output, planned>>

\* Mutant: every chunk of a task is placed at its start.
CutAtStart ==
  LET remaining == Task.rows - consumed
      bucket == pq_adc_bucket_rows(remaining)
      valid == Lesser(remaining, bucket) IN
  /\ plan = "planning" /\ task_index <= Len(tasks) /\ consumed < Task.rows
  /\ Task.output_offset = expected_output
  /\ Task.rows <= output_rows - expected_output
  /\ planned' = planned \cup
       {[task |-> task_index, code |-> consumed, valid |-> valid,
         bucket |-> bucket, out |-> Task.output_offset]}
  /\ consumed' = consumed + valid
  /\ UNCHANGED <<tasks, output_rows, task_index, expected_output, plan>>

\* One turn of the inner loop.
Cut ==
  LET remaining == Task.rows - consumed
      bucket == pq_adc_bucket_rows(remaining)
      valid == Lesser(remaining, bucket) IN
  /\ plan = "planning" /\ task_index <= Len(tasks) /\ consumed < Task.rows
  /\ Task.output_offset = expected_output
  /\ Task.rows <= output_rows - expected_output
  /\ planned' = planned \cup
       {[task |-> task_index, code |-> consumed, valid |-> valid,
         bucket |-> bucket, out |-> Task.output_offset + consumed]}
  /\ consumed' = consumed + valid
  /\ UNCHANGED <<tasks, output_rows, task_index, expected_output, plan>>

NextTask ==
  /\ plan = "planning" /\ task_index <= Len(tasks)
  /\ consumed > 0 /\ consumed >= Task.rows
  /\ expected_output' = expected_output + Task.rows
  /\ task_index' = task_index + 1 /\ consumed' = 0
  /\ UNCHANGED <<tasks, output_rows, planned, plan>>

Finish ==
  /\ plan = "planning" /\ task_index > Len(tasks)
  /\ plan' = IF expected_output = output_rows THEN "planned" ELSE "refused"
  /\ UNCHANGED <<tasks, output_rows, task_index, consumed, expected_output, planned>>

PlanNext == Begin \/ RefuseTask \/ Cut \/ NextTask \/ Finish
PlanSpec == PlanInit /\ [][PlanNext]_planVars

-----------------------------------------------------------------------------
Places(c) == c.out .. c.out + c.valid - 1

\* A plan that is accepted gives every row of the output to one chunk, whose
\* code offset is that of the row in its task, and no chunk overflows the
\* graph it runs on.
PlanTilesTheOutput ==
  plan = "planned" =>
    /\ \A r \in 0 .. output_rows - 1 : \E c \in planned : r \in Places(c)
    /\ \A c \in planned :
         /\ Places(c) \subseteq 0 .. output_rows - 1 /\ c.valid <= c.bucket
         /\ c.out = tasks[c.task].output_offset + c.code
    /\ \A c, d \in planned : Places(c) \cap Places(d) # {} => c = d
=============================================================================
