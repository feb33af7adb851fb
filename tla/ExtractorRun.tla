---------------------------- MODULE ExtractorRun ----------------------------
(***************************************************************************)
(* One extractor run (extractor.rs run_one): the child process, the three  *)
(* pipes it is connected to, the three helper threads at their other ends, *)
(* and the thread that waits for the child with a deadline and then scans  *)
(* the directory it wrote into (artifacts.rs scan).                        *)
(*                                                                         *)
(* A pipe holds PipeCapacity units (64 KiB on Linux); the message is Input *)
(* units long.  The child is a script of operations.  "fork" leaves a      *)
(* process behind that inherits all three pipes and ends whenever it       *)
(* likes.  The deadline (10 s) is long against every other step: it passes *)
(* only when nothing else can happen.                                      *)
(***************************************************************************)
EXTENDS Naturals, Sequences, FiniteSets

CONSTANTS
    Script,         \* what the child may do: sequences of Op that end in Last
    PipeCapacity,
    Input           \* units of the message written to stdin

Op == {"read", "stdout", "stderr", "artifact", "unknown", "badmanifest", "fork"}
Last == {"succeed", "fail", "hang", "nospawn"}

ExtractorRunAssumption ==
    /\ PipeCapacity \in Nat \ {0}
    /\ Input \in Nat
    /\ \A s \in Script :
          /\ s \in Seq(Op \cup Last)
          /\ s # <<>>
          /\ \A i \in 1..Len(s) : s[i] \in Last <=> i = Len(s)
          /\ s[Len(s)] = "nospawn" => Len(s) = 1

VARIABLES
    script,     \* the script of this run
    at,         \* the position in it of the child's next operation
    child,      \* "none", "running", "success", "failure" or "killed"
    lingers,    \* a process the child has left behind holds the pipes
    pipe,       \* [Stream -> 0..PipeCapacity]: units in the pipe
    unsent,     \* units the writer thread has not written yet
    helper,     \* [Stream -> {"busy", "done"}]: the helper threads
    runner,     \* where run_one is
    found       \* the number of artifacts it returns

vars == <<script, at, child, lingers, pipe, unsent, helper, runner, found>>

Stream == {"stdin", "stdout", "stderr"}

Joining == {"join stdout", "join stderr", "join stdin"}
Returned == {"ok", "failed", "timed out"}

\* Somebody else holds the other end of the pipes.
Held == child = "running" \/ lingers

Count(op) == Cardinality({i \in 1..Len(script) : script[i] = op})

Init ==
    /\ script \in Script
    /\ at = 1
    /\ child = "none"
    /\ lingers = FALSE
    /\ pipe = [s \in Stream |-> 0]
    /\ unsent = Input
    /\ helper = [s \in Stream |-> "busy"]
    /\ runner = "spawn"
    /\ found = 0

-----------------------------------------------------------------------------
(***************************************************************************)
(* The child                                                               *)
(***************************************************************************)

Does(op) == child = "running" /\ script[at] = op

\* A read blocks while the pipe is empty but open, a write while it is full.
Blocks(op) ==
    CASE op = "read" -> pipe["stdin"] = 0 /\ helper["stdin"] = "busy"
      [] op \in {"stdout", "stderr"} -> pipe[op] = PipeCapacity
      [] OTHER -> op = "hang"

\* It reads a unit of the message, or sees that there is no more.
Read ==
    /\ Does("read") /\ ~ Blocks("read")
    /\ pipe' = [pipe EXCEPT !["stdin"] = IF @ > 0 THEN @ - 1 ELSE 0]
    /\ at' = at + 1
    /\ UNCHANGED <<script, child, lingers, unsent, helper, runner, found>>

\* It writes a unit.
Write(s) ==
    /\ Does(s) /\ ~ Blocks(s)
    /\ pipe' = [pipe EXCEPT ![s] = @ + 1]
    /\ at' = at + 1
    /\ UNCHANGED <<script, child, lingers, unsent, helper, runner, found>>

\* It writes a file into its directory (artifacts.rs classify decides what
\* kind of file).
WriteFile ==
    /\ \E op \in {"artifact", "unknown", "badmanifest"} : Does(op)
    /\ at' = at + 1
    /\ UNCHANGED <<script, child, lingers, pipe, unsent, helper, runner, found>>

Fork ==
    /\ Does("fork")
    /\ lingers' = TRUE
    /\ at' = at + 1
    /\ UNCHANGED <<script, child, pipe, unsent, helper, runner, found>>

Exit ==
    /\ Does("succeed") \/ Does("fail")
    /\ child' = IF script[at] = "succeed" THEN "success" ELSE "failure"
    /\ UNCHANGED <<script, at, lingers, pipe, unsent, helper, runner, found>>

\* The process that was left behind ends.
Linger ==
    /\ lingers
    /\ lingers' = FALSE
    /\ UNCHANGED <<script, at, child, pipe, unsent, helper, runner, found>>

Child == Read \/ Write("stdout") \/ Write("stderr") \/ WriteFile \/ Fork \/ Exit

-----------------------------------------------------------------------------
(***************************************************************************)
(* The helper threads                                                      *)
(***************************************************************************)

\* Mutant: the message is written by run_one itself, before it reads anything.
CanDrain_Inline(s) ==
    /\ child # "none" /\ helper[s] = "busy"
    /\ pipe[s] > 0 \/ ~ Held
    /\ helper["stdin"] = "done"

\* There is something to read, or nobody left to wait for.
CanDrain(s) ==
    /\ child # "none" /\ helper[s] = "busy"
    /\ pipe[s] > 0 \/ ~ Held

\* read_to_end: until nobody holds the other end and the pipe is empty.
drain(s) ==
    /\ CanDrain(s)
    /\ IF pipe[s] > 0 THEN pipe' = [pipe EXCEPT ![s] = @ - 1] /\ UNCHANGED helper
                      ELSE helper' = [helper EXCEPT ![s] = "done"] /\ UNCHANGED pipe
    /\ UNCHANGED <<script, at, child, lingers, unsent, runner, found>>

CanWrite ==
    /\ child # "none" /\ helper["stdin"] = "busy"
    /\ unsent > 0 /\ Held => pipe["stdin"] < PipeCapacity

\* write_all, and then stdin is closed; EPIPE when nobody reads any more.
write_all ==
    /\ CanWrite
    /\ IF unsent > 0 /\ Held
         THEN /\ pipe' = [pipe EXCEPT !["stdin"] = @ + 1]
              /\ unsent' = unsent - 1
              /\ UNCHANGED helper
         ELSE helper' = [helper EXCEPT !["stdin"] = "done"] /\ UNCHANGED <<pipe, unsent>>
    /\ UNCHANGED <<script, at, child, lingers, runner, found>>

Helpers == write_all \/ drain("stdout") \/ drain("stderr")
HelpersBusy == CanWrite \/ CanDrain("stdout") \/ CanDrain("stderr")

-----------------------------------------------------------------------------
(***************************************************************************)
(* run_one                                                                 *)
(***************************************************************************)

Goto(where) ==
    /\ runner' = where
    /\ UNCHANGED <<script, at, lingers, pipe, unsent, helper>>

spawn ==
    /\ runner = "spawn"
    /\ IF script[1] = "nospawn"
         THEN Goto("failed") /\ UNCHANGED child
         ELSE Goto("wait") /\ child' = "running"
    /\ UNCHANGED found

\* The child is gone before the deadline.
wait_timeout ==
    /\ runner = "wait"
    /\ child \in {"success", "failure"}
    /\ Goto("join stdout")
    /\ UNCHANGED <<child, found>>

\* Mutant: the helpers are joined after a kill, too.
kill_Joins ==
    /\ runner = "wait"
    /\ child = "running"
    /\ Blocks(script[at]) /\ ~ HelpersBusy
    /\ child' = "failure"
    /\ Goto("join stdout")
    /\ UNCHANGED found

\* The deadline passes: the child is killed and nobody waits for the helpers.
kill ==
    /\ runner = "wait"
    /\ child = "running"
    /\ Blocks(script[at]) /\ ~ HelpersBusy
    /\ child' = "killed"
    /\ Goto("timed out")
    /\ UNCHANGED found

join(s, then) ==
    /\ helper[s] = "done"
    /\ Goto(then)
    /\ UNCHANGED <<child, found>>

join_helpers ==
    \/ runner = "join stdout" /\ join("stdout", "join stderr")
    \/ runner = "join stderr" /\ join("stderr", "join stdin")
    \/ runner = "join stdin"  /\ join("stdin", "scan")

\* A run counts only if the child succeeded and its _manifest.json parses;
\* files of no known kind are left out.
scan ==
    /\ runner = "scan"
    /\ IF child = "success" /\ Count("badmanifest") = 0
         THEN Goto("ok") /\ found' = Count("artifact")
         ELSE Goto("failed") /\ UNCHANGED found
    /\ UNCHANGED child

Runner == spawn \/ wait_timeout \/ kill \/ join_helpers \/ scan

\* run_one has returned and its threads are gone.
Over == runner \in Returned /\ ~ HelpersBusy /\ ~ lingers /\ UNCHANGED vars

Next == Child \/ Linger \/ Helpers \/ Runner \/ Over

Spec == Init /\ [][Next]_vars

\* Every thread and the child are scheduled; the process left behind ends when
\* it likes.
Fairness ==
    /\ WF_vars(Child)
    /\ WF_vars(Runner)
    /\ WF_vars(write_all) /\ WF_vars(drain("stdout")) /\ WF_vars(drain("stderr"))

FairSpec == Spec /\ Fairness

-----------------------------------------------------------------------------

TypeOK ==
    /\ script \in Script
    /\ at \in 1..Len(script)
    /\ child \in {"none", "running", "success", "failure", "killed"}
    /\ lingers \in BOOLEAN
    /\ pipe \in [Stream -> 0..PipeCapacity]
    /\ unsent \in 0..Input
    /\ helper \in [Stream -> {"busy", "done"}]
    /\ runner \in {"spawn", "wait", "scan"} \cup Joining \cup Returned
    /\ found \in Nat

(***************************************************************************)
(* "Doing any of it inline deadlocks until the timeout kills a child that  *)
(* was working fine" (run_one): only a child that hangs by itself runs     *)
(* into the deadline, however much it writes and however little of the     *)
(* message it reads.                                                       *)
(***************************************************************************)
OnlyHungIsKilled ==
    runner = "timed out" => script[at] = "hang"

(***************************************************************************)
(* A run files everything the child wrote or nothing: never what a child   *)
(* left behind that failed, was killed, or never got to the end.           *)
(***************************************************************************)
AllOrNothing ==
    runner = "ok" => /\ at = Len(script) /\ script[at] = "succeed"
                     /\ found = Count("artifact")

(***************************************************************************)
(* What run_one returns is the child's own doing (the two above): nothing  *)
(* about the pipes, the helper threads or the deadline turns a good run    *)
(* into a failure or a failed one into artifacts.                          *)
(***************************************************************************)
OutcomeIsTheChilds == OnlyHungIsKilled /\ AllOrNothing

(***************************************************************************)
(* run_one returns, unless a process that the child left behind holds its  *)
(* pipes for ever.  After a kill not even that keeps it.                   *)
(***************************************************************************)
RunReturns ==
    /\ <>(runner \in Returned) \/ <>[](lingers /\ runner \in Joining)
    /\ [](runner = "wait" /\ script[at] = "hang" => <>(runner = "timed out"))
=============================================================================
